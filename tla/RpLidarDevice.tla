----------------------------- MODULE RpLidarDevice -----------------------------
(****************************************************************************)
(* lidar/RpLidarDevice.cpp: bring-up and teardown of the sensor, one action  *)
(* per call into the Slamtec SDK, with the sensor unplugged at any moment.   *)
(* The callers are serialised by Lidar's device_mutex.                       *)
(****************************************************************************)
EXTENDS Naturals

CONSTANT MaxReplug       \* bound: how often the sensor is plugged in again

ASSUME MaxReplugAssumption == MaxReplug \in Nat

VARIABLES
    dpc,        \* where the call in progress is; "idle" between calls
    after,     \* what follows a close(): the rest of open(), or the return
    channel,   \* channel_ # nullptr
    driver,    \* driver_ # nullptr
    error,     \* the last error text, by its origin
    ok,        \* what the last call returned
    plugged,   \* the sensor is powered and connected
    spinning,  \* the sensor's motor
    replugs,   \* how often it was plugged in again
    orphans    \* history: SDK objects whose only pointer was overwritten

hardware == <<plugged, spinning, replugs>>
deviceVars == <<dpc, after, channel, driver, error, ok, hardware, orphans>>

DevicePC == {"idle", "channel", "driver", "connect", "info", "motor", "scan",
       "stop", "motorOff", "deleteDriver", "deleteChannel"}
Origins == {"none", "channel", "driver", "connect", "info", "motor", "scan", "grab", "closed"}

DeviceTypeOK ==
    /\ dpc \in DevicePC
    /\ after \in {"channel", "idle"}
    /\ channel \in BOOLEAN /\ driver \in BOOLEAN
    /\ error \in Origins
    /\ ok \in BOOLEAN
    /\ plugged \in BOOLEAN /\ spinning \in BOOLEAN
    /\ replugs \in 0..MaxReplug
    /\ orphans \in 0..2

DeviceInit ==
    /\ dpc = "idle" /\ after = "idle"
    /\ channel = FALSE /\ driver = FALSE
    /\ error = "none" /\ ok = FALSE
    /\ plugged \in BOOLEAN /\ spinning = FALSE /\ replugs = 0
    /\ orphans = 0

----------------------------------------------------------------------------
(* close()                                                                  *)

\* Where close() begins: with the driver, if there is one.
CloseEntry == IF driver THEN "stop" ELSE "deleteChannel"

BeginClose(then) == dpc' = CloseEntry /\ after' = then

Close ==
    /\ dpc = "idle"
    /\ BeginClose("idle")
    /\ ok' = FALSE
    /\ UNCHANGED <<channel, driver, error, hardware, orphans>>

StopScan ==
    /\ dpc = "stop"
    /\ dpc' = "motorOff"
    /\ UNCHANGED <<after, channel, driver, error, ok, hardware, orphans>>

\* Mutant: the motor is left to itself.
MotorLeftOn == spinning

\* The motor after setMotorSpeed(0), which fails harmlessly without a sensor.
MotorAfterClose == FALSE

MotorOff ==
    /\ dpc = "motorOff"
    /\ spinning' = MotorAfterClose
    /\ dpc' = "deleteDriver"
    /\ UNCHANGED <<after, channel, driver, error, ok, plugged, replugs, orphans>>

DeleteDriver ==
    /\ dpc = "deleteDriver"
    /\ driver' = FALSE
    /\ dpc' = "deleteChannel"
    /\ UNCHANGED <<after, channel, error, ok, hardware, orphans>>

DeleteChannel ==
    /\ dpc = "deleteChannel"
    /\ channel' = FALSE
    /\ dpc' = after
    /\ UNCHANGED <<after, driver, error, ok, hardware, orphans>>

----------------------------------------------------------------------------
(* open()                                                                   *)

\* The first thing open() does.
CloseFirst == BeginClose("channel")

Open ==
    /\ dpc = "idle"
    /\ CloseFirst
    /\ ok' = FALSE
    /\ UNCHANGED <<channel, driver, error, hardware, orphans>>

\* Mutant: a failure returns without releasing what was acquired.
ReturnsHalfOpen == dpc' = "idle" /\ after' = "idle"

\* What every failure after the channel was created does before it returns.
Unwind == BeginClose("idle")

CreateChannel ==
    /\ dpc = "channel"
    /\ orphans' = IF channel THEN orphans + 1 ELSE orphans
    /\ channel' = TRUE
    /\ dpc' = "driver"
    /\ UNCHANGED <<after, driver, error, ok, hardware>>

CreateChannelFails ==
    /\ dpc = "channel"
    /\ error' = "channel"
    /\ dpc' = "idle"
    /\ UNCHANGED <<after, channel, driver, ok, hardware, orphans>>

CreateDriver ==
    /\ dpc = "driver"
    /\ orphans' = IF driver THEN orphans + 1 ELSE orphans
    /\ driver' = TRUE
    /\ dpc' = "connect"
    /\ UNCHANGED <<after, channel, error, ok, hardware>>

CreateDriverFails ==
    /\ dpc = "driver"
    /\ error' = "driver"
    /\ Unwind
    /\ UNCHANGED <<channel, driver, ok, hardware, orphans>>

\* An adapter without its sensor connects; only getDeviceInfo() tells.
Connect ==
    /\ dpc = "connect"
    /\ dpc' = "info"
    /\ UNCHANGED <<after, channel, driver, error, ok, hardware, orphans>>

GetDeviceInfo ==
    /\ dpc = "info" /\ plugged
    /\ dpc' = "motor"
    /\ UNCHANGED <<after, channel, driver, error, ok, hardware, orphans>>

\* Success, or a firmware without a motor control of its own.
SetMotorSpeed ==
    /\ dpc = "motor" /\ plugged
    /\ spinning' = TRUE
    /\ dpc' = "scan"
    /\ UNCHANGED <<after, channel, driver, error, ok, plugged, replugs, orphans>>

StartScan ==
    /\ dpc = "scan" /\ plugged
    /\ error' = "none" /\ ok' = TRUE
    /\ dpc' = "idle"
    /\ UNCHANGED <<after, channel, driver, hardware, orphans>>

\* Any of the four SDK calls may fail, whether the sensor is there or not.
BringUpFails ==
    /\ dpc \in {"connect", "info", "motor", "scan"}
    /\ error' = dpc
    /\ Unwind
    /\ UNCHANGED <<channel, driver, ok, hardware, orphans>>

----------------------------------------------------------------------------
(* grabScan()                                                               *)

GrabOnClosed ==
    /\ dpc = "idle" /\ ~driver
    /\ error' = "closed" /\ ok' = FALSE
    /\ UNCHANGED <<dpc, after, channel, driver, hardware, orphans>>

Grab ==
    /\ dpc = "idle" /\ driver /\ plugged
    /\ error' = "none" /\ ok' = TRUE
    /\ UNCHANGED <<dpc, after, channel, driver, hardware, orphans>>

GrabScanFails ==
    /\ dpc = "idle" /\ driver
    /\ error' = "grab" /\ ok' = FALSE
    /\ UNCHANGED <<dpc, after, channel, driver, hardware, orphans>>

----------------------------------------------------------------------------

\* A sensor that loses its power stops turning.
Unplug ==
    /\ plugged
    /\ plugged' = FALSE /\ spinning' = FALSE
    /\ UNCHANGED <<dpc, after, channel, driver, error, ok, replugs, orphans>>

Plug ==
    /\ ~plugged /\ replugs < MaxReplug
    /\ plugged' = TRUE /\ replugs' = replugs + 1
    /\ UNCHANGED <<dpc, after, channel, driver, error, ok, spinning, orphans>>

OpenStep ==
    \/ CreateChannel \/ CreateChannelFails \/ CreateDriver \/ CreateDriverFails
    \/ Connect \/ GetDeviceInfo \/ SetMotorSpeed \/ StartScan \/ BringUpFails
CloseStep == StopScan \/ MotorOff \/ DeleteDriver \/ DeleteChannel

DeviceNext ==
    \/ Open \/ OpenStep
    \/ Close \/ CloseStep
    \/ GrabOnClosed \/ Grab \/ GrabScanFails
    \/ Unplug \/ Plug

DeviceSpec == DeviceInit /\ [][DeviceNext]_deviceVars

----------------------------------------------------------------------------
(* Properties                                                               *)

\* "Always either fully open or fully closed - never in between"
\* (RpLidarDevice.hpp:57): between calls, whichever step of the last open()
\* failed, the two SDK objects exist both or not at all, and a call that
\* succeeded found them both.
FullyOpenOrClosed ==
    dpc = "idle" => (driver <=> channel) /\ (ok => driver)

\* The driver never outlives the channel it holds a reference to
\* (RpLidarDevice.cpp:144), at any step of bring-up, failure or teardown.
DriverNeedsChannel == driver => channel

\* No SDK object loses its last pointer.
NoOrphan == orphans = 0

\* A closed device leaves no motor turning, also when the last step of the
\* bring-up failed after the motor had been started.
MotorOffWhenClosed == (dpc = "idle" /\ ~driver) => ~spinning

\* What Lidar takes a call for: open() that returns leaves the device open and
\* reports success, or closed and reports failure, close() leaves it closed, and
\* grabScan() leaves it as it is (Lidar.cpp:121-139).
CallsAsLidarTakesThem ==
    [][/\ dpc # "idle" /\ dpc' = "idle" => (driver' <=> ok')
       /\ dpc = "idle" /\ dpc' = "idle" => UNCHANGED <<driver, channel>>]_deviceVars
================================================================================
