-------------------------------- MODULE TofNode --------------------------------
(****************************************************************************)
(* tof/tof_node.py: the second sensing node, a Python process that reads an  *)
(* 8x8 time-of-flight imager and sends a brake command for every image.      *)
(****************************************************************************)
EXTENDS BrakeBus

CONSTANTS
    MAX_DISTANCE_MM, \* an object at or closer than this engages the brake
    Distances        \* what a zone may read; 0 stands for no target

ASSUME DistancesAssumption == MAX_DISTANCE_MM \in Nat /\ Distances \subseteq Nat

VARIABLES
    tof,     \* program counter of the process
    tofEnd,  \* why it ended
    payload, \* the command in msg
    near     \* an object is within MAX_DISTANCE_MM of the imager

tofNode == <<tof, tofEnd, payload>>

TofPC == {"none", "bus", "sensor", "poll", "send", "dead"}
TofEnds == {"none", "bus", "sensor", "killed"}

TofTypeOK ==
    /\ tof \in TofPC /\ tofEnd \in TofEnds
    /\ payload \in Commands /\ near \in BOOLEAN

TofInit == tof = "none" /\ tofEnd = "none" /\ payload = "disengage" /\ near \in BOOLEAN

TofAlive == tof \notin {"none", "dead"}
TofEnded(why) == tof' = "dead" /\ tofEnd' = why

\* bind() succeeds on an interface that exists, up or down.
OpenBus ==
    /\ tof = "bus"
    /\ IF hat THEN tof' = "sensor" /\ UNCHANGED tofEnd ELSE TofEnded("bus")
    /\ UNCHANGED <<payload, near, bus>>

StartRanging ==
    /\ tof = "sensor"
    /\ tof' = "poll"
    /\ UNCHANGED <<tofEnd, payload, near, bus>>

\* An I2C error: before the loop it is reported, in the loop it passes through the
\* finally and ends the process.
SensorFails ==
    /\ tof \in {"sensor", "poll"}
    /\ TofEnded("sensor")
    /\ UNCHANGED <<payload, near, bus>>

\* The images the surroundings may produce: a zone reads an object at its distance.
Images == {image \in SUBSET Distances :
             near <=> \E d \in image : d > 0 /\ d <= MAX_DISTANCE_MM}

\* Mutant: the threshold itself is out of range.
StrictlyCloser(image) == \E d \in image : 0 < d /\ d < MAX_DISTANCE_MM

\* any(0 < d <= MAX_DISTANCE_MM for d in data.distance_mm)
Obstacle(image) == \E d \in image : 0 < d /\ d <= MAX_DISTANCE_MM

Judge ==
    /\ tof = "poll"
    /\ \E image \in Images :
         payload' = IF Obstacle(image) THEN "engage" ELSE "disengage"
    /\ tof' = "send"
    /\ UNCHANGED <<tofEnd, near, bus>>

TofSends ==
    /\ tof = "send"
    /\ Accepted(payload)
    /\ tof' = "poll"
    /\ UNCHANGED <<tofEnd, payload, near>>

\* can.CanError is reported, and the loop goes on.
TofSendFails ==
    /\ tof = "send"
    /\ Refused
    /\ tof' = "poll"
    /\ UNCHANGED <<tofEnd, payload, near>>

\* Whatever is in front of the imager comes or goes.
SceneChanges ==
    /\ near' = ~near
    /\ UNCHANGED <<tofNode, bus>>

TofStep ==
    \/ OpenBus \/ StartRanging \/ SensorFails
    \/ Judge \/ TofSends \/ TofSendFails

\* SIGTERM has its default action: no finally, the imager keeps ranging.
TofTerminated ==
    IF TofAlive THEN TofEnded("killed") /\ UNCHANGED payload ELSE UNCHANGED tofNode
================================================================================
