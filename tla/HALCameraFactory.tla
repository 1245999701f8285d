-------------------------- MODULE HALCameraFactory --------------------------
(***************************************************************************)
(* The camera module's entry points (HALCameraFactory.cpp): the list of    *)
(* cameras, from the configuration (CCameraConfig.cpp) and from the device *)
(* nodes found, and opening one of them.  A camera is a device node and an *)
(* input of it.  The camera service lists the cameras while none is open.  *)
(***************************************************************************)
EXTENDS Integers, Sequences, FiniteSets

CONSTANT MaxOpens   \* bound: opens and changes of the plugged cameras

Ids == 0 .. 1       \* MAX_NUM_OF_CAMERAS is 2
None == <<>>

VARIABLES gConfig,   \* the attached cameras of camera.cfg, as a sequence
          gPlugged,  \* device nodes of USB cameras present
          gInfo,     \* mHalCameraInfo: the camera of each id
          gListed,   \* mAttachedCamerasNum + mRemovableCamerasNum
          gOpen,     \* the camera each CameraHardware is connected to
          gIdle,     \* mIsCameraIdle of each
          gOpens

gVars == <<gConfig, gPlugged, gInfo, gListed, gOpen, gIdle, gOpens>>

Camera(node, input) == [node |-> node, input |-> input]

\* No camera, one on either node, two inputs of one node, or one too many.
Configs == {<<>>, <<Camera(0, 0)>>, <<Camera(1, 0)>>, <<Camera(0, 0), Camera(0, 1)>>,
            <<Camera(0, 0), Camera(0, 1), Camera(1, 0)>>}
TooMany == Len(gConfig) > 2

GInit ==
  /\ gConfig \in Configs /\ gPlugged = {}
  /\ gInfo = [i \in Ids |-> None] /\ gListed = DOMAIN gConfig
  /\ gOpen = [i \in Ids |-> None] /\ gIdle = [i \in Ids |-> TRUE] /\ gOpens = 0

\* A USB camera comes or goes; the nodes of attached cameras are taken.
PlugCamera(node) ==
  /\ gOpens < MaxOpens /\ gOpens' = gOpens + 1
  /\ \A k \in DOMAIN gConfig : gConfig[k].node # node
  /\ \A i \in Ids : gOpen[i] = None
  /\ gPlugged' = (gPlugged \ {node}) \cup ({node} \ gPlugged)
  /\ UNCHANGED <<gConfig, gInfo, gListed, gOpen, gIdle>>

\* The entries a scan writes; the others keep what an earlier scan left there.
ScanCount ==
  IF TooMany THEN 0
  ELSE IF Len(gConfig) = 2 THEN 2
  ELSE IF Len(gConfig) = 1 THEN 1 + Cardinality(gPlugged \ {gConfig[1].node})
  ELSE Cardinality(gPlugged)

ScanEntry(i) ==
  IF i < Len(gConfig) THEN gConfig[i + 1]
  ELSE IF Len(gConfig) = 1 THEN Camera(1 - gConfig[1].node, 0)
  ELSE LET node == IF i = 0 THEN CHOOSE n \in gPlugged : \A m \in gPlugged : n <= m ELSE 1
       IN Camera(node, node)

\* A configuration with too many cameras is refused, but still counted by the
\* checks of the ids: the entries are then those of a cleared table.
getCameraHardwareNum ==
  /\ \A i \in Ids : gOpen[i] = None
  /\ gInfo' = [i \in Ids |-> IF i < ScanCount THEN ScanEntry(i) ELSE gInfo[i]]
  /\ gListed' = IF TooMany THEN DOMAIN gConfig ELSE 1 .. ScanCount
  /\ UNCHANGED <<gConfig, gPlugged, gOpen, gIdle, gOpens>>

\* Mutant: the id is checked against MAX_NUM_OF_CAMERAS.
OpenAnyId(i, ok) ==
  /\ gOpens < MaxOpens /\ gOpens' = gOpens + 1
  /\ gOpen[i] = None /\ gInfo[i] # None
  /\ IF ok /\ gInfo[i].node \in gPlugged \cup {gConfig[k].node : k \in DOMAIN gConfig}
     THEN gOpen' = [gOpen EXCEPT ![i] = gInfo[i]] /\ gIdle' = [gIdle EXCEPT ![i] = FALSE]
     ELSE UNCHANGED <<gOpen, gIdle>>
  /\ UNCHANGED <<gConfig, gPlugged, gInfo, gListed>>

\* cameraDeviceOpen: if some camera is not idle it sleeps half a second and
\* goes on all the same.  connectCamera fails without the node and makes the
\* camera idle again; if Initialize fails afterwards, the camera stays
\* connected although the caller is told -EINVAL.
cameraDeviceOpen(i, ok) ==
  /\ gOpens < MaxOpens /\ gOpens' = gOpens + 1
  /\ i < Cardinality(gListed) /\ gOpen[i] = None /\ gInfo[i] # None
  /\ IF ok /\ gInfo[i].node \in gPlugged \cup {gConfig[k].node : k \in DOMAIN gConfig}
     THEN gOpen' = [gOpen EXCEPT ![i] = gInfo[i]] /\ gIdle' = [gIdle EXCEPT ![i] = FALSE]
     ELSE UNCHANGED <<gOpen, gIdle>>
  /\ UNCHANGED <<gConfig, gPlugged, gInfo, gListed>>

CloseFactory(i) ==
  /\ gOpen[i] # None
  /\ gOpen' = [gOpen EXCEPT ![i] = None] /\ gIdle' = [gIdle EXCEPT ![i] = TRUE]
  /\ UNCHANGED <<gConfig, gPlugged, gInfo, gListed, gOpens>>

GNext ==
  \/ getCameraHardwareNum
  \/ \E node \in {0, 1} : PlugCamera(node)
  \/ \E i \in Ids : CloseFactory(i) \/ \E ok \in BOOLEAN : cameraDeviceOpen(i, ok)

=============================================================================
