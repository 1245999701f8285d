---------------------------- MODULE PreviewWindow ----------------------------
(***************************************************************************)
(* The preview window (PreviewWindow.cpp).  Every method holds             *)
(* mObjectLock, so each is one step.  The geometry of the window's buffers *)
(* is set lazily, by the first frame that differs from the cached          *)
(* dimensions, and the surface may refuse any call.                        *)
(***************************************************************************)
EXTENDS Integers

CONSTANTS FrameKinds,   \* width, height and format of a frame, as one value
          WindowCalls   \* bound: windows set

VARIABLES wWindow,   \* mPreviewWindow: 0, or the number of the window
          wEnabled,  \* mPreviewEnabled
          wAdjust,   \* mShouldAdjustDimensions
          wCached,   \* mPreviewFrameWidth, mPreviewFrameHeight, mCurPixelFormat
          wGeometry, \* geometry of the window's buffers
          wRefused,  \* history: the window refused a geometry
          wShown,    \* the last frame displayed in the window
          wSet       \* windows set so far

wVars == <<wWindow, wEnabled, wAdjust, wCached, wGeometry, wRefused, wShown, wSet>>

WInit ==
  /\ wWindow = 0 /\ wEnabled = FALSE /\ wAdjust = TRUE /\ wCached = "none"
  /\ wGeometry = "none" /\ wRefused = FALSE /\ wShown = "none" /\ wSet = 0

\* Mutant: the cached dimensions survive the change of window.
WindowKeepsCache(ok) ==
  /\ wSet < WindowCalls /\ wSet' = wSet + 1
  /\ wWindow' = IF ok THEN wSet + 1 ELSE 0
  /\ wGeometry' = "none" /\ wRefused' = FALSE /\ wShown' = "none"
  /\ UNCHANGED <<wEnabled, wAdjust, wCached>>

\* A window, or NULL; set_usage may refuse it.
setPreviewWindow(ok) ==
  /\ wSet < WindowCalls /\ wSet' = wSet + 1
  /\ wCached' = "none"
  /\ wWindow' = IF ok THEN wSet + 1 ELSE 0
  /\ wGeometry' = "none" /\ wRefused' = FALSE /\ wShown' = "none"
  /\ UNCHANGED <<wEnabled, wAdjust>>

startWindow ==
  /\ wEnabled' = TRUE
  /\ UNCHANGED <<wWindow, wAdjust, wCached, wGeometry, wRefused, wShown, wSet>>

stopWindow ==
  /\ wEnabled' = FALSE /\ wAdjust' = TRUE
  /\ UNCHANGED <<wWindow, wCached, wGeometry, wRefused, wShown, wSet>>

\* adjustPreviewDimensions: the cache is replaced, and the flag cleared, before
\* the window has agreed.
NeedsGeometry(f) == wCached # f \/ wAdjust
AdjustAfterCache(f) == wAdjust /\ wCached = f

\* set_buffers_geometry fails.
GeometryRefused(f) ==
  /\ wEnabled /\ wWindow # 0 /\ NeedsGeometry(f)
  /\ wCached' = f /\ wAdjust' = AdjustAfterCache(f) /\ wRefused' = TRUE
  /\ UNCHANGED <<wWindow, wEnabled, wGeometry, wShown, wSet>>

\* set_buffer_count fails after the geometry was set; an abandoned surface is
\* forgotten.
CountRefused(f, abandoned) ==
  /\ wEnabled /\ wWindow # 0 /\ NeedsGeometry(f)
  /\ wCached' = f /\ wAdjust' = FALSE /\ wGeometry' = f
  /\ wWindow' = IF abandoned THEN 0 ELSE wWindow
  /\ wShown' = "none"
  /\ UNCHANGED <<wEnabled, wRefused, wSet>>

\* The frame is displayed, or dropped because dequeue_buffer, lock_buffer or
\* the mapper fails; the buffer of a dropped frame is cancelled.
ShowFrame(f, dropped) ==
  /\ wEnabled /\ wWindow # 0
  /\ wCached' = f /\ wAdjust' = FALSE
  /\ wGeometry' = IF NeedsGeometry(f) THEN f ELSE wGeometry
  /\ wShown' = IF dropped THEN "none" ELSE f
  /\ UNCHANGED <<wWindow, wEnabled, wRefused, wSet>>

WNext ==
  \/ startWindow \/ stopWindow
  \/ \E ok \in BOOLEAN : setPreviewWindow(ok)
  \/ \E f \in FrameKinds :
       \/ GeometryRefused(f)
       \/ \E b \in BOOLEAN : CountRefused(f, b) \/ ShowFrame(f, b)

=============================================================================
