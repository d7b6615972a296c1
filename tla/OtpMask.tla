------------------------------- MODULE OtpMask -------------------------------
(***************************************************************************)
(* How a page is captured while a one-time code stands in a field.  For    *)
(* the screenshot (takeScreenshot, maskOtpInputs, otpMayStillBeVisible in  *)
(* page-utils.ts) the fields are masked, the mask is verified, the picture *)
(* is taken and the fields are put back, frame by frame and each step      *)
(* under a timer that abandons the script without cancelling it.  The HTML *)
(* (getPageContent) is serialised from a clone, on which the code is       *)
(* blanked where it stands cell by cell, and scrubbed from the text where  *)
(* it stands in one piece.                                                 *)
(*                                                                         *)
(* External: a frame runs the scripts it is sent one at a time, in the     *)
(* order they were sent, and may be stuck for any time before the next     *)
(* one; the page does not write to the field itself.  What the detectors   *)
(* cannot recognise as the code (neither one field nor a run of cells) is  *)
(* outside the model.                                                      *)
(***************************************************************************)
EXTENDS Naturals, Sequences

CONSTANTS Frames,      \* frames of the page, each with a field that may hold the code
          MaxCaptures  \* bound: screenshots taken while the code stands

ASSUME CaptureAssumption == MaxCaptures \in Nat

VARIABLES
  mPc,       \* where takeScreenshot is
  mTodo,     \* frames the current loop has not come to yet
  mWait,     \* frames whose script is awaited (none or one)
  mQueue,    \* scripts sent to a frame and not run yet
  mField,    \* what the field shows: nothing, the code, or the mask over it
  mLive,     \* frames that are still attached
  mShot,     \* the last picture
  mCaptures, \* pictures so far
  mRead,     \* history: what the form submission read
  mShape,    \* a field is one input or a run of cells; never changes
  mHtml      \* the frames whose code the HTML last captured shows

maskVars == <<mPc, mTodo, mWait, mQueue, mField, mLive, mShot, mCaptures, mRead,
              mShape, mHtml>>

Scripts == {"mask", "check", "restore", "submit"}

MaskTypeOK ==
  /\ mPc \in {"idle", "mask", "check", "shoot", "restore"}
  /\ mTodo \subseteq Frames /\ mWait \subseteq Frames /\ mLive \subseteq Frames
  /\ \A f \in Frames : \A i \in DOMAIN mQueue[f] : mQueue[f][i] \in Scripts
  /\ mField \in [Frames -> {"empty", "code", "dots"}]
  /\ mShot \in {"none", "clean", "code", "suppressed"}
  /\ mCaptures \in 0..MaxCaptures
  /\ mRead \subseteq {"empty", "code", "dots"}
  /\ mShape \in [Frames -> {"single", "cells"}]
  /\ mHtml \subseteq Frames

MaskInit ==
  /\ mPc = "idle" /\ mTodo = {} /\ mWait = {}
  /\ mQueue = [f \in Frames |-> <<>>]
  /\ mField \in [Frames -> {"empty", "code"}]
  /\ mLive = Frames
  /\ mShot = "none" /\ mCaptures = 0 /\ mRead = {}
  /\ mShape \in [Frames -> {"single", "cells"}]
  /\ \A f \in Frames : mField[f] = "empty" => mShape[f] = "single"
  /\ mHtml = {}

doc == <<mShape, mHtml>>

----------------------------------------------------------------------------

StartMasking ==
  /\ mPc = "idle" /\ mCaptures < MaxCaptures
  /\ mPc' = "mask" /\ mTodo' = mLive
  /\ mShot' = "none" /\ mCaptures' = mCaptures + 1
  /\ UNCHANGED <<mWait, mQueue, mField, mLive, mRead, doc>>

\* evaluate: the script of the current loop goes to the next frame.
Evaluate(f) ==
  /\ mPc \in {"mask", "check", "restore"} /\ mWait = {} /\ f \in mTodo \cap mLive
  /\ mQueue' = [mQueue EXCEPT ![f] = Append(@, mPc)]
  /\ mWait' = {f}
  /\ UNCHANGED <<mPc, mTodo, mField, mLive, mShot, mCaptures, mRead, doc>>

\* A frame that cannot be checked counts as showing the code: no picture.
Suppress ==
  /\ mShot' = "suppressed"
  /\ mPc' = "restore" /\ mTodo' = mLive /\ mWait' = {}

\* Mutant: a frame that cannot be checked is taken to be clean.
EvaluateFailsOpen(f) ==
  /\ mPc \in {"mask", "check", "restore"} /\ f \in mTodo
  /\ f \in mWait \/ (mWait = {} /\ f \notin mLive)
  /\ mTodo' = mTodo \ {f} /\ mWait' = {}
  /\ UNCHANGED <<mPc, mShot, mQueue, mField, mLive, mCaptures, mRead, doc>>

\* The script of frame f throws (f is detached) or its timer fires.  Mask and
\* restore go on with the next frame, the check fails closed.
EvaluateFails(f) ==
  /\ mPc \in {"mask", "check", "restore"} /\ f \in mTodo
  /\ f \in mWait \/ (mWait = {} /\ f \notin mLive)
  /\ IF mPc = "check" THEN Suppress
     ELSE /\ mTodo' = mTodo \ {f} /\ mWait' = {}
          /\ UNCHANGED <<mPc, mShot>>
  /\ UNCHANGED <<mQueue, mField, mLive, mCaptures, mRead, doc>>

\* The script at the head of a frame's queue runs; its result is heard only if
\* it is the one awaited.  An element may resist the mask.
FrameRuns(f) ==
  LET script  == Head(mQueue[f])
      awaited == f \in mWait /\ Len(mQueue[f]) = 1
  IN /\ mQueue[f] # <<>> /\ f \in mLive
     /\ mQueue' = [mQueue EXCEPT ![f] = Tail(@)]
     /\ \/ /\ script = "mask" /\ mField[f] = "code"
           /\ \E shown \in {"dots", "code"} : mField' = [mField EXCEPT ![f] = shown]
        \/ /\ script = "restore" /\ mField[f] = "dots"
           /\ mField' = [mField EXCEPT ![f] = "code"]
        \/ /\ ~(script = "mask" /\ mField[f] = "code")
           /\ ~(script = "restore" /\ mField[f] = "dots")
           /\ UNCHANGED mField
     /\ mRead' = IF script = "submit" THEN mRead \cup {mField[f]} ELSE mRead
     /\ IF awaited /\ script = "check" /\ mField[f] = "code" THEN Suppress
        ELSE /\ mTodo' = IF awaited THEN mTodo \ {f} ELSE mTodo
             /\ mWait' = IF awaited THEN {} ELSE mWait
             /\ UNCHANGED <<mPc, mShot>>
     /\ UNCHANGED <<mLive, mCaptures, doc>>

\* The loop over the frames is through.
NextLoop ==
  /\ mPc \in {"mask", "check", "restore"} /\ mTodo = {}
  /\ mPc' = CASE mPc = "mask" -> "check" [] mPc = "check" -> "shoot" [] OTHER -> "idle"
  /\ mTodo' = IF mPc = "mask" THEN mLive ELSE {}
  /\ UNCHANGED <<mWait, mQueue, mField, mLive, mShot, mCaptures, mRead, doc>>

Picture == IF \E f \in mLive : mField[f] = "code" THEN "code" ELSE "clean"

\* page.screenshot, or its timeout: the finally restores either way.
Shoot ==
  /\ mPc = "shoot"
  /\ mShot' \in {Picture, "none"}
  /\ mPc' = "restore" /\ mTodo' = mLive
  /\ UNCHANGED <<mWait, mQueue, mField, mLive, mCaptures, mRead, doc>>

\* buildCloneScript in one frame: the live values are mirrored onto the clone,
\* and the cells the detector of the mask recognises are blanked there.
CloneScript(f) ==
  IF mField[f] = "code" /\ mShape[f] = "cells" THEN "redacted" ELSE mField[f]

\* redactOtpFromHtml over the serialised text: it finds the code in one piece.
RedactOtpFromHtml(f, shown) ==
  IF shown = "code" /\ mShape[f] = "single" THEN "redacted" ELSE shown

\* getPageContent, after the screenshot was awaited.  A frame that hangs or
\* cannot be entered is skipped; the live fields are not touched.
GetPageContent ==
  /\ mPc = "idle" /\ mCaptures > 0
  /\ \E seen \in SUBSET mLive :
       mHtml' = {f \in seen : RedactOtpFromHtml(f, CloneScript(f)) = "code"}
  /\ UNCHANGED <<mPc, mTodo, mWait, mQueue, mField, mLive, mShot, mCaptures, mRead, mShape>>

\* The agent's next action submits the form: the browser reads the fields.
Submit ==
  /\ mPc = "idle" /\ mCaptures > 0
  /\ \A f \in Frames : \A i \in DOMAIN mQueue[f] : mQueue[f][i] # "submit"
  /\ mQueue' = [f \in Frames |-> IF f \in mLive THEN Append(mQueue[f], "submit")
                                 ELSE mQueue[f]]
  /\ UNCHANGED <<mPc, mTodo, mWait, mField, mLive, mShot, mCaptures, mRead, doc>>

\* A frame navigates away or is removed.
Detach(f) ==
  /\ f \in mLive
  /\ mLive' = mLive \ {f}
  /\ mQueue' = [mQueue EXCEPT ![f] = <<>>]
  /\ UNCHANGED <<mPc, mTodo, mWait, mField, mShot, mCaptures, mRead, doc>>

MaskNext ==
  \/ StartMasking \/ NextLoop \/ Shoot \/ Submit \/ GetPageContent
  \/ \E f \in Frames : Evaluate(f) \/ EvaluateFails(f) \/ FrameRuns(f) \/ Detach(f)

----------------------------------------------------------------------------

\* No picture of the page shows the code, whichever scripts hang, time out or
\* are run late, and whichever elements resist the mask: takeScreenshot rather
\* takes none ("FAIL-CLOSED").
NoCodeInPicture == mShot # "code"

\* The captured HTML never shows the code, whichever shape its field has
\* and whichever masks and restores are still on their way to a stuck frame: the
\* two layers of getPageContent together cover both shapes.
NoCodeInHtml == mHtml = {}

\* A form is never submitted with the mask in its field, also after a capture
\* that timed out in the middle: "the live submit value is never disturbed".
SubmitReadsCode == "dots" \notin mRead

\* The code is visible to the bank's form and to nobody else.
CodeStaysHidden == MaskTypeOK /\ NoCodeInPicture /\ NoCodeInHtml /\ SubmitReadsCode
=============================================================================
