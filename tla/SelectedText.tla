------------------------------ MODULE SelectedText ------------------------------
(***************************************************************************)
(* The switch of a selected text: the hotkey, the worker that runs one job *)
(* at a time, the clipboard transaction of a job and the applications it   *)
(* shares the clipboard with (service.rs, selected_text/).                 *)
(*                                                                         *)
(* The clipboard is text with an owner.  The application with the          *)
(* selection answers the copy and the paste shortcut when it gets to them; *)
(* it and others copy at any moment, also between the three calls of       *)
(* read_with_stable_owner.  One unit of time is one poll.                  *)
(***************************************************************************)
EXTENDS LayoutConversion

CONSTANTS
  Unknown,          \* Rust's None: no text, no owner, nothing written
  Characters,       \* what texts are made of
  Selections,       \* texts the user selects; << >> when nothing is selected
  Foreign,          \* what applications copy on their own
  Sentinels,        \* unique_clipboard_sentinel: a text of its own for every job
  RoundTripLength,  \* length of the texts the conversion is checked on
  MaxJobs, MaxCopies, MaxFaults,
  SentinelTimeout, MinAccept, StableFor, CopyTimeout

ASSUME TimesOrder == /\ SentinelTimeout \in Nat /\ StableFor \in Nat \ {0}
                     /\ MinAccept \in Nat /\ CopyTimeout \in Nat
                     /\ MinAccept < CopyTimeout

VARIABLES
  desktop,      \* "x11": the owner is known and a write is seen at once;
                \* "wayland": it is not known, and a write lands later
  clip,         \* what the clipboard holds: [text, owner]
  landing,      \* writes of the worker that have not landed
  selection,    \* the selected text
  asked,        \* shortcuts the application has not got to: "copy", "paste"
  hotkey,       \* pending_selected_text_switch
  inProgress,   \* the flag of the runner
  channel,      \* jobs in the channel of the worker
  pc,           \* where the job is
  tx,           \* the ClipboardTransaction
  poll,         \* wait_for_copied_text: elapsed, candidate, since, seen sentinel
  serial,       \* jobs the worker has taken
  jobs, copies, faults,
  copied,       \* the last foreign copy a rollback has to respect
  since,        \* texts put in the clipboard by others since the job began
  clean,        \* nothing but the job and its application used the clipboard,
                \* the owner was told whenever it was asked for, and no call of
                \* the rollback failed
  pasted        \* the last replacement: the selection and what replaced it

clipboardVars ==
  <<desktop, clip, landing, selection, asked, hotkey, inProgress, channel,
    pc, tx, poll, serial, jobs, copies, faults, copied, since, clean, pasted>>
worldVars == <<desktop, clip, landing, selection, asked>>
runnerVars == <<hotkey, inProgress, channel, serial, jobs>>
ghostVars == <<copied, since, clean, pasted>>

Sentinel == Sentinels[serial]
Original == <<"original">>
NoText == <<"not a text">>      \* an image, or an owner that does not answer
Text == Seq(Characters)

\* unique_clipboard_sentinel: the name of a sentinel, here one character, is
\* nobody else's and no conversion changes it or makes it.
ASSUME TextsAssumption ==
  /\ Chars \subseteq Characters /\ {Original, NoText} \subseteq Text
  /\ Selections \cup Foreign \subseteq Text \ {NoText}
  /\ MaxJobs \in Nat /\ Sentinels \in [1..MaxJobs -> Text]
  /\ \A i \in 1..MaxJobs :
       /\ Len(Sentinels[i]) = 1 /\ Sentinels[i][1] \notin Chars
       /\ Sentinels[i] \notin Selections \cup Foreign \cup {Original, NoText}
       /\ \A j \in 1..MaxJobs : Sentinels[i] = Sentinels[j] => i = j
NoTx == [original |-> Unknown, owner |-> Unknown, current |-> Unknown, pending |-> Unknown,
         known |-> {}, meaningful |-> FALSE]
NoPoll == [elapsed |-> 0, text |-> Unknown, owner |-> Unknown, stable |-> 0, seen |-> FALSE]
Clip(t, o) == [text |-> t, owner |-> o]
Owned(kind, t, o) == [kind |-> kind, text |-> t, owner |-> o]

Owners == {"app", "other", "self"}
Clips == [text : Text, owner : Owners]
OwnedTexts == [kind : {"Sentinel", "Selected", "Converted"}, text : Text,
               owner : Owners \cup {Unknown}]

ASSUME UnknownAssumption ==
  Unknown \notin Text /\ Unknown \notin Owners /\ Unknown \notin Clips /\ Unknown \notin OwnedTexts

ClipboardInit ==
  /\ desktop \in {"x11", "wayland"}
  /\ clip \in {Clip(Original, "app"), Clip(Original, "other"), Clip(NoText, "other")}
  /\ selection \in Selections
  /\ landing = << >> /\ asked = {} /\ hotkey = FALSE
  /\ inProgress = FALSE /\ channel = 0 /\ serial = 0
  /\ pc = "idle" /\ tx = NoTx /\ poll = NoPoll
  /\ jobs = 0 /\ copies = 0 /\ faults = 0
  /\ copied = Unknown /\ since = {} /\ clean = TRUE /\ pasted = Unknown

Fault == faults < MaxFaults /\ faults' = faults + 1
NoFault == UNCHANGED faults

--------------------------------------------------------------------------------
\* The applications.

\* An application copies t, which has to survive the job, unless it comes after
\* the check of the rollback, or within it when no write of the job succeeded.
CopyBy(o, t) ==
  /\ copies < MaxCopies /\ copies' = copies + 1
  /\ clip' = Clip(t, o)
  /\ since' = since \cup {t} /\ clean' = FALSE
  /\ copied' = IF pc = "restore" \/ (pc = "rollback" /\ tx.current = Unknown)
                THEN Unknown ELSE Clip(t, o)

ForeignCopy(o, t) ==
  /\ CopyBy(o, t)
  /\ UNCHANGED <<desktop, landing, selection, asked, pasted>>
  /\ UNCHANGED <<runnerVars, pc, tx, poll, faults>>

\* A write of the worker becomes visible.
WriteLands ==
  /\ landing # << >>
  /\ clip' = Clip(Head(landing), "self") /\ landing' = Tail(landing)
  /\ copied' = Unknown
  /\ UNCHANGED <<desktop, selection, asked, since, clean, pasted>>
  /\ UNCHANGED <<runnerVars, pc, tx, poll, copies, faults>>

\* The application gets to the copy shortcut: it takes the clipboard if there
\* is a selection.  It may answer after the job gave up.
AppCopies ==
  /\ "copy" \in asked /\ asked' = asked \ {"copy"}
  /\ IF selection = << >>
     THEN UNCHANGED <<clip, since, clean, copied>>
     ELSE /\ clip' = Clip(selection, "app") /\ since' = since \cup {selection}
          /\ clean' = (clean /\ pc = "poll") /\ copied' = Unknown
  /\ UNCHANGED <<desktop, landing, selection, pasted>>
  /\ UNCHANGED <<runnerVars, pc, tx, poll, copies, faults>>

\* It gets to the paste shortcut, before the 300 ms of wait_for_paste_settle
\* are over: the code has no acknowledgement and counts on it.
AppPastes ==
  /\ "paste" \in asked /\ asked' = asked \ {"paste"}
  /\ pasted' = [of |-> selection, text |-> clip.text]
  /\ UNCHANGED <<desktop, clip, landing, selection, copied, since, clean>>
  /\ UNCHANGED <<runnerVars, pc, tx, poll, copies, faults>>

--------------------------------------------------------------------------------
\* The hotkey and the runner.

\* The press of the hotkey: the switch waits for the release of the keys.
HotkeyPressed ==
  /\ ~hotkey /\ jobs < MaxJobs /\ (pc = "idle" => asked = {})
  /\ hotkey' = TRUE /\ jobs' = jobs + 1
  /\ UNCHANGED <<worldVars, inProgress, channel, serial, pc, tx, poll, copies, faults, ghostVars>>

\* SelectedTextJobRunner::try_start: a job that runs turns the hotkey down.
TryStart ==
  IF inProgress
  THEN UNCHANGED <<inProgress, channel>>
  ELSE inProgress' = TRUE /\ channel' = channel + 1

\* maybe_run_pending_selected_text_switch and apply_selected_text_switch.
RunPendingSwitch ==
  /\ hotkey /\ hotkey' = FALSE /\ TryStart
  /\ UNCHANGED <<worldVars, serial, jobs, pc, tx, poll, copies, faults, ghostVars>>

\* The worker takes a job and opens the clipboard.
JobStarts ==
  /\ pc = "idle" /\ channel > 0
  /\ channel' = channel - 1 /\ serial' = serial + 1
  /\ \/ NoFault /\ pc' = "begin"
     \/ Fault /\ pc' = "finish"
  /\ since' = {} /\ clean' = TRUE /\ copied' = Unknown
  /\ UNCHANGED <<worldVars, hotkey, inProgress, jobs, tx, poll, copies, pasted>>

\* Mutant: the flag is left when the job failed.
JobEndsOnSuccess ==
  /\ pc = "finish" /\ landing = << >> /\ pc' = "idle"
  /\ inProgress' = (tx.pending # Unknown) /\ tx' = NoTx /\ poll' = NoPoll
  /\ UNCHANGED <<worldVars, hotkey, channel, serial, jobs, copies, faults, ghostVars>>

\* The job is over, with a result, an error or a panic: the flag is cleared.
\* Its writes have landed by then.
JobEnds ==
  /\ pc = "finish" /\ landing = << >> /\ pc' = "idle"
  /\ inProgress' = FALSE /\ tx' = NoTx /\ poll' = NoPoll
  /\ UNCHANGED <<worldVars, hotkey, channel, serial, jobs, copies, faults, ghostVars>>

--------------------------------------------------------------------------------
\* The clipboard transaction.

OwnerToken == IF desktop = "x11" THEN clip.owner ELSE Unknown

\* read_with_stable_owner finds the text t, if it is a text and the owner
\* answers, and the owner o when it is the same before and after.  Either call
\* may fail, and an application may copy during the read: either text may be
\* read then.
Observe(t, o) ==
  \/ /\ NoFault /\ UNCHANGED <<clip, since, clean, copied, copies>>
     /\ t = (IF clip.text = NoText THEN Unknown ELSE clip.text) /\ o = OwnerToken
  \/ /\ Fault /\ UNCHANGED <<clip, since, copied, copies>>
     /\ \/ t = Unknown /\ o = OwnerToken /\ clean' = (clean /\ pc # "rollback")
        \/ /\ t = (IF clip.text = NoText THEN Unknown ELSE clip.text) /\ o = Unknown
           /\ OwnerToken # Unknown /\ clean' = FALSE
  \/ \E by \in {"app", "other"} \ {clip.owner}, new \in Foreign :
       /\ NoFault /\ CopyBy(by, new)
       /\ t \in {new, clip.text} \ {NoText} /\ o = Unknown

Readable == {Unknown, clip.text} \cup Foreign
ReadableOwners == {Unknown, OwnerToken}

\* ClipboardTransaction::begin.
Begin ==
  /\ pc = "begin" /\ pc' = "sentinel"
  /\ \E t \in Readable, o \in ReadableOwners :
       Observe(t, o) /\ tx' = [NoTx EXCEPT !.original = t, !.owner = o]
  /\ UNCHANGED <<desktop, landing, selection, asked, runnerVars, poll, pasted>>

\* The first half of write_operation_text: the intention to write t is recorded,
\* then the text is set.  A write that fails may have had its effect; the job is
\* over then and the transaction is dropped.
WriteOperationText(kind, t, next) ==
  LET lands == IF desktop = "x11"
               THEN clip' = Clip(t, "self") /\ UNCHANGED landing
               ELSE landing' = Append(landing, t) /\ UNCHANGED clip
  IN /\ tx' = [tx EXCEPT !.pending = Owned(kind, t, Unknown),
                         !.meaningful = @ \/ kind # "Sentinel"]
     /\ \/ NoFault /\ lands /\ pc' = next
        \/ Fault /\ (lands \/ UNCHANGED <<clip, landing>>) /\ pc' = "rollback"
     /\ copied' = IF clip' # clip THEN Unknown ELSE copied

WriteSentinel ==
  /\ pc = "sentinel"
  /\ WriteOperationText("Sentinel", Sentinel, "sentinelOwner")
  /\ poll' = NoPoll
  /\ UNCHANGED <<desktop, selection, asked, runnerVars, copies, since, clean, pasted>>

\* The second half: whose the clipboard is, in a request of its own, which may go
\* unanswered and may find the application that has copied since.  Whoever it
\* finds counts as the owner of what the job wrote.
Confirmed(o) ==
  [tx EXCEPT !.current = Owned(tx.pending.kind, tx.pending.text, o),
             !.known = @ \cup ({o} \ {Unknown}), !.pending = Unknown]

RecordOwner ==
  /\ \/ pc = "sentinelOwner" /\ pc' = "confirm"
     \/ pc = "convertedOwner" /\ pc' = "paste"
  /\ \/ NoFault /\ tx' = Confirmed(OwnerToken) /\ UNCHANGED clean
     \/ Fault /\ OwnerToken # Unknown /\ tx' = Confirmed(Unknown) /\ clean' = FALSE
  /\ UNCHANGED <<worldVars, runnerVars, poll, copies, copied, since, pasted>>

\* wait_for_clipboard_sentinel: polls until the sentinel is read or the time is
\* over.
ConfirmSentinel ==
  /\ pc = "confirm"
  /\ \E read \in {clip.text, Unknown} :
       /\ IF read = clip.text THEN NoFault ELSE Fault
       /\ IF read = Sentinel
          THEN pc' = "copy" /\ poll' = [NoPoll EXCEPT !.seen = TRUE]
          ELSE IF poll.elapsed >= SentinelTimeout
          THEN pc' = "copy" /\ poll' = NoPoll
          ELSE pc' = pc /\ poll' = [poll EXCEPT !.elapsed = @ + 1]
  /\ UNCHANGED <<worldVars, runnerVars, tx, copies, ghostVars>>

\* copy_selection: a transaction of the virtual keyboard's writer, which may
\* fail, before the keys or after them.
CopySelection ==
  /\ pc = "copy"
  /\ \/ NoFault /\ pc' = "poll" /\ asked' = asked \cup {"copy"}
     \/ Fault /\ pc' = "rollback" /\ asked' \in {asked, asked \cup {"copy"}}
  /\ UNCHANGED <<desktop, clip, landing, selection, runnerVars, tx, poll, copies, ghostVars>>

MatchesPrevious(t) == tx.original = t

\* One poll of wait_for_copied_text: what it makes of the text t of owner o.
Candidate(t, o) ==
  IF t = Sentinel
  THEN [poll EXCEPT !.seen = TRUE, !.text = Unknown, !.owner = Unknown, !.stable = 0]
  ELSE IF t # Unknown /\ (t # poll.text \/ o # poll.owner)
       THEN [poll EXCEPT !.text = t, !.owner = o, !.stable = 0]
       ELSE [poll EXCEPT !.stable = @ + 1]

Accepts(t, p) ==
  /\ t \notin {Unknown, Sentinel}
  /\ p.elapsed >= MinAccept /\ p.stable >= StableFor
  /\ MatchesPrevious(t) => p.seen

Adopt(t, o) ==
  /\ tx' = [tx EXCEPT !.current = Owned("Selected", t, o), !.pending = Unknown,
                      !.meaningful = TRUE]
  /\ pc' = "convert" /\ poll' = NoPoll

\* A poll, and after it the timeout: the last candidate is taken then, however
\* short it has been there, unless it may be the text of before the job.
PollCopiedText ==
  /\ pc = "poll"
  /\ \E t \in Readable, o \in ReadableOwners :
       LET p == Candidate(t, o)
       IN /\ Observe(t, o)
          /\ IF Accepts(t, p) THEN Adopt(t, o)
             ELSE IF p.elapsed < CopyTimeout
             THEN poll' = [p EXCEPT !.elapsed = @ + 1] /\ UNCHANGED <<pc, tx>>
             ELSE IF p.text # Unknown /\ (MatchesPrevious(p.text) => p.seen)
             THEN Adopt(p.text, p.owner)
             ELSE poll' = NoPoll /\ pc' = "rollback" /\ UNCHANGED tx
  /\ UNCHANGED <<desktop, landing, selection, asked, runnerVars, pasted>>

WriteConverted ==
  /\ pc = "convert"
  /\ WriteOperationText("Converted", Convert(tx.current.text), "convertedOwner")
  /\ UNCHANGED <<desktop, selection, asked, runnerVars, poll, copies, since, clean, pasted>>

PasteSelection ==
  /\ pc = "paste"
  /\ \/ NoFault /\ pc' = "settle" /\ asked' = asked \cup {"paste"}
     \/ Fault /\ pc' = "rollback" /\ asked' \in {asked, asked \cup {"paste"}}
  /\ UNCHANGED <<desktop, clip, landing, selection, runnerVars, tx, poll, copies, ghostVars>>

\* wait_for_paste_settle.
PasteSettles ==
  /\ pc = "settle" /\ "paste" \notin asked
  /\ pc' = "rollback"
  /\ UNCHANGED <<worldVars, runnerVars, tx, poll, copies, faults, ghostVars>>

\* Mutant: the text is compared and its owner is not.
OwnershipByText(t, o) ==
  IF tx.current = Unknown /\ tx.pending = Unknown THEN "NothingToClean"
  ELSE IF \/ tx.current # Unknown /\ tx.current.text = t
          \/ tx.pending # Unknown /\ tx.pending.text = t THEN "Owned"
  ELSE IF o # Unknown THEN "Foreign" ELSE "Uncertain"

\* Mutant: the write that failed is forgotten.
OwnershipOfCurrent(t, o) ==
  IF tx.current = Unknown /\ tx.pending = Unknown THEN "NothingToClean"
  ELSE IF tx.current # Unknown /\ tx.current.owner # Unknown
          /\ tx.current.owner = o /\ tx.current.text = t THEN "Owned"
  ELSE IF o # Unknown THEN "Foreign" ELSE "Uncertain"

\* ownership_status, from the text t and the owner o it read.
OwnershipStatus(t, o) ==
  LET mine == tx.current # Unknown /\ tx.current.owner # Unknown
              /\ tx.current.owner = o /\ tx.current.text = t
      pendingMine == tx.pending # Unknown /\ tx.pending.text = t
                     /\ (tx.pending.kind = "Sentinel" \/ o \in tx.known)
  IN IF tx.current = Unknown /\ tx.pending = Unknown THEN "NothingToClean"
     ELSE IF mine \/ pendingMine THEN "Owned"
     ELSE IF o # Unknown THEN "Foreign" ELSE "Uncertain"

OnlySentinel ==
  /\ ~tx.meaningful
  /\ IF tx.current # Unknown THEN tx.current.kind = "Sentinel"
     ELSE tx.pending # Unknown /\ tx.pending.kind = "Sentinel"

\* The first half of rollback, of finish_success, finish_no_selected_text and
\* drop: whose is the clipboard.
RollbackChecks ==
  /\ pc = "rollback"
  /\ IF tx.original # Unknown /\ tx.owner = Unknown
     THEN pc' = "finish" /\ UNCHANGED <<clip, since, clean, copied, copies, faults>>
     ELSE \E t \in Readable, o \in ReadableOwners :
            /\ Observe(t, o)
            /\ pc' = IF OwnershipStatus(t, o) = "Owned" /\ (tx.original # Unknown \/ OnlySentinel)
                     THEN "restore" ELSE "finish"
  /\ UNCHANGED <<desktop, landing, selection, asked, runnerVars, tx, poll, pasted>>

\* The second half: set_text of the original, or clear when only the sentinel
\* was written over something else.  The README grants the moment between.
RollbackRestores ==
  /\ pc = "restore" /\ pc' = "finish"
  /\ \/ /\ NoFault /\ UNCHANGED clean
        /\ clip' = Clip(IF tx.original # Unknown THEN tx.original ELSE NoText, "self")
     \/ Fault /\ UNCHANGED clip /\ clean' = FALSE
  /\ UNCHANGED <<desktop, landing, selection, asked, runnerVars, tx, poll, copies>>
  /\ UNCHANGED <<copied, since, pasted>>

--------------------------------------------------------------------------------
Job == \/ JobStarts \/ Begin \/ WriteSentinel \/ RecordOwner \/ ConfirmSentinel \/ CopySelection
       \/ PollCopiedText \/ WriteConverted \/ PasteSelection \/ PasteSettles
       \/ RollbackChecks \/ RollbackRestores \/ JobEnds

ClipboardNext ==
  \/ HotkeyPressed \/ RunPendingSwitch \/ Job \/ WriteLands \/ AppCopies \/ AppPastes
  \/ \E o \in {"app", "other"}, t \in Foreign : ForeignCopy(o, t)

\* The event loop and the worker are threads that run; an application handles
\* its input.  Nothing makes anybody copy.
ClipboardFairness ==
  /\ WF_clipboardVars(RunPendingSwitch) /\ WF_clipboardVars(Job)
  /\ WF_clipboardVars(AppPastes) /\ WF_clipboardVars(WriteLands)

ClipboardSpec == ClipboardInit /\ [][ClipboardNext]_clipboardVars
FairClipboardSpec == ClipboardSpec /\ ClipboardFairness

--------------------------------------------------------------------------------
\* Whatever step fails, the user's clipboard comes back (README.md: "OpenSwitcher
\* restores that text on supported success and safe failure paths"): when nobody
\* else used it and the X server told its owner, a job ends with the text it began
\* with, and never with the sentinel.  An answer to the copy that comes after the
\* last poll counts as somebody else's.
ClipboardIsCleanedUp ==
  pc = "finish" /\ desktop = "x11" /\ clean /\ (tx.meaningful \/ since = {})
    => /\ tx.original # Unknown => clip.text = tx.original
       /\ clip.text # Sentinel

\* The exception to the next property: an application that was found the owner of
\* a text the job had just written, and that copied a text of the job.
CountsAsTheJobs(c) ==
  /\ c.owner \in tx.known
  /\ \E w \in {tx.current, tx.pending} \ {Unknown} : w.text = c.text

\* Copies are told apart by what made them, not by their text.  What is
\* converted was copied during the job: the text of before the job, which a
\* write that lands late leaves readable, is never taken for the selection, if
\* the job could read it when it began (wait_for_copied_text).  And the
\* rollback never takes a copy of somebody else for its own text, though the
\* text or the owner may be the same: what is copied between the last write of
\* the job and the check of the rollback is in the clipboard at the end, unless
\* the job took that very copy for the selection, or its application had copied
\* in the moment between a write of the job and the question for its owner
\* (known_write_owners has nobody else), and it is a text the job wrote.
CopiesAreToldApart ==
  /\ pc = "convert" /\ tx.original # Unknown => tx.current.text \in since
  /\ pc = "finish" /\ copied # Unknown
       => \/ clip = copied
          \/ tx.current = Owned("Selected", copied.text, copied.owner)
          \/ CountsAsTheJobs(copied)

\* A second switch undoes the first one for every text typed in one layout,
\* letters on punctuation keys included.
RoundTrip ==
  jobs + copies + faults = 0 =>
    \A t \in SeqOf(Chars, RoundTripLength) : TypedInOneLayout(t) => Convert(Convert(t)) = t

\* A job ends, with a result or not, and the next press of the hotkey starts
\* another one: the flag is cleared and no second job waits in the channel.
RunnerBecomesFree == [](inProgress => <>(~inProgress /\ channel = 0))
================================================================================
