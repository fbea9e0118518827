---------------------- MODULE SyntheticOperationProofs ----------------------
(***************************************************************************)
(* Proofs about SyntheticOperation, for every set of keys and every set of *)
(* scripts.  The inductive invariant says who answers for a key that may   *)
(* be down, and how far the finalizer has come.  The last part is about    *)
(* CorrectionRun, for every plan, every delay and any number of events.    *)
(***************************************************************************)
EXTENDS SyntheticOperation, CorrectionRun, TLAPS

\* The device still belongs to a running writer.
Alive == pc \notin {"failed", "dead"}

\* A key that is down is held physically, owed by the operation, or waits in
\* the release-only fallback.
Covered ==
    Alive => \A k \in Keys :
        device[k] => \/ physical[k]
                     \/ fallback = k
                     \/ \E d \in debts : d.key = k

\* Session entries and restore plans are about physically held modifiers,
\* and a transition in flight is planned for restore.
HeldInv ==
    Alive => \A m \in Modifiers :
        /\ entries[m] # "none" \/ m \in plan \/ m \in toRelease => physical[m]
        /\ entries[m] \in {"TemporarilyReleased", "Restoring"} => m \in plan

IdleInv ==
    pc = "idle" =>
        /\ debts = {} /\ fallback = None /\ plan = {} /\ toRelease = {}
        /\ pressed = {} /\ todo = {} /\ kind = "none"
        /\ mode = "none" /\ cleanup = FALSE /\ err = "none"

\* Which finalizer runs, and what has been decided when it does.
ModeInv ==
    /\ pc \in Executing \cup {"finish"} => mode = "none" /\ ~cleanup
    /\ pc \in {"restore", "adopt"} => mode \in {"success", "soft"} /\ ~cleanup
    /\ pc \in {"cleanup", "report"} /\ mode \in {"success", "soft"} /\ ~cleanup
          => plan = {}
    /\ mode \in {"hard", "drop"} => pc \in {"cleanup", "report", "failed", "dead"}
    /\ pc \in Executing \ {"unpress"} => err = "none"
    /\ mode \in {"success", "soft"} => err # "fatal"
    /\ mode = "success" => err = "none"
    /\ fallback # None => cleanup /\ pc \in {"cleanup", "report", "failed", "dead"}

\* There is a key to press.
GroupInv == pc \in {"release", "released", "press", "settle"} => group # <<>>

\* Press ids are unique, and an undisturbed execution owes exactly the
\* presses its caller still has to release.
LedgerInv ==
    /\ \A d \in debts : d.id < nextId
    /\ \A d, e \in debts : d.id = e.id => d = e
    /\ err = "none" /\ pc \in (Executing \ {"settle"}) \cup {"finish"}
          => \A d \in debts : d.id \in pressed
    /\ pc = "settle" => \A d \in debts : d.id \in pressed \/ d.id = nextId - 1
    /\ err = "none" /\ pc \in {"release", "released", "next", "finish"}
          => pressed = {}
    /\ pc = "adopt" => \A d \in debts : d.id = nextId - 1 => d.key \in plan
    /\ mode = "success" =>
          /\ pc = "restore" => debts = {}
          /\ pc = "adopt" => \A d \in debts : d.id = nextId - 1
          /\ pc \in {"cleanup", "report"} /\ ~cleanup => debts = {} /\ todo = {}

\* An undisturbed operation has planned, or restored, every held modifier.
RestoreInv ==
    kind # "separator" =>
        /\ err = "none" /\ pc \in Executing \cup {"finish"} =>
              /\ \A m \in Modifiers : physical[m] => m \in toRelease \cup plan
              /\ pc \notin {"release", "released"} => toRelease = {}
        /\ mode = "success" /\ ~cleanup
              /\ pc \in {"restore", "adopt", "cleanup", "report"} =>
              \A m \in Modifiers : physical[m] => m \in plan \/ device[m]
        /\ pc = "adopt" => \A m \in plan : IsFirst(m, plan) => device[m]

Inv ==
    /\ TypeOK
    /\ Covered
    /\ HeldInv
    /\ IdleInv
    /\ ModeInv
    /\ GroupInv
    /\ LedgerInv
    /\ RestoreInv


USE ConstantsAssumption DEF Keys, Executing, Finalizing

BeginAny == BeginCorrection \/ BeginShortcut \/ BeginSeparator

\* A write changes one key, to the value written if it reports success, and
\* to that value or not at all if it fails.
LEMMA WriteEffect ==
    ASSUME NEW k \in Keys, NEW value \in BOOLEAN, NEW ok \in BOOLEAN,
           device \in [Keys -> BOOLEAN], Write(k, value, ok)
    PROVE  /\ device' \in [Keys -> BOOLEAN]
           /\ \A j \in Keys : j # k => device'[j] = device[j]
           /\ ok => device'[k] = value
           /\ device'[k] = device[k] \/ device'[k] = value
<1>1. PICK applied \in BOOLEAN :
         /\ ok => applied
         /\ device' = [device EXCEPT ![k] = IF applied THEN value ELSE @]
  BY DEF Write
<1>2. (IF applied THEN value ELSE device[k]) \in BOOLEAN OBVIOUS
<1>3. device' \in [Keys -> BOOLEAN] BY <1>1, <1>2
<1> QED BY <1>1, <1>2, <1>3

\* The head and the tail of a non-empty sequence.
LEMMA HeadTail ==
    ASSUME NEW S, NEW s \in Seq(S), s # <<>>
    PROVE  Head(s) \in S /\ Tail(s) \in Seq(S)
  OBVIOUS

\* The script an operation starts with is a non-empty sequence of non-empty
\* groups.
LEMMA BeginTypes ==
    ASSUME BeginAny
    PROVE  \E c \in {"correction", "shortcut", "separator"}, s \in Script :
              /\ Begin(c, s)
              /\ Head(s) \in Seq(Keys) \ {<<>>}
              /\ Tail(s) \in Script
<1>1. PICK c \in {"correction", "shortcut", "separator"}, s \in Script :
         Begin(c, s) /\ s # <<>>
  BY DEF BeginAny, BeginCorrection, BeginShortcut, BeginSeparator
<1>2. Head(s) \in Seq(Keys) \ {<<>>} /\ Tail(s) \in Script
  BY <1>1, HeadTail DEF Script
<1> QED BY <1>1, <1>2


\* Every step keeps the types of the keyboards and of the session ledger.
LEMMA KeyTypeStep == Inv /\ [Next]_vars => KeyType'
<1> SUFFICES ASSUME Inv, [Next]_vars PROVE KeyType'
  OBVIOUS
<1> USE DEF Inv, TypeOK, KeyType, EntryState
<1>1. CASE \E k \in Keys : ForwardPress(k)
  <2>1. PICK k \in Keys : ForwardPress(k) BY <1>1
  <2>2. CASE EntryOf(k) # "none" BY <2>1, <2>2 DEF ForwardPress
  <2>3. CASE EntryOf(k) = "none"
    <3>1. PICK ok \in BOOLEAN : Write(k, TRUE, ok) BY <2>1, <2>3 DEF ForwardPress
    <3>2. device' \in [Keys -> BOOLEAN] BY <3>1, WriteEffect
    <3>3. physical' \in [Keys -> BOOLEAN] BY <2>1, <2>3 DEF ForwardPress
    <3> QED BY <2>1, <3>2, <3>3 DEF ForwardPress
  <2> QED BY <2>2, <2>3
<1>2. CASE \E k \in Keys : ForwardRelease(k)
  <2>1. PICK k \in Keys : ForwardRelease(k) BY <1>2
  <2>2. PICK ok, sync \in BOOLEAN :
           /\ Write(k, FALSE, ok)
           /\ IF ok /\ sync /\ EntryOf(k) \in {"none", "OwnedDown"}
              THEN entries' = [m \in Modifiers |->
                                  IF m = k THEN "none" ELSE entries[m]]
              ELSE UNCHANGED entries
    BY <2>1 DEF ForwardRelease
  <2>3. device' \in [Keys -> BOOLEAN] BY <2>2, WriteEffect
  <2>4. physical' \in [Keys -> BOOLEAN] BY <2>1 DEF ForwardRelease
  <2>5. entries' \in [Modifiers -> EntryState] BY <2>2
  <2> QED BY <2>3, <2>4, <2>5
<1>3. CASE BeginAny
  <2>1. PICK c \in {"correction", "shortcut", "separator"}, s \in Script :
             Begin(c, s) /\ Head(s) \in Seq(Keys) \ {<<>>} /\ Tail(s) \in Script
    BY <1>3, BeginTypes
  <2> QED BY <2>1 DEF Begin, opvars, flags
<1>4. CASE Refuse
  BY <1>4 DEF Refuse, Refusals, AfterPressError, WriterCheck, ControlRefuses, opvars, flags
<1>5. CASE TemporarilyRelease
  BY <1>5 DEF TemporarilyRelease, Write, SetEntry, IsLast, opvars, flags
<1>6. CASE SettleRelease
  BY <1>6 DEF SettleRelease, Settlements, ControlRefuses, opvars, flags
<1>7. CASE Press
  BY <1>7 DEF Press, Write, EntryOf, AfterPressError, opvars, flags
<1>8. CASE SettlePress
  BY <1>8 DEF SettlePress, Settlements, ControlRefuses, AfterPressError, opvars, flags
<1>9. CASE Wait
  BY <1>9 DEF Wait, WriterCheck, opvars, flags
<1>10. CASE Unpress
  BY <1>10 DEF Unpress, Write, FirstError, IsNewest, opvars, flags
<1>11. CASE Unpressed
  BY <1>11 DEF Unpressed, opvars, flags
<1>12. CASE NextGroup
  BY <1>12 DEF NextGroup, WriterCheck, opvars, flags
<1>13. CASE Finish
  BY <1>13 DEF Finish, Verdict, WriterCheck, ToCleanup, opvars, flags
<1>14. CASE RestoreDown
  <2>1. PICK k \in plan :
           \/ UNCHANGED <<device, entries>>
           \/ /\ \E ok \in BOOLEAN : Write(k, TRUE, ok)
              /\ UNCHANGED entries \/ SetEntry(k, "Restoring")
    BY <1>14 DEF RestoreDown
  <2>2. k \in Keys BY <2>1 DEF LedgerType
  <2>3. device' \in [Keys -> BOOLEAN] BY <2>1, <2>2, WriteEffect
  <2>4. entries' \in [Modifiers -> EntryState] BY <2>1 DEF SetEntry
  <2> QED BY <1>14, <2>3, <2>4 DEF RestoreDown
<1>15. CASE Adopt
  BY <1>15 DEF Adopt, SetEntry, IsFirst, ToCleanup, opvars, flags
<1>16. CASE Restored
  BY <1>16 DEF Restored, ToCleanup, opvars, flags
<1>17. CASE ReleaseDebt
  BY <1>17 DEF ReleaseDebt, Write, IsNewest, opvars, flags
<1>18. CASE DrainFallback
  BY <1>18 DEF DrainFallback, Write, opvars, flags
<1>19. CASE Report
  BY <1>19 DEF Report, Outcome, Reconciled, Drop, WriterCheck, opvars, flags
<1>20. CASE Unwind
  BY <1>20 DEF Unwind, ToCleanup, opvars, flags
<1>21. CASE RequestSoftCancel
  BY <1>21 DEF RequestSoftCancel, Running, opvars, flags
<1>22. CASE Abort
  BY <1>22 DEF Abort, Running, opvars, flags
<1>23. CASE LeaseChanges
  BY <1>23 DEF LeaseChanges, Running, opvars, flags
<1>24. CASE Destroy
  BY <1>24 DEF Destroy, opvars, flags
<1>25. CASE UNCHANGED vars
  BY <1>25 DEF vars, opvars, flags
<1> QED BY <1>1, <1>2, <1>3, <1>4, <1>5, <1>6, <1>7, <1>8, <1>9, <1>10, <1>11, <1>12, <1>13, <1>14, <1>15, <1>16, <1>17, <1>18, <1>19, <1>20, <1>21, <1>22, <1>23, <1>24, <1>25 DEF Next, Execute, Finalize, BeginAny

\* Every step keeps the types of the script.
LEMMA ScriptTypeStep == Inv /\ [Next]_vars => ScriptType'
<1> SUFFICES ASSUME Inv, [Next]_vars PROVE ScriptType'
  OBVIOUS
<1> USE DEF Inv, TypeOK, ScriptType, Script
<1>1. CASE \E k \in Keys : ForwardPress(k)
  BY <1>1 DEF ForwardPress, Write, EntryOf, opvars, flags
<1>2. CASE \E k \in Keys : ForwardRelease(k)
  BY <1>2 DEF ForwardRelease, Write, EntryOf, opvars, flags
<1>3. CASE BeginAny
  <2>1. PICK c \in {"correction", "shortcut", "separator"}, s \in Script :
             Begin(c, s) /\ Head(s) \in Seq(Keys) \ {<<>>} /\ Tail(s) \in Script
    BY <1>3, BeginTypes
  <2> QED BY <2>1 DEF Begin, opvars, flags
<1>4. CASE Refuse
  BY <1>4 DEF Refuse, Refusals, AfterPressError, WriterCheck, ControlRefuses, opvars, flags
<1>5. CASE TemporarilyRelease
  BY <1>5 DEF TemporarilyRelease, Write, SetEntry, IsLast, opvars, flags
<1>6. CASE SettleRelease
  BY <1>6 DEF SettleRelease, Settlements, ControlRefuses, opvars, flags
<1>7. CASE Press
  BY <1>7 DEF Press, Write, EntryOf, AfterPressError, opvars, flags
<1>8. CASE SettlePress
  <2>1. group # <<>> BY <1>8 DEF SettlePress, GroupInv
  <2>2. Tail(group) \in Seq(Keys) BY <2>1, HeadTail
  <2> QED BY <1>8, <2>2 DEF SettlePress
<1>9. CASE Wait
  BY <1>9 DEF Wait, WriterCheck, opvars, flags
<1>10. CASE Unpress
  BY <1>10 DEF Unpress, Write, FirstError, IsNewest, opvars, flags
<1>11. CASE Unpressed
  BY <1>11 DEF Unpressed, opvars, flags
<1>12. CASE NextGroup
  <2>1. script # <<>> => Head(script) \in Seq(Keys) /\ Tail(script) \in Script
    BY HeadTail
  <2>2. PICK e \in {"none", "fatal", "cancelled"} :
           IF e = "none" /\ script # <<>>
           THEN group' = Head(script) /\ script' = Tail(script)
           ELSE UNCHANGED <<group, script>>
    BY <1>12 DEF NextGroup, WriterCheck
  <2> QED BY <1>12, <2>1, <2>2 DEF NextGroup
<1>13. CASE Finish
  BY <1>13 DEF Finish, Verdict, WriterCheck, ToCleanup, opvars, flags
<1>14. CASE RestoreDown
  BY <1>14 DEF RestoreDown, Write, SetEntry, IsFirst, ToCleanup, opvars, flags
<1>15. CASE Adopt
  BY <1>15 DEF Adopt, SetEntry, IsFirst, ToCleanup, opvars, flags
<1>16. CASE Restored
  BY <1>16 DEF Restored, ToCleanup, opvars, flags
<1>17. CASE ReleaseDebt
  BY <1>17 DEF ReleaseDebt, Write, IsNewest, opvars, flags
<1>18. CASE DrainFallback
  BY <1>18 DEF DrainFallback, Write, opvars, flags
<1>19. CASE Report
  <2>1. <<>> \in Seq(Keys) /\ <<>> \in Script OBVIOUS
  <2> QED BY <1>19, <2>1 DEF Report, Drop, opvars
<1>20. CASE Unwind
  BY <1>20 DEF Unwind, ToCleanup, opvars, flags
<1>21. CASE RequestSoftCancel
  BY <1>21 DEF RequestSoftCancel, Running, opvars, flags
<1>22. CASE Abort
  BY <1>22 DEF Abort, Running, opvars, flags
<1>23. CASE LeaseChanges
  BY <1>23 DEF LeaseChanges, Running, opvars, flags
<1>24. CASE Destroy
  BY <1>24 DEF Destroy, opvars, flags
<1>25. CASE UNCHANGED vars
  BY <1>25 DEF vars, opvars, flags
<1> QED BY <1>1, <1>2, <1>3, <1>4, <1>5, <1>6, <1>7, <1>8, <1>9, <1>10, <1>11, <1>12, <1>13, <1>14, <1>15, <1>16, <1>17, <1>18, <1>19, <1>20, <1>21, <1>22, <1>23, <1>24, <1>25 DEF Next, Execute, Finalize, BeginAny

\* Every step keeps the types of the ledger.
LEMMA LedgerTypeStep == Inv /\ [Next]_vars => LedgerType'
<1> SUFFICES ASSUME Inv, [Next]_vars PROVE LedgerType'
  OBVIOUS
<1> USE DEF Inv, TypeOK, LedgerType, Debt
<1>1. CASE \E k \in Keys : ForwardPress(k)
  BY <1>1 DEF ForwardPress, Write, EntryOf, opvars, flags
<1>2. CASE \E k \in Keys : ForwardRelease(k)
  BY <1>2 DEF ForwardRelease, Write, EntryOf, opvars, flags
<1>3. CASE BeginAny
  <2>1. PICK c \in {"correction", "shortcut", "separator"}, s \in Script :
             Begin(c, s) /\ Head(s) \in Seq(Keys) \ {<<>>} /\ Tail(s) \in Script
    BY <1>3, BeginTypes
  <2> QED BY <2>1 DEF Begin, opvars, flags
<1>4. CASE Refuse
  BY <1>4 DEF Refuse, Refusals, AfterPressError, WriterCheck, ControlRefuses, opvars, flags
<1>5. CASE TemporarilyRelease
  BY <1>5 DEF TemporarilyRelease, Write, SetEntry, IsLast, opvars, flags
<1>6. CASE SettleRelease
  BY <1>6 DEF SettleRelease, Settlements, ControlRefuses, opvars, flags
<1>7. CASE Press
  <2>1. Head(group) \in Keys BY <1>7, HeadTail DEF Press, GroupInv, ScriptType
  <2>2. [id |-> nextId, key |-> Head(group)] \in Debt BY <2>1
  <2> QED BY <1>7, <2>2 DEF Press
<1>8. CASE SettlePress
  <2>1. nextId - 1 \in Nat OBVIOUS
  <2> QED BY <1>8, <2>1 DEF SettlePress
<1>9. CASE Wait
  BY <1>9 DEF Wait, WriterCheck, opvars, flags
<1>10. CASE Unpress
  BY <1>10 DEF Unpress, Write, FirstError, IsNewest, opvars, flags
<1>11. CASE Unpressed
  BY <1>11 DEF Unpressed, opvars, flags
<1>12. CASE NextGroup
  BY <1>12 DEF NextGroup, WriterCheck, opvars, flags
<1>13. CASE Finish
  BY <1>13 DEF Finish, Verdict, WriterCheck, ToCleanup, opvars, flags
<1>14. CASE RestoreDown
  <2>1. PICK k \in plan :
           \/ UNCHANGED <<debts, nextId>>
           \/ debts' = debts \cup {[id |-> nextId, key |-> k]} /\ nextId' = nextId + 1
    BY <1>14 DEF RestoreDown
  <2>2. [id |-> nextId, key |-> k] \in Debt BY <2>1
  <2>3. debts' \subseteq Debt /\ nextId' \in Nat \ {0} BY <2>1, <2>2
  <2>4. todo' \subseteq Debt BY <1>14, <2>3 DEF RestoreDown, ToCleanup
  <2> QED BY <1>14, <2>3, <2>4 DEF RestoreDown
<1>15. CASE Adopt
  BY <1>15 DEF Adopt, SetEntry, IsFirst, ToCleanup, opvars, flags
<1>16. CASE Restored
  BY <1>16 DEF Restored, ToCleanup, opvars, flags
<1>17. CASE ReleaseDebt
  BY <1>17 DEF ReleaseDebt, Write, IsNewest, opvars, flags
<1>18. CASE DrainFallback
  BY <1>18 DEF DrainFallback, Write, opvars, flags
<1>19. CASE Report
  BY <1>19 DEF Report, Outcome, Reconciled, Drop, WriterCheck, opvars, flags
<1>20. CASE Unwind
  BY <1>20 DEF Unwind, ToCleanup, opvars, flags
<1>21. CASE RequestSoftCancel
  BY <1>21 DEF RequestSoftCancel, Running, opvars, flags
<1>22. CASE Abort
  BY <1>22 DEF Abort, Running, opvars, flags
<1>23. CASE LeaseChanges
  BY <1>23 DEF LeaseChanges, Running, opvars, flags
<1>24. CASE Destroy
  BY <1>24 DEF Destroy, opvars, flags
<1>25. CASE UNCHANGED vars
  BY <1>25 DEF vars, opvars, flags
<1> QED BY <1>1, <1>2, <1>3, <1>4, <1>5, <1>6, <1>7, <1>8, <1>9, <1>10, <1>11, <1>12, <1>13, <1>14, <1>15, <1>16, <1>17, <1>18, <1>19, <1>20, <1>21, <1>22, <1>23, <1>24, <1>25 DEF Next, Execute, Finalize, BeginAny

\* Every step keeps the types of the control state.
LEMMA ControlTypeStep == Inv /\ [Next]_vars => ControlType'
<1> SUFFICES ASSUME Inv, [Next]_vars PROVE ControlType'
  OBVIOUS
<1> USE DEF Inv, TypeOK, ControlType
<1>1. CASE \E k \in Keys : ForwardPress(k)
  BY <1>1 DEF ForwardPress, Write, EntryOf, opvars, flags
<1>2. CASE \E k \in Keys : ForwardRelease(k)
  BY <1>2 DEF ForwardRelease, Write, EntryOf, opvars, flags
<1>3. CASE BeginAny
  <2>1. PICK c \in {"correction", "shortcut", "separator"}, s \in Script :
             Begin(c, s) /\ Head(s) \in Seq(Keys) \ {<<>>} /\ Tail(s) \in Script
    BY <1>3, BeginTypes
  <2> QED BY <2>1 DEF Begin, opvars, flags
<1>4. CASE Refuse
  BY <1>4 DEF Refuse, Refusals, AfterPressError, WriterCheck, ControlRefuses, opvars, flags
<1>5. CASE TemporarilyRelease
  BY <1>5 DEF TemporarilyRelease, Write, SetEntry, IsLast, opvars, flags
<1>6. CASE SettleRelease
  BY <1>6 DEF SettleRelease, Settlements, ControlRefuses, opvars, flags
<1>7. CASE Press
  BY <1>7 DEF Press, Write, EntryOf, AfterPressError, opvars, flags
<1>8. CASE SettlePress
  BY <1>8 DEF SettlePress, Settlements, ControlRefuses, AfterPressError, opvars, flags
<1>9. CASE Wait
  BY <1>9 DEF Wait, WriterCheck, opvars, flags
<1>10. CASE Unpress
  BY <1>10 DEF Unpress, Write, FirstError, IsNewest, opvars, flags
<1>11. CASE Unpressed
  BY <1>11 DEF Unpressed, opvars, flags
<1>12. CASE NextGroup
  BY <1>12 DEF NextGroup, WriterCheck, opvars, flags
<1>13. CASE Finish
  BY <1>13 DEF Finish, Verdict, WriterCheck, ToCleanup, opvars, flags
<1>14. CASE RestoreDown
  BY <1>14 DEF RestoreDown, Write, SetEntry, IsFirst, ToCleanup, opvars, flags
<1>15. CASE Adopt
  BY <1>15 DEF Adopt, SetEntry, IsFirst, ToCleanup, opvars, flags
<1>16. CASE Restored
  BY <1>16 DEF Restored, ToCleanup, opvars, flags
<1>17. CASE ReleaseDebt
  BY <1>17 DEF ReleaseDebt, Write, IsNewest, opvars, flags
<1>18. CASE DrainFallback
  BY <1>18 DEF DrainFallback, Write, opvars, flags
<1>19. CASE Report
  BY <1>19 DEF Report, Outcome, Reconciled, Drop, WriterCheck, opvars, flags
<1>20. CASE Unwind
  BY <1>20 DEF Unwind, ToCleanup, opvars, flags
<1>21. CASE RequestSoftCancel
  BY <1>21 DEF RequestSoftCancel, Running, opvars, flags
<1>22. CASE Abort
  BY <1>22 DEF Abort, Running, opvars, flags
<1>23. CASE LeaseChanges
  BY <1>23 DEF LeaseChanges, Running, opvars, flags
<1>24. CASE Destroy
  BY <1>24 DEF Destroy, opvars, flags
<1>25. CASE UNCHANGED vars
  BY <1>25 DEF vars, opvars, flags
<1> QED BY <1>1, <1>2, <1>3, <1>4, <1>5, <1>6, <1>7, <1>8, <1>9, <1>10, <1>11, <1>12, <1>13, <1>14, <1>15, <1>16, <1>17, <1>18, <1>19, <1>20, <1>21, <1>22, <1>23, <1>24, <1>25 DEF Next, Execute, Finalize, BeginAny

\* Every step keeps the types of the flags.
LEMMA FlagTypeStep == Inv /\ [Next]_vars => FlagType'
<1> SUFFICES ASSUME Inv, [Next]_vars PROVE FlagType'
  OBVIOUS
<1> USE DEF Inv, TypeOK, FlagType
<1>1. CASE \E k \in Keys : ForwardPress(k)
  BY <1>1 DEF ForwardPress, Write, EntryOf, opvars, flags
<1>2. CASE \E k \in Keys : ForwardRelease(k)
  BY <1>2 DEF ForwardRelease, Write, EntryOf, opvars, flags
<1>3. CASE BeginAny
  <2>1. PICK c \in {"correction", "shortcut", "separator"}, s \in Script :
             Begin(c, s) /\ Head(s) \in Seq(Keys) \ {<<>>} /\ Tail(s) \in Script
    BY <1>3, BeginTypes
  <2> QED BY <2>1 DEF Begin, opvars, flags
<1>4. CASE Refuse
  BY <1>4 DEF Refuse, Refusals, AfterPressError, WriterCheck, ControlRefuses, opvars, flags
<1>5. CASE TemporarilyRelease
  BY <1>5 DEF TemporarilyRelease, Write, SetEntry, IsLast, opvars, flags
<1>6. CASE SettleRelease
  BY <1>6 DEF SettleRelease, Settlements, ControlRefuses, opvars, flags
<1>7. CASE Press
  BY <1>7 DEF Press, Write, EntryOf, AfterPressError, opvars, flags
<1>8. CASE SettlePress
  BY <1>8 DEF SettlePress, Settlements, ControlRefuses, AfterPressError, opvars, flags
<1>9. CASE Wait
  BY <1>9 DEF Wait, WriterCheck, opvars, flags
<1>10. CASE Unpress
  BY <1>10 DEF Unpress, Write, FirstError, IsNewest, opvars, flags
<1>11. CASE Unpressed
  BY <1>11 DEF Unpressed, opvars, flags
<1>12. CASE NextGroup
  BY <1>12 DEF NextGroup, WriterCheck, opvars, flags
<1>13. CASE Finish
  BY <1>13 DEF Finish, Verdict, WriterCheck, ToCleanup, opvars, flags
<1>14. CASE RestoreDown
  BY <1>14 DEF RestoreDown, Write, SetEntry, IsFirst, ToCleanup, opvars, flags
<1>15. CASE Adopt
  BY <1>15 DEF Adopt, SetEntry, IsFirst, ToCleanup, opvars, flags
<1>16. CASE Restored
  BY <1>16 DEF Restored, ToCleanup, opvars, flags
<1>17. CASE ReleaseDebt
  BY <1>17 DEF ReleaseDebt, Write, IsNewest, opvars, flags
<1>18. CASE DrainFallback
  BY <1>18 DEF DrainFallback, Write, opvars, flags
<1>19. CASE Report
  BY <1>19 DEF Report, Outcome, Reconciled, Drop, WriterCheck, opvars, flags
<1>20. CASE Unwind
  BY <1>20 DEF Unwind, ToCleanup, opvars, flags
<1>21. CASE RequestSoftCancel
  BY <1>21 DEF RequestSoftCancel, Running, opvars, flags
<1>22. CASE Abort
  BY <1>22 DEF Abort, Running, opvars, flags
<1>23. CASE LeaseChanges
  BY <1>23 DEF LeaseChanges, Running, opvars, flags
<1>24. CASE Destroy
  BY <1>24 DEF Destroy, opvars, flags
<1>25. CASE UNCHANGED vars
  BY <1>25 DEF vars, opvars, flags
<1> QED BY <1>1, <1>2, <1>3, <1>4, <1>5, <1>6, <1>7, <1>8, <1>9, <1>10, <1>11, <1>12, <1>13, <1>14, <1>15, <1>16, <1>17, <1>18, <1>19, <1>20, <1>21, <1>22, <1>23, <1>24, <1>25 DEF Next, Execute, Finalize, BeginAny

\* Whenever the operation is about to press, its group has a key left.
LEMMA GroupStep == Inv /\ [Next]_vars => GroupInv'
<1> SUFFICES ASSUME Inv, [Next]_vars PROVE GroupInv'
  OBVIOUS
<1> USE DEF Inv, TypeOK, GroupInv, ScriptType, Script
<1>1. CASE \E k \in Keys : ForwardPress(k)
  BY <1>1 DEF ForwardPress, Write, EntryOf, opvars, flags
<1>2. CASE \E k \in Keys : ForwardRelease(k)
  BY <1>2 DEF ForwardRelease, Write, EntryOf, opvars, flags
<1>3. CASE BeginAny
  <2>1. PICK c \in {"correction", "shortcut", "separator"}, s \in Script :
             Begin(c, s) /\ Head(s) \in Seq(Keys) \ {<<>>} /\ Tail(s) \in Script
    BY <1>3, BeginTypes
  <2> QED BY <2>1 DEF Begin, opvars, flags
<1>4. CASE Refuse
  BY <1>4 DEF Refuse, Refusals, AfterPressError, WriterCheck, ControlRefuses, opvars, flags
<1>5. CASE TemporarilyRelease
  BY <1>5 DEF TemporarilyRelease, Write, SetEntry, IsLast, opvars, flags
<1>6. CASE SettleRelease
  BY <1>6 DEF SettleRelease, Settlements, ControlRefuses, opvars, flags
<1>7. CASE Press
  BY <1>7 DEF Press, Write, EntryOf, AfterPressError, opvars, flags
<1>8. CASE SettlePress
  BY <1>8 DEF SettlePress, Settlements, ControlRefuses, AfterPressError, opvars, flags
<1>9. CASE Wait
  BY <1>9 DEF Wait, WriterCheck, opvars, flags
<1>10. CASE Unpress
  BY <1>10 DEF Unpress, Write, FirstError, IsNewest, opvars, flags
<1>11. CASE Unpressed
  BY <1>11 DEF Unpressed, opvars, flags
<1>12. CASE NextGroup
  BY <1>12 DEF NextGroup, WriterCheck, opvars, flags
<1>13. CASE Finish
  BY <1>13 DEF Finish, Verdict, WriterCheck, ToCleanup, opvars, flags
<1>14. CASE RestoreDown
  BY <1>14 DEF RestoreDown, Write, SetEntry, IsFirst, ToCleanup, opvars, flags
<1>15. CASE Adopt
  BY <1>15 DEF Adopt, SetEntry, IsFirst, ToCleanup, opvars, flags
<1>16. CASE Restored
  BY <1>16 DEF Restored, ToCleanup, opvars, flags
<1>17. CASE ReleaseDebt
  BY <1>17 DEF ReleaseDebt, Write, IsNewest, opvars, flags
<1>18. CASE DrainFallback
  BY <1>18 DEF DrainFallback, Write, opvars, flags
<1>19. CASE Report
  BY <1>19 DEF Report, Outcome, Reconciled, Drop, WriterCheck, opvars, flags
<1>20. CASE Unwind
  BY <1>20 DEF Unwind, ToCleanup, opvars, flags
<1>21. CASE RequestSoftCancel
  BY <1>21 DEF RequestSoftCancel, Running, opvars, flags
<1>22. CASE Abort
  BY <1>22 DEF Abort, Running, opvars, flags
<1>23. CASE LeaseChanges
  BY <1>23 DEF LeaseChanges, Running, opvars, flags
<1>24. CASE Destroy
  BY <1>24 DEF Destroy, opvars, flags
<1>25. CASE UNCHANGED vars
  BY <1>25 DEF vars, opvars, flags
<1> QED BY <1>1, <1>2, <1>3, <1>4, <1>5, <1>6, <1>7, <1>8, <1>9, <1>10, <1>11, <1>12, <1>13, <1>14, <1>15, <1>16, <1>17, <1>18, <1>19, <1>20, <1>21, <1>22, <1>23, <1>24, <1>25 DEF Next, Execute, Finalize, BeginAny

\* Every step preserves ModeInv.
LEMMA ModeStep == Inv /\ [Next]_vars => ModeInv'
<1> SUFFICES ASSUME Inv, [Next]_vars PROVE ModeInv'
  OBVIOUS
<1> USE DEF Inv, TypeOK, ModeInv, IdleInv, ControlType
<1>1. CASE \E k \in Keys : ForwardPress(k)
  BY <1>1 DEF ForwardPress, Write, EntryOf, opvars, flags
<1>2. CASE \E k \in Keys : ForwardRelease(k)
  BY <1>2 DEF ForwardRelease, Write, EntryOf, opvars, flags
<1>3. CASE BeginAny
  <2>1. PICK c \in {"correction", "shortcut", "separator"}, s \in Script :
             Begin(c, s) /\ Head(s) \in Seq(Keys) \ {<<>>} /\ Tail(s) \in Script
    BY <1>3, BeginTypes
  <2> QED BY <2>1 DEF Begin, opvars, flags
<1>4. CASE Refuse
  BY <1>4 DEF Refuse, Refusals, AfterPressError, WriterCheck, ControlRefuses, opvars, flags
<1>5. CASE TemporarilyRelease
  BY <1>5 DEF TemporarilyRelease, Write, SetEntry, IsLast, opvars, flags
<1>6. CASE SettleRelease
  BY <1>6 DEF SettleRelease, Settlements, ControlRefuses, opvars, flags
<1>7. CASE Press
  BY <1>7 DEF Press, Write, EntryOf, AfterPressError, opvars, flags
<1>8. CASE SettlePress
  BY <1>8 DEF SettlePress, Settlements, ControlRefuses, AfterPressError, opvars, flags
<1>9. CASE Wait
  BY <1>9 DEF Wait, WriterCheck, opvars, flags
<1>10. CASE Unpress
  BY <1>10 DEF Unpress, Write, FirstError, IsNewest, opvars, flags
<1>11. CASE Unpressed
  BY <1>11 DEF Unpressed, opvars, flags
<1>12. CASE NextGroup
  BY <1>12 DEF NextGroup, WriterCheck, opvars, flags
<1>13. CASE Finish
  BY <1>13 DEF Finish, Verdict, WriterCheck, ToCleanup, opvars, flags
<1>14. CASE RestoreDown
  BY <1>14 DEF RestoreDown, Write, SetEntry, IsFirst, ToCleanup, opvars, flags
<1>15. CASE Adopt
  BY <1>15 DEF Adopt, SetEntry, IsFirst, ToCleanup, opvars, flags
<1>16. CASE Restored
  BY <1>16 DEF Restored, ToCleanup, opvars, flags
<1>17. CASE ReleaseDebt
  BY <1>17 DEF ReleaseDebt, Write, IsNewest, opvars, flags
<1>18. CASE DrainFallback
  BY <1>18 DEF DrainFallback, Write, opvars, flags
<1>19. CASE Report
  BY <1>19 DEF Report, Outcome, Reconciled, Drop, WriterCheck, opvars, flags
<1>20. CASE Unwind
  BY <1>20 DEF Unwind, ToCleanup, opvars, flags
<1>21. CASE RequestSoftCancel
  BY <1>21 DEF RequestSoftCancel, Running, opvars, flags
<1>22. CASE Abort
  BY <1>22 DEF Abort, Running, opvars, flags
<1>23. CASE LeaseChanges
  BY <1>23 DEF LeaseChanges, Running, opvars, flags
<1>24. CASE Destroy
  BY <1>24 DEF Destroy, opvars, flags
<1>25. CASE UNCHANGED vars
  BY <1>25 DEF vars, opvars, flags
<1> QED BY <1>1, <1>2, <1>3, <1>4, <1>5, <1>6, <1>7, <1>8, <1>9, <1>10, <1>11, <1>12, <1>13, <1>14, <1>15, <1>16, <1>17, <1>18, <1>19, <1>20, <1>21, <1>22, <1>23, <1>24, <1>25 DEF Next, Execute, Finalize, BeginAny

\* Every step preserves IdleInv.
LEMMA IdleStep == Inv /\ [Next]_vars => IdleInv'
<1> SUFFICES ASSUME Inv, [Next]_vars PROVE IdleInv'
  OBVIOUS
<1> USE DEF Inv, TypeOK, IdleInv
<1>1. CASE \E k \in Keys : ForwardPress(k)
  BY <1>1 DEF ForwardPress, Write, EntryOf, opvars, flags
<1>2. CASE \E k \in Keys : ForwardRelease(k)
  BY <1>2 DEF ForwardRelease, Write, EntryOf, opvars, flags
<1>3. CASE BeginAny
  <2>1. PICK c \in {"correction", "shortcut", "separator"}, s \in Script :
             Begin(c, s) /\ Head(s) \in Seq(Keys) \ {<<>>} /\ Tail(s) \in Script
    BY <1>3, BeginTypes
  <2> QED BY <2>1 DEF Begin, opvars, flags
<1>4. CASE Refuse
  BY <1>4 DEF Refuse, Refusals, AfterPressError, WriterCheck, ControlRefuses, opvars, flags
<1>5. CASE TemporarilyRelease
  BY <1>5 DEF TemporarilyRelease, Write, SetEntry, IsLast, opvars, flags
<1>6. CASE SettleRelease
  BY <1>6 DEF SettleRelease, Settlements, ControlRefuses, opvars, flags
<1>7. CASE Press
  BY <1>7 DEF Press, Write, EntryOf, AfterPressError, opvars, flags
<1>8. CASE SettlePress
  BY <1>8 DEF SettlePress, Settlements, ControlRefuses, AfterPressError, opvars, flags
<1>9. CASE Wait
  BY <1>9 DEF Wait, WriterCheck, opvars, flags
<1>10. CASE Unpress
  BY <1>10 DEF Unpress, Write, FirstError, IsNewest, opvars, flags
<1>11. CASE Unpressed
  BY <1>11 DEF Unpressed, opvars, flags
<1>12. CASE NextGroup
  BY <1>12 DEF NextGroup, WriterCheck, opvars, flags
<1>13. CASE Finish
  BY <1>13 DEF Finish, Verdict, WriterCheck, ToCleanup, opvars, flags
<1>14. CASE RestoreDown
  BY <1>14 DEF RestoreDown, Write, SetEntry, IsFirst, ToCleanup, opvars, flags
<1>15. CASE Adopt
  BY <1>15 DEF Adopt, SetEntry, IsFirst, ToCleanup, opvars, flags
<1>16. CASE Restored
  BY <1>16 DEF Restored, ToCleanup, opvars, flags
<1>17. CASE ReleaseDebt
  BY <1>17 DEF ReleaseDebt, Write, IsNewest, opvars, flags
<1>18. CASE DrainFallback
  BY <1>18 DEF DrainFallback, Write, opvars, flags
<1>19. CASE Report
  BY <1>19 DEF Report, Outcome, Reconciled, Drop, WriterCheck, opvars, flags
<1>20. CASE Unwind
  BY <1>20 DEF Unwind, ToCleanup, opvars, flags
<1>21. CASE RequestSoftCancel
  BY <1>21 DEF RequestSoftCancel, Running, opvars, flags
<1>22. CASE Abort
  BY <1>22 DEF Abort, Running, opvars, flags
<1>23. CASE LeaseChanges
  BY <1>23 DEF LeaseChanges, Running, opvars, flags
<1>24. CASE Destroy
  BY <1>24 DEF Destroy, opvars, flags
<1>25. CASE UNCHANGED vars
  BY <1>25 DEF vars, opvars, flags
<1> QED BY <1>1, <1>2, <1>3, <1>4, <1>5, <1>6, <1>7, <1>8, <1>9, <1>10, <1>11, <1>12, <1>13, <1>14, <1>15, <1>16, <1>17, <1>18, <1>19, <1>20, <1>21, <1>22, <1>23, <1>24, <1>25 DEF Next, Execute, Finalize, BeginAny

\* Every step preserves Covered.
LEMMA CoveredStep == Inv /\ [Next]_vars => Covered'
<1> SUFFICES ASSUME Inv, [Next]_vars PROVE Covered'
  OBVIOUS
<1> USE DEF Inv, TypeOK, Covered, Alive, KeyType
<1>1. CASE \E k \in Keys : ForwardPress(k)
  <2>1. PICK k \in Keys : ForwardPress(k) BY <1>1
  <2>2. CASE EntryOf(k) # "none" BY <2>1, <2>2 DEF ForwardPress, opvars, flags
  <2>3. CASE EntryOf(k) = "none"
    <3>1. PICK ok \in BOOLEAN : Write(k, TRUE, ok) BY <2>1, <2>3 DEF ForwardPress
    <3>2. \A j \in Keys : j # k => device'[j] = device[j] BY <3>1, WriteEffect
    <3>3. physical' = [physical EXCEPT ![k] = TRUE] BY <2>1, <2>3 DEF ForwardPress
    <3> QED BY <2>1, <3>2, <3>3 DEF ForwardPress, opvars, flags
  <2> QED BY <2>2, <2>3
<1>2. CASE \E k \in Keys : ForwardRelease(k)
  BY <1>2 DEF ForwardRelease, Write, EntryOf, opvars, flags
<1>3. CASE BeginAny
  <2>1. PICK c \in {"correction", "shortcut", "separator"}, s \in Script :
             Begin(c, s) /\ Head(s) \in Seq(Keys) \ {<<>>} /\ Tail(s) \in Script
    BY <1>3, BeginTypes
  <2> QED BY <2>1 DEF Begin, opvars, flags
<1>4. CASE Refuse
  BY <1>4 DEF Refuse, Refusals, AfterPressError, WriterCheck, ControlRefuses, opvars, flags
<1>5. CASE TemporarilyRelease
  BY <1>5 DEF TemporarilyRelease, Write, SetEntry, IsLast, opvars, flags
<1>6. CASE SettleRelease
  BY <1>6 DEF SettleRelease, Settlements, ControlRefuses, opvars, flags
<1>7. CASE Press
  <2> DEFINE d == [id |-> nextId, key |-> Head(group)]
  <2>1. Head(group) \in Keys BY <1>7, HeadTail DEF Press, GroupInv, ScriptType
  <2>2. debts' = debts \cup {d} /\ UNCHANGED <<physical, fallback>>
    BY <1>7 DEF Press
  <2>3. \A j \in Keys : j # Head(group) => device'[j] = device[j]
    BY <1>7, <2>1, WriteEffect DEF Press
  <2>4. d.key = Head(group) OBVIOUS
  <2>5. Alive BY <1>7 DEF Press
  <2>6. ASSUME NEW k \in Keys, device'[k]
        PROVE  physical'[k] \/ fallback' = k \/ \E e \in debts' : e.key = k
    <3> HIDE DEF d
    <3>1. CASE k = Head(group) BY <3>1, <2>2, <2>4
    <3>2. CASE k # Head(group) BY <3>2, <2>2, <2>3, <2>5, <2>6
    <3> QED BY <3>1, <3>2
  <2> QED BY <2>6
<1>8. CASE SettlePress
  BY <1>8 DEF SettlePress, Settlements, ControlRefuses, AfterPressError, opvars, flags
<1>9. CASE Wait
  BY <1>9 DEF Wait, WriterCheck, opvars, flags
<1>10. CASE Unpress
  BY <1>10 DEF Unpress, Write, FirstError, IsNewest, opvars, flags
<1>11. CASE Unpressed
  BY <1>11 DEF Unpressed, opvars, flags
<1>12. CASE NextGroup
  BY <1>12 DEF NextGroup, WriterCheck, opvars, flags
<1>13. CASE Finish
  BY <1>13 DEF Finish, Verdict, WriterCheck, ToCleanup, opvars, flags
<1>14. CASE RestoreDown
  <2>1. PICK k \in plan :
           \/ UNCHANGED <<device, debts>>
           \/ /\ \E ok \in BOOLEAN : Write(k, TRUE, ok)
              /\ debts' = debts \cup {[id |-> nextId, key |-> k]}
    BY <1>14 DEF RestoreDown
  <2>2. k \in Keys /\ physical[k]
    BY <1>14, <2>1 DEF LedgerType, HeldInv, RestoreDown
  <2>3. \A j \in Keys : j # k => (device'[j] = device[j])
    BY <2>1, <2>2, WriteEffect
  <2>4. Alive /\ UNCHANGED <<physical, fallback>> BY <1>14 DEF RestoreDown
  <2>5. debts \subseteq debts' BY <2>1
  <2> QED BY <2>2, <2>3, <2>4, <2>5
<1>15. CASE Adopt
  <2>1. Alive /\ UNCHANGED <<physical, device>> BY <1>15 DEF Adopt
  <2>2. \A d \in debts : d \in debts' \/ d.id = nextId - 1 BY <1>15 DEF Adopt
  <2>3. \A d \in debts : d.id = nextId - 1 => physical[d.key]
    BY <1>15, <2>1 DEF Adopt, LedgerInv, HeldInv, LedgerType, Alive
  <2>4. fallback = None BY <1>15 DEF Adopt, ModeInv
  <2> QED BY <2>1, <2>2, <2>3, <2>4
<1>16. CASE Restored
  BY <1>16 DEF Restored, ToCleanup, opvars, flags
<1>17. CASE ReleaseDebt
  BY <1>17 DEF ReleaseDebt, Write, IsNewest, opvars, flags
<1>18. CASE DrainFallback
  BY <1>18 DEF DrainFallback, Write, opvars, flags
<1>19. CASE Report
  BY <1>19 DEF Report, Outcome, Reconciled, Drop, WriterCheck, opvars, flags
<1>20. CASE Unwind
  BY <1>20 DEF Unwind, ToCleanup, opvars, flags
<1>21. CASE RequestSoftCancel
  BY <1>21 DEF RequestSoftCancel, Running, opvars, flags
<1>22. CASE Abort
  BY <1>22 DEF Abort, Running, opvars, flags
<1>23. CASE LeaseChanges
  BY <1>23 DEF LeaseChanges, Running, opvars, flags
<1>24. CASE Destroy
  BY <1>24 DEF Destroy, opvars, flags
<1>25. CASE UNCHANGED vars
  BY <1>25 DEF vars, opvars, flags
<1> QED BY <1>1, <1>2, <1>3, <1>4, <1>5, <1>6, <1>7, <1>8, <1>9, <1>10, <1>11, <1>12, <1>13, <1>14, <1>15, <1>16, <1>17, <1>18, <1>19, <1>20, <1>21, <1>22, <1>23, <1>24, <1>25 DEF Next, Execute, Finalize, BeginAny

\* Every step preserves HeldInv.
LEMMA HeldStep == Inv /\ [Next]_vars => HeldInv'
<1> SUFFICES ASSUME Inv, [Next]_vars PROVE HeldInv'
  OBVIOUS
<1> USE DEF Inv, TypeOK, HeldInv, Alive, KeyType
<1>1. CASE \E k \in Keys : ForwardPress(k)
  <2>1. PICK k \in Keys : ForwardPress(k) BY <1>1
  <2>2. UNCHANGED <<entries, plan, toRelease>> BY <2>1 DEF ForwardPress, opvars
  <2>3. \A m \in Modifiers : physical[m] => physical'[m]
    BY <2>1 DEF ForwardPress
  <2> QED BY <2>1, <2>2, <2>3 DEF ForwardPress
<1>2. CASE \E k \in Keys : ForwardRelease(k)
  <2>1. PICK k \in Keys : ForwardRelease(k) BY <1>2
  <2>2. CASE pc' = "failed" BY <2>2
  <2>3. CASE pc' = "idle"
    <3>1. entries' = [m \in Modifiers |-> IF m = k THEN "none" ELSE entries[m]]
      BY <2>1, <2>3 DEF ForwardRelease
    <3>2. plan' = {} /\ toRelease' = {} /\ plan = {}
      BY <2>1 DEF ForwardRelease, IdleInv, opvars
    <3>3. \A m \in Modifiers : m # k => physical'[m] = physical[m]
      BY <2>1 DEF ForwardRelease
    <3> QED BY <2>1, <3>1, <3>2, <3>3 DEF ForwardRelease
  <2> QED BY <2>1, <2>2, <2>3 DEF ForwardRelease
<1>3. CASE BeginAny
  <2>1. PICK c \in {"correction", "shortcut", "separator"}, s \in Script :
             Begin(c, s) /\ Head(s) \in Seq(Keys) \ {<<>>} /\ Tail(s) \in Script
    BY <1>3, BeginTypes
  <2> QED BY <2>1 DEF Begin, opvars, flags
<1>4. CASE Refuse
  BY <1>4 DEF Refuse, Refusals, AfterPressError, WriterCheck, ControlRefuses, opvars, flags
<1>5. CASE TemporarilyRelease
  BY <1>5 DEF TemporarilyRelease, Write, SetEntry, IsLast, opvars, flags
<1>6. CASE SettleRelease
  BY <1>6 DEF SettleRelease, Settlements, ControlRefuses, opvars, flags
<1>7. CASE Press
  BY <1>7 DEF Press, Write, EntryOf, AfterPressError, opvars, flags
<1>8. CASE SettlePress
  BY <1>8 DEF SettlePress, Settlements, ControlRefuses, AfterPressError, opvars, flags
<1>9. CASE Wait
  BY <1>9 DEF Wait, WriterCheck, opvars, flags
<1>10. CASE Unpress
  BY <1>10 DEF Unpress, Write, FirstError, IsNewest, opvars, flags
<1>11. CASE Unpressed
  BY <1>11 DEF Unpressed, opvars, flags
<1>12. CASE NextGroup
  BY <1>12 DEF NextGroup, WriterCheck, opvars, flags
<1>13. CASE Finish
  BY <1>13 DEF Finish, Verdict, WriterCheck, ToCleanup, opvars, flags
<1>14. CASE RestoreDown
  BY <1>14 DEF RestoreDown, Write, SetEntry, IsFirst, ToCleanup, opvars, flags
<1>15. CASE Adopt
  BY <1>15 DEF Adopt, SetEntry, IsFirst, ToCleanup, opvars, flags
<1>16. CASE Restored
  BY <1>16 DEF Restored, ToCleanup, opvars, flags
<1>17. CASE ReleaseDebt
  BY <1>17 DEF ReleaseDebt, Write, IsNewest, opvars, flags
<1>18. CASE DrainFallback
  BY <1>18 DEF DrainFallback, Write, opvars, flags
<1>19. CASE Report
  <2>1. CASE pc' = "failed" BY <2>1
  <2>2. CASE pc' = "idle"
    <3>1. mode \in {"success", "soft"} /\ ~cleanup
      BY <1>19, <2>2 DEF Report, Outcome
    <3>2. plan = {} BY <1>19, <3>1 DEF Report, ModeInv
    <3>3. plan' = {} /\ toRelease' = {} BY <1>19, <2>2 DEF Report, Drop
    <3> QED BY <1>19, <3>2, <3>3 DEF Report
  <2> QED BY <1>19, <2>1, <2>2 DEF Report
<1>20. CASE Unwind
  BY <1>20 DEF Unwind, ToCleanup, opvars, flags
<1>21. CASE RequestSoftCancel
  BY <1>21 DEF RequestSoftCancel, Running, opvars, flags
<1>22. CASE Abort
  BY <1>22 DEF Abort, Running, opvars, flags
<1>23. CASE LeaseChanges
  BY <1>23 DEF LeaseChanges, Running, opvars, flags
<1>24. CASE Destroy
  BY <1>24 DEF Destroy, opvars, flags
<1>25. CASE UNCHANGED vars
  BY <1>25 DEF vars, opvars, flags
<1> QED BY <1>1, <1>2, <1>3, <1>4, <1>5, <1>6, <1>7, <1>8, <1>9, <1>10, <1>11, <1>12, <1>13, <1>14, <1>15, <1>16, <1>17, <1>18, <1>19, <1>20, <1>21, <1>22, <1>23, <1>24, <1>25 DEF Next, Execute, Finalize, BeginAny

\* Every step preserves LedgerInv.
LEMMA LedgerStep == Inv /\ [Next]_vars => LedgerInv'
<1> SUFFICES ASSUME Inv, [Next]_vars PROVE LedgerInv'
  OBVIOUS
<1> USE DEF Inv, TypeOK, LedgerInv, ControlType
<1>1. CASE \E k \in Keys : ForwardPress(k)
  BY <1>1 DEF ForwardPress, Write, EntryOf, opvars, flags
<1>2. CASE \E k \in Keys : ForwardRelease(k)
  BY <1>2 DEF ForwardRelease, Write, EntryOf, opvars, flags
<1>3. CASE BeginAny
  <2>1. PICK c \in {"correction", "shortcut", "separator"}, s \in Script : Begin(c, s)
    BY <1>3, BeginTypes
  <2>2. debts' = {} /\ pressed' = {} /\ mode' = "none"
    BY <2>1 DEF Begin, IdleInv
  <2>3. pc' \in {"press", "release"} BY <2>1 DEF Begin
  <2> QED BY <2>2, <2>3
<1>4. CASE Refuse
  BY <1>4 DEF Refuse, Refusals, AfterPressError, WriterCheck, ControlRefuses, opvars, flags
<1>5. CASE TemporarilyRelease
  BY <1>5 DEF TemporarilyRelease, Write, SetEntry, IsLast, opvars, flags
<1>6. CASE SettleRelease
  <2>1. UNCHANGED <<debts, pressed, nextId, mode>> BY <1>6 DEF SettleRelease
  <2>2. pressed = {} /\ \A d \in debts : d.id \in pressed
    BY <1>6 DEF SettleRelease, ModeInv
  <2>3. pc' \in {"finish", "press", "release"} /\ mode = "none"
    BY <1>6 DEF SettleRelease, ModeInv
  <2> QED BY <2>1, <2>2, <2>3
<1>7. CASE Press
  <2> DEFINE d == [id |-> nextId, key |-> Head(group)]
  <2>1. debts' = debts \cup {d} /\ nextId' = nextId + 1 /\ UNCHANGED <<pressed, mode>>
    BY <1>7 DEF Press
  <2>2. d.id = nextId /\ mode = "none" BY <1>7 DEF Press, ModeInv
  <2>3. \A e \in debts : e.id \in Nat /\ e.id < nextId /\ e.id \in pressed
    BY <1>7 DEF Press, ModeInv, LedgerType, Debt
  <2>4. nextId \in Nat /\ nextId' - 1 = nextId BY <2>1 DEF LedgerType
  <2>5. pc' \in {"settle", "finish", "unpress"} BY <1>7 DEF Press, AfterPressError
  <2>6. pc' # "settle" => err' = "fatal" BY <1>7 DEF Press, AfterPressError
  <2>7. \A e \in debts' : e.id < nextId'
    <3> HIDE DEF d
    <3> QED BY <2>1, <2>2, <2>3, <2>4
  <2>8. \A e, f \in debts' : e.id = f.id => e = f
    <3> HIDE DEF d
    <3> QED BY <2>1, <2>2, <2>3, <2>4
  <2>9. \A e \in debts' : e.id \in pressed' \/ e.id = nextId' - 1
    <3> HIDE DEF d
    <3> QED BY <2>1, <2>2, <2>3, <2>4
  <2> QED BY <2>1, <2>2, <2>5, <2>6, <2>7, <2>8, <2>9
<1>8. CASE SettlePress
  BY <1>8 DEF SettlePress, Settlements, ControlRefuses, AfterPressError, opvars, flags
<1>9. CASE Wait
  <2>1. UNCHANGED <<debts, pressed, nextId, mode>> /\ pc' = "unpress"
    BY <1>9 DEF Wait
  <2>2. \A d \in debts : d.id \in pressed BY <1>9 DEF Wait, ModeInv
  <2>3. mode = "none" BY <1>9 DEF Wait, ModeInv
  <2> QED BY <2>1, <2>2, <2>3
<1>10. CASE Unpress
  BY <1>10 DEF Unpress, Write, FirstError, IsNewest, opvars, flags
<1>11. CASE Unpressed
  BY <1>11 DEF Unpressed, opvars, flags
<1>12. CASE NextGroup
  <2>1. UNCHANGED <<debts, pressed, nextId, mode>> /\ pc' \in {"press", "finish"}
    BY <1>12 DEF NextGroup
  <2>2. pressed = {} /\ \A d \in debts : d.id \in pressed
    BY <1>12 DEF NextGroup, ModeInv
  <2>3. mode = "none" BY <1>12 DEF NextGroup, ModeInv
  <2> QED BY <2>1, <2>2, <2>3
<1>13. CASE Finish
  BY <1>13 DEF Finish, Verdict, WriterCheck, ToCleanup, opvars, flags
<1>14. CASE RestoreDown
  <2>1. PICK k \in plan :
           \/ UNCHANGED <<debts, nextId>> /\ pc' = "cleanup" /\ cleanup'
           \/ /\ debts' = debts \cup {[id |-> nextId, key |-> k]}
              /\ nextId' = nextId + 1
              /\ pc' = "adopt" \/ (pc' = "cleanup" /\ cleanup')
    BY <1>14 DEF RestoreDown, ToCleanup
  <2> DEFINE d == [id |-> nextId, key |-> k]
  <2>2. d.id = nextId /\ d.key = k OBVIOUS
  <2>3. \A e \in debts : e.id \in Nat /\ e.id < nextId BY DEF LedgerType, Debt
  <2>4. nextId \in Nat BY DEF LedgerType
  <2>5. mode = "success" => debts = {} BY <1>14 DEF RestoreDown
  <2>6. UNCHANGED <<pressed, err, mode, plan>> BY <1>14 DEF RestoreDown
  <2> HIDE DEF d
  <2>7. CASE UNCHANGED <<debts, nextId>> /\ pc' = "cleanup" /\ cleanup'
    BY <2>6, <2>7
  <2>8. CASE /\ debts' = debts \cup {d} /\ nextId' = nextId + 1
             /\ pc' = "adopt" \/ (pc' = "cleanup" /\ cleanup')
    <3>1. \A e \in debts' : e.id < nextId' BY <2>8, <2>2, <2>3, <2>4
    <3>2. \A e, f \in debts' : e.id = f.id => e = f BY <2>8, <2>2, <2>3, <2>4
    <3>3. nextId' - 1 = nextId BY <2>8, <2>4
    <3>4. \A e \in debts' : e.id = nextId' - 1 => e.key \in plan'
      BY <2>8, <2>2, <2>3, <2>4, <2>6, <3>3
    <3>5. mode' = "success" => \A e \in debts' : e.id = nextId' - 1
      BY <2>8, <2>2, <2>5, <2>6, <3>3
    <3> QED BY <2>8, <3>1, <3>2, <3>4, <3>5
  <2> QED BY <2>1, <2>7, <2>8 DEF d
<1>15. CASE Adopt
  BY <1>15 DEF Adopt, SetEntry, IsFirst, ToCleanup, opvars, flags
<1>16. CASE Restored
  BY <1>16 DEF Restored, ToCleanup, opvars, flags
<1>17. CASE ReleaseDebt
  BY <1>17 DEF ReleaseDebt, Write, IsNewest, opvars, flags
<1>18. CASE DrainFallback
  BY <1>18 DEF DrainFallback, Write, opvars, flags
<1>19. CASE Report
  BY <1>19 DEF Report, Outcome, Reconciled, Drop, WriterCheck, opvars, flags
<1>20. CASE Unwind
  BY <1>20 DEF Unwind, ToCleanup, opvars, flags
<1>21. CASE RequestSoftCancel
  BY <1>21 DEF RequestSoftCancel, Running, opvars, flags
<1>22. CASE Abort
  BY <1>22 DEF Abort, Running, opvars, flags
<1>23. CASE LeaseChanges
  BY <1>23 DEF LeaseChanges, Running, opvars, flags
<1>24. CASE Destroy
  BY <1>24 DEF Destroy, opvars, flags
<1>25. CASE UNCHANGED vars
  BY <1>25 DEF vars, opvars, flags
<1> QED BY <1>1, <1>2, <1>3, <1>4, <1>5, <1>6, <1>7, <1>8, <1>9, <1>10, <1>11, <1>12, <1>13, <1>14, <1>15, <1>16, <1>17, <1>18, <1>19, <1>20, <1>21, <1>22, <1>23, <1>24, <1>25 DEF Next, Execute, Finalize, BeginAny

\* Every step preserves RestoreInv.
LEMMA RestoreStep == Inv /\ [Next]_vars => RestoreInv'
<1> SUFFICES ASSUME Inv, [Next]_vars PROVE RestoreInv'
  OBVIOUS
<1> USE DEF Inv, TypeOK, RestoreInv, KeyType
<1>1. CASE \E k \in Keys : ForwardPress(k)
  BY <1>1 DEF ForwardPress, Write, EntryOf, opvars, flags
<1>2. CASE \E k \in Keys : ForwardRelease(k)
  BY <1>2 DEF ForwardRelease, Write, EntryOf, opvars, flags
<1>3. CASE BeginAny
  <2>1. PICK c \in {"correction", "shortcut", "separator"}, s \in Script :
             Begin(c, s) /\ Head(s) \in Seq(Keys) \ {<<>>} /\ Tail(s) \in Script
    BY <1>3, BeginTypes
  <2> QED BY <2>1 DEF Begin, opvars, flags
<1>4. CASE Refuse
  BY <1>4 DEF Refuse, Refusals, AfterPressError, WriterCheck, ControlRefuses, opvars, flags
<1>5. CASE TemporarilyRelease
  BY <1>5 DEF TemporarilyRelease, Write, SetEntry, IsLast, opvars, flags
<1>6. CASE SettleRelease
  <2>1. UNCHANGED <<physical, kind, toRelease, plan, mode>> BY <1>6 DEF SettleRelease
  <2>2. err = "none" /\ mode = "none" BY <1>6 DEF SettleRelease, ModeInv
  <2>3. pc' \in {"finish", "press", "release"} BY <1>6 DEF SettleRelease
  <2>4. pc' = "press" => toRelease = {} BY <1>6 DEF SettleRelease
  <2>5. pc' = "finish" => err' # "none" BY <1>6 DEF SettleRelease
  <2> QED BY <1>6, <2>1, <2>2, <2>3, <2>4, <2>5 DEF SettleRelease
<1>7. CASE Press
  BY <1>7 DEF Press, Write, EntryOf, AfterPressError, opvars, flags
<1>8. CASE SettlePress
  <2>1. UNCHANGED <<physical, kind, toRelease, plan, mode>> BY <1>8 DEF SettlePress
  <2>2. err = "none" /\ mode = "none" BY <1>8 DEF SettlePress, ModeInv
  <2>3. pc' \in {"finish", "press", "wait", "unpress"}
    BY <1>8 DEF SettlePress, AfterPressError
  <2> QED BY <1>8, <2>1, <2>2, <2>3 DEF SettlePress
<1>9. CASE Wait
  <2>1. UNCHANGED <<physical, kind, toRelease, plan, mode>> BY <1>9 DEF Wait
  <2>2. err = "none" /\ mode = "none" BY <1>9 DEF Wait, ModeInv
  <2> QED BY <1>9, <2>1, <2>2 DEF Wait
<1>10. CASE Unpress
  BY <1>10 DEF Unpress, Write, FirstError, IsNewest, opvars, flags
<1>11. CASE Unpressed
  BY <1>11 DEF Unpressed, opvars, flags
<1>12. CASE NextGroup
  <2>1. UNCHANGED <<physical, kind, toRelease, plan, mode>> BY <1>12 DEF NextGroup
  <2>2. err = "none" /\ mode = "none" BY <1>12 DEF NextGroup, ModeInv
  <2>3. pc' \in {"finish", "press"} BY <1>12 DEF NextGroup
  <2> QED BY <1>12, <2>1, <2>2, <2>3 DEF NextGroup
<1>13. CASE Finish
  BY <1>13 DEF Finish, Verdict, WriterCheck, ToCleanup, opvars, flags
<1>14. CASE RestoreDown
  <2>0. (pc' = "cleanup" /\ cleanup') \/ pc' = "adopt"
    BY <1>14 DEF RestoreDown, ToCleanup
  <2>3. UNCHANGED <<physical, kind, plan, mode, err>> BY <1>14 DEF RestoreDown
  <2>4. CASE pc' = "cleanup" /\ cleanup' BY <2>3, <2>4
  <2>5. CASE pc' = "adopt"
    <3>0. PICK k \in plan : IsFirst(k, plan) /\ device' = [device EXCEPT ![k] = TRUE]
      BY <1>14, <2>5 DEF RestoreDown, ToCleanup, Write
    <3>1. k \in Keys BY <3>0 DEF LedgerType
    <3>2. /\ \A j \in Keys : j # k => device'[j] = device[j]
          /\ device'[k] = TRUE
      BY <3>0, <3>1 DEF KeyType
    <3>3. \A m \in plan : IsFirst(m, plan) => m = k
      BY <3>0 DEF IsFirst, LedgerType
    <3>4. ~cleanup BY <1>14 DEF RestoreDown, ModeInv
    <3> QED BY <1>14, <2>3, <2>5, <3>2, <3>3, <3>4 DEF IsFirst, RestoreDown
  <2> QED BY <2>0, <2>4, <2>5
<1>15. CASE Adopt
  BY <1>15 DEF Adopt, SetEntry, IsFirst, ToCleanup, opvars, flags
<1>16. CASE Restored
  BY <1>16 DEF Restored, ToCleanup, opvars, flags
<1>17. CASE ReleaseDebt
  <2>1. UNCHANGED <<physical, kind, plan, mode, err, pc>> BY <1>17 DEF ReleaseDebt
  <2>2. pc = "cleanup" /\ todo # {} BY <1>17 DEF ReleaseDebt
  <2>3. mode = "success" => cleanup BY <2>2 DEF LedgerInv
  <2>4. cleanup => cleanup' BY <1>17 DEF ReleaseDebt, FlagType
  <2> QED BY <2>1, <2>2, <2>3, <2>4
<1>18. CASE DrainFallback
  <2>1. UNCHANGED <<physical, kind, plan, mode, err>> /\ pc = "cleanup" /\ pc' = "report"
    BY <1>18 DEF DrainFallback
  <2>2. CASE fallback = None
    <3>1. UNCHANGED <<device, cleanup>> BY <1>18, <2>2 DEF DrainFallback
    <3> QED BY <2>1, <3>1
  <2>3. CASE fallback # None
    <3>1. cleanup BY <2>3 DEF ModeInv
    <3>2. cleanup' BY <1>18, <2>3, <3>1 DEF DrainFallback
    <3> QED BY <2>1, <3>2
  <2> QED BY <2>2, <2>3
<1>19. CASE Report
  BY <1>19 DEF Report, Outcome, Reconciled, Drop, WriterCheck, opvars, flags
<1>20. CASE Unwind
  BY <1>20 DEF Unwind, ToCleanup, opvars, flags
<1>21. CASE RequestSoftCancel
  BY <1>21 DEF RequestSoftCancel, Running, opvars, flags
<1>22. CASE Abort
  BY <1>22 DEF Abort, Running, opvars, flags
<1>23. CASE LeaseChanges
  BY <1>23 DEF LeaseChanges, Running, opvars, flags
<1>24. CASE Destroy
  BY <1>24 DEF Destroy, opvars, flags
<1>25. CASE UNCHANGED vars
  BY <1>25 DEF vars, opvars, flags
<1> QED BY <1>1, <1>2, <1>3, <1>4, <1>5, <1>6, <1>7, <1>8, <1>9, <1>10, <1>11, <1>12, <1>13, <1>14, <1>15, <1>16, <1>17, <1>18, <1>19, <1>20, <1>21, <1>22, <1>23, <1>24, <1>25 DEF Next, Execute, Finalize, BeginAny

\* The initial state satisfies the inductive invariant.
LEMMA InitInv == Init => Inv
<1> SUFFICES ASSUME Init PROVE Inv OBVIOUS
<1> USE DEF Init, Fresh
<1>1. KeyType BY DEF KeyType, EntryState
<1>2. ScriptType BY DEF ScriptType, Script
<1>3. LedgerType BY DEF LedgerType, Debt
<1>4. ControlType /\ FlagType BY DEF ControlType, FlagType
<1>5. Covered /\ HeldInv BY DEF Covered, HeldInv, Alive
<1>6. IdleInv /\ ModeInv /\ GroupInv BY DEF IdleInv, ModeInv, GroupInv
<1>7. LedgerInv /\ RestoreInv BY DEF LedgerInv, RestoreInv
<1> QED BY <1>1, <1>2, <1>3, <1>4, <1>5, <1>6, <1>7 DEF Inv, TypeOK

\* The inductive invariant holds in every behaviour.
LEMMA Invariant == Spec => []Inv
<1>1. Inv /\ [Next]_vars => Inv'
  BY KeyTypeStep, ScriptTypeStep, LedgerTypeStep, ControlTypeStep,
     FlagTypeStep, GroupStep, ModeStep, IdleStep, CoveredStep, HeldStep,
     LedgerStep, RestoreStep DEF Inv, TypeOK
<1> QED BY InitInv, <1>1, PTL DEF Spec

\* The state is typed in every behaviour.
THEOREM OperationTyped == Spec => []TypeOK
<1>1. Inv => TypeOK BY DEF Inv
<1> QED BY Invariant, <1>1, PTL

\* Between two commands of the writer, a key the virtual device holds down is
\* held physically, whichever writes of the operations before reported an
\* error: an operation that is allowed to go on has released every key of it.
THEOREM NoKeyIsStuck == Spec => []NoStuckKey
<1>1. Inv => NoStuckKey
  BY DEF Inv, Covered, IdleInv, Alive, NoStuckKey
<1> QED BY Invariant, <1>1, PTL

\* The session ledger owns only modifiers that are physically held and is at
\* rest between two commands.
THEOREM SessionLedgerIsOwned == Spec => []SessionOwned
<1>1. Inv => SessionOwned
  BY DEF Inv, TypeOK, KeyType, EntryState, HeldInv, IdleInv, Alive, SessionOwned
<1> QED BY Invariant, <1>1, PTL

\* The steps that only release a key.
LEMMA ReleasesOnly ==
    ASSUME KeyType, LedgerType, Unpress \/ ReleaseDebt \/ DrainFallback
    PROVE  \A k \in Keys : device'[k] => device[k]
<1>1. CASE Unpress
  <2>1. \E d \in debts, applied \in BOOLEAN :
           device' = [device EXCEPT ![d.key] = IF applied THEN FALSE ELSE @]
    BY <1>1 DEF Unpress, Write
  <2> QED BY <2>1 DEF KeyType, LedgerType, Debt
<1>2. CASE ReleaseDebt
  <2>1. \E d \in todo, applied \in BOOLEAN :
           device' = [device EXCEPT ![d.key] = IF applied THEN FALSE ELSE @]
    BY <1>2 DEF ReleaseDebt, Write
  <2> QED BY <2>1 DEF KeyType, LedgerType, Debt
<1>3. CASE DrainFallback
  <2>1. \/ UNCHANGED device
        \/ \E applied \in BOOLEAN :
             device' = [device EXCEPT ![fallback] = IF applied THEN FALSE ELSE @]
    BY <1>3 DEF DrainFallback, Write
  <2> QED BY <2>1 DEF KeyType
<1> QED BY <1>1, <1>2, <1>3

\* After a fatal error or a panic no key of the device goes down.
THEOREM HardFailuresOnlyRelease == Spec => HardFailureOnlyReleases
<1>1. ASSUME Inv, [Next]_vars PROVE [OnlyReleases]_vars
  <2> SUFFICES ASSUME err = "fatal" \/ mode \in {"hard", "drop"}, pc # "idle"
               PROVE  \A k \in Keys : device'[k] => device[k]
    BY DEF OnlyReleases
  <2>1. pc \notin Executing \ {"unpress"} /\ pc \notin {"restore", "adopt"}
    BY <1>1 DEF Inv, TypeOK, ControlType, ModeInv
  <2>2. \/ UNCHANGED device
        \/ Unpress \/ ReleaseDebt \/ DrainFallback
        \/ Destroy
    <3>1. ~ \E k \in Keys : ForwardPress(k) \/ ForwardRelease(k)
      BY DEF ForwardPress, ForwardRelease
    <3>2. ~ (TemporarilyRelease \/ Press \/ RestoreDown)
      BY <2>1 DEF TemporarilyRelease, Press, RestoreDown
    <3> QED
      BY <1>1, <3>1, <3>2
      DEF Next, Execute, Finalize, BeginCorrection, BeginShortcut,
          BeginSeparator, Begin, Refuse, SettleRelease, SettlePress, Wait,
          Unpressed, NextGroup, Finish, Adopt, Restored, Report, Unwind,
          RequestSoftCancel, Abort, LeaseChanges, vars
  <2>3. CASE UNCHANGED device BY <2>3
  <2>4. CASE Unpress \/ ReleaseDebt \/ DrainFallback
    BY <1>1, <2>4, ReleasesOnly DEF Inv, TypeOK
  <2>5. CASE Destroy BY <2>5 DEF Destroy
  <2> QED BY <2>2, <2>3, <2>4, <2>5
<1> QED BY Invariant, <1>1, PTL DEF Spec, HardFailureOnlyReleases

\* An operation that returns success leaves every physically held modifier
\* down on the device.
THEOREM SuccessRestoresModifiers == Spec => SuccessRestores
<1>1. ASSUME Inv, [Next]_vars PROVE [RestoredOn("ok")]_vars
  <2> SUFFICES ASSUME pc = "report", pc' = "idle",
                      result' = "ok", kind # "separator",
                      NEW m \in Modifiers, physical[m]
               PROVE  device'[m]
    BY DEF RestoredOn
  <2>1. Report
    BY <1>1 DEF Next, Execute, Finalize, ForwardPress, ForwardRelease,
           BeginCorrection, BeginShortcut, BeginSeparator, Begin, Refuse,
           TemporarilyRelease, SettleRelease, Press, SettlePress, Wait,
           Unpress, Unpressed, NextGroup, Finish, RestoreDown, Adopt, Restored,
           ReleaseDebt, DrainFallback, Unwind, RequestSoftCancel, Abort,
           LeaseChanges, Destroy, vars, Executing
  <2>2. mode = "success" /\ ~cleanup BY <2>1 DEF Report, Outcome
  <2>3. plan = {} BY <1>1, <2>2 DEF Inv, ModeInv
  <2>4. device[m] BY <1>1, <2>2, <2>3 DEF Inv, RestoreInv
  <2> QED BY <2>1, <2>4 DEF Report
<1> QED BY Invariant, <1>1, PTL DEF Spec, SuccessRestores

\* Between two commands the device and the session ledger both agree with the
\* keys the user holds.
THEOREM BooksAreRight == Spec => []KeysAreAccountedFor
BY NoKeyIsStuck, SessionLedgerIsOwned, PTL DEF KeysAreAccountedFor

HIDE ConstantsAssumption DEF Keys, Executing, Finalizing

-----------------------------------------------------------------------------
(***************************************************************************)
(* CorrectionRun: the correction of a word whose keys these are, the       *)
(* layout its strokes are typed in and the deadline it is given.           *)
(*                                                                         *)
(* The argument: before the switch was asked for nothing has moved; then   *)
(* either it is on its way or the desktop has made it, and the phases that *)
(* type come after that.  What a correction has waited and what is still   *)
(* to come of its pauses stay within its schedule.                         *)
(***************************************************************************)

\* What a correction is made of.
Phases == {"sync", "erase", "combo", "settle", "groups", "current", "latch",
           "target", "activate", "verify", "type"}

Runs ==
    [pc : Phases, plan : Plans, delays : Delays, switch : BOOLEAN,
     strategy : {"none", "keys", "x11", "xkb"}, from : Nat, target : Nat,
     erase : Nat, type : Nat, waited : Nat, started : Nat]

RunTyped ==
    /\ env.count \in 1..2
    /\ shown \in 0..(env.count - 1) /\ inflight \subseteq 0..(env.count - 1)
    /\ run = Idle \/ run \in Runs
    /\ slow \in Nat /\ switches \in Nat /\ moved \in BOOLEAN
    /\ Correcting => run \in Runs

\* The phases of the strategies.
RunInOrder ==
    Correcting =>
        /\ run.switch <=> run.strategy # "none"
        /\ run.from \in 0..(env.count - 1) /\ run.target \in 0..(env.count - 1)
        /\ run.pc = "combo" => run.strategy \in {"keys", "x11"}
        /\ run.pc = "settle" => run.strategy \in {"keys", "x11"}
        /\ run.pc \in {"groups", "current", "latch"} => run.strategy = "x11"
        /\ run.pc \in {"target", "activate", "verify"} => run.strategy = "xkb"

\* Nothing was asked of the desktop yet, ...
Before ==
    \/ run.strategy \in {"keys", "x11"}
       /\ run.pc \in {"sync", "erase", "combo", "groups", "current", "latch"}
    \/ run.pc \in {"target", "activate"}

\* ... the switch is on its way, or it was made.
Waiting == run.pc \in {"settle", "verify"}

Following(g) == (g + 1) % env.count

Untouched == switches = 0 /\ inflight = {} /\ typed = {}

NotYetAsked ==
    Correcting /\ Before =>
        /\ Untouched
        /\ moved \/ shown = run.from
        /\ run.pc \in {"latch", "activate"} => moved \/ run.target = Following(run.from)

NeverAsked ==
    Correcting /\ run.strategy = "none" =>
        /\ inflight = {} /\ switches = 0
        /\ moved \/ (shown = run.from /\ typed \subseteq {run.from})

OnItsWay ==
    Correcting /\ Waiting =>
        /\ typed = {}
        /\ run.pc = "verify" => moved \/ run.target = Following(run.from)
        /\ \/ moved
           \/ inflight = {Following(run.from)}
           \/ inflight = {} /\ shown = Following(run.from)

Made ==
    Correcting /\ run.strategy # "none" /\ ~Before /\ ~Waiting =>
        \/ moved
        \/ /\ shown = Following(run.from) /\ inflight \subseteq {Following(run.from)}
           /\ typed \subseteq {Following(run.from)}

AtRest == ~Correcting /\ ended = "none" => Untouched /\ ~moved

SwitchInOrder ==
    switches <= 1 /\ NotYetAsked /\ NeverAsked /\ OnItsWay /\ Made /\ AtRest

\* What a stroke of either kind costs, and the pauses that are still to come.
EraseCost == KeyTap + run.delays.backspace
TypeCost == KeyTap + ShiftSettle + run.delays.typing

LayoutCost ==
    IF run.strategy \notin {"keys", "x11"} \/ run.pc = "type" THEN 0
    ELSE IF run.pc = "settle" THEN run.delays.layout ELSE 2 * run.delays.layout

SyncCost == IF run.pc = "sync" /\ run.strategy # "xkb" THEN ModifierSync ELSE 0

ToCome == run.erase * EraseCost + run.type * TypeCost + LayoutCost + SyncCost

\* The effect of a request is awaited for so long and one interval more.
VerifyCost == SwitchTimeout + PollInterval

Scheduled == Schedule(run.plan.strokes, run.plan.extra, run.delays, run.switch)

WithinSchedule ==
    /\ ended = "refused" => \E p \in Plans : p.strokes > 128 \/ p.extra > 1
    /\ Correcting => run.waited + ToCome
                      <= Scheduled + (IF run.strategy = "xkb" THEN VerifyCost ELSE 0)
    /\ Correcting /\ run.pc \in {"target", "activate", "verify"} => ToCome <= Scheduled
    /\ Correcting /\ run.pc \in {"target", "activate"} => run.waited = 0
    /\ Correcting /\ run.pc = "verify" => run.started <= slow /\ run.waited <= VerifyCost

RunInv == RunTyped /\ RunInOrder /\ SwitchInOrder /\ WithinSchedule

\* The layout after g is one of the n layouts.
LEMMA FollowingType ==
    ASSUME NEW n \in 1..2, NEW g \in 0..(n - 1)
    PROVE  (g + 1) % n \in 0..(n - 1)
<1>1. CASE n = 1 /\ g = 0 BY <1>1
<1>2. CASE n = 2 /\ g = 0 BY <1>2
<1>3. CASE n = 2 /\ g = 1 BY <1>3
<1> QED BY <1>1, <1>2, <1>3

\* One product less.
LEMMA OneLess == ASSUME NEW a \in Nat, a > 0, NEW b \in Nat PROVE (a - 1) * b = a * b - b
OBVIOUS

\* A product grows with its factors.
LEMMA TimesMono ==
    ASSUME NEW a \in Nat, NEW b \in Nat, NEW x \in Nat, NEW y \in Nat, a <= b, x <= y
    PROVE  a * x <= b * y
<1>1. (b - a) * x >= 0 /\ (b - a) * x = b * x - a * x OBVIOUS
<1>2. b * (y - x) >= 0 /\ b * (y - x) = b * y - b * x OBVIOUS
<1>3. a * x \in Nat /\ b * x \in Nat /\ b * y \in Nat OBVIOUS
<1> QED BY <1>1, <1>2, <1>3

\* No correction runs while there is none.
LEMMA NotRunning == ASSUME run = Idle PROVE ~Correcting
BY DEF Idle, Correcting

\* The initial state satisfies the invariant.
LEMMA RunBegins == RunInit => RunInv
<1> SUFFICES ASSUME RunInit PROVE RunInv OBVIOUS
<1> USE DEF RunInit
<1>1. ~Correcting BY NotRunning
<1>2. env.count \in 1..2 BY DEF Environments
<1>3. RunTyped
  <2>1. shown \in 0..(env.count - 1) BY <1>2
  <2>2. moved \in BOOLEAN OBVIOUS
  <2> QED BY <1>1, <1>2, <2>1, <2>2 DEF RunTyped
<1>4. SwitchInOrder BY <1>1 DEF SwitchInOrder, NotYetAsked, NeverAsked, OnItsWay, Made, AtRest, Untouched
<1>5. WithinSchedule BY <1>1 DEF WithinSchedule
<1> QED BY <1>1, <1>3, <1>4, <1>5 DEF RunInv, RunInOrder

\* The end of a correction keeps the invariant.
LEMMA EndStep ==
    ASSUME RunInv, NEW how, how \notin {"none", "refused"}, End(how),
           env' = env, shown' = shown, switches' \in Nat, switches' <= 1,
           inflight' \subseteq 0..(env.count - 1), moved' = moved
    PROVE  RunInv'
<1> USE DEF End
<1>1. ~Correcting' BY DEF Correcting, Idle
<1>2. RunTyped' BY <1>1 DEF RunInv, RunTyped, Idle
<1>3. SwitchInOrder' BY <1>1 DEF SwitchInOrder, NotYetAsked, NeverAsked, OnItsWay, Made, AtRest
<1>4. WithinSchedule' BY <1>1 DEF WithinSchedule
<1> QED BY <1>1, <1>2, <1>3, <1>4 DEF RunInv, RunInOrder

\* A plan within the limits, under delays that are accepted, is not refused.
LEMMA NotRefused ==
    ASSUME NEW p \in Plans, NEW d \in Delays, Accepted(d),
           NEW switch \in BOOLEAN, Refused(p, d, switch)
    PROVE  p.strokes > 128 \/ p.extra > 1
<1> SUFFICES ASSUME p.strokes <= 128, p.extra <= 1 PROVE FALSE
  BY RunAssumption
<1> USE DEF KeyTap, ShiftSettle, MaxStrokes, MaxExtra, MaxSchedule,
            ModifierSync
<1>1. /\ p.strokes \in Nat /\ p.extra \in Nat
      /\ d.layout \in Nat /\ d.backspace \in Nat /\ d.typing \in Nat
  BY RunAssumption
<1> DEFINE e == 2 + d.backspace
           s == 2 + 1 + d.typing
           n == p.strokes + p.extra
<1>2. e \in Nat /\ s \in Nat /\ n \in Nat /\ n <= 129 BY <1>1
<1> HIDE DEF e, s, n
<1>3. n * e <= 129 * e /\ p.strokes * s <= 128 * s BY <1>1, <1>2, TimesMono
<1>4. n * e \in Nat /\ p.strokes * s \in Nat BY <1>1, <1>2
<1>5. 20 + 129 * e + 128 * s + 2 * d.layout <= 4000
  BY <1>1 DEF e, s, Accepted, Schedule
<1>6. 20 + n * e + p.strokes * s + (IF switch THEN 2 * d.layout ELSE 0) > 4000
  BY <1>1 DEF e, s, n, Refused, Schedule
<1> QED BY <1>1, <1>2, <1>3, <1>4, <1>5, <1>6

\* A correction that switches has a strategy (run_correction).
LEMMA StrategyOf ==
    ASSUME NEW switch \in BOOLEAN
    PROVE  /\ Strategy(switch) \in {"none", "keys", "x11", "xkb"}
           /\ switch <=> Strategy(switch) # "none"
BY DEF Strategy

\* A correction begins with all its pauses to come (estimated_correction_schedule_ms).
LEMMA BeginStep == ASSUME RunInv, ApplyCorrection PROVE RunInv'
<1>1. PICK p \in Plans, d \in {x \in Delays : Accepted(x)}, k \in Kinds :
        LET switch == Switches(k) IN
        IF Refused(p, d, switch)
        THEN ended' = "refused" /\ UNCHANGED run
        ELSE /\ run' = [pc |-> IF Strategy(switch) = "xkb" THEN "target" ELSE "sync",
                        plan |-> p, delays |-> d, switch |-> switch,
                        strategy |-> Strategy(switch), from |-> shown,
                        target |-> shown, erase |-> p.strokes + p.extra,
                        type |-> p.strokes, waited |-> 0, started |-> 0]
             /\ UNCHANGED ended
  BY DEF ApplyCorrection
<1>2. /\ ~Correcting /\ ended = "none"
      /\ UNCHANGED <<env, shown, inflight, stop, slow, moved, switches, typed, events>>
  BY DEF ApplyCorrection
<1> DEFINE switch == Switches(k)
<1>3. switch \in BOOLEAN /\ d \in Delays /\ Accepted(d)
  BY DEF Switches
<1> HIDE DEF switch
<1>4. CASE Refused(p, d, switch)
  <2>1. ended' = "refused" /\ run' = run BY <1>1, <1>4 DEF switch
  <2>2. \E q \in Plans : q.strokes > 128 \/ q.extra > 1 BY <1>3, <1>4, NotRefused
  <2>3. ~Correcting' BY <1>2, <2>1 DEF Correcting
  <2>4. RunTyped' BY <1>2, <2>1, <2>3 DEF RunInv, RunTyped, Idle
  <2>5. SwitchInOrder' BY <1>2, <2>1, <2>3 DEF RunInv, SwitchInOrder, NotYetAsked, NeverAsked, OnItsWay, Made, AtRest
  <2>6. WithinSchedule' BY <2>2, <2>3 DEF WithinSchedule
  <2> QED BY <2>3, <2>4, <2>5, <2>6 DEF RunInv, RunInOrder
<1>5. CASE ~Refused(p, d, switch)
  <2> DEFINE how == Strategy(switch)
  <2>1. /\ run' = [pc |-> IF how = "xkb" THEN "target" ELSE "sync",
                   plan |-> p, delays |-> d, switch |-> switch,
                   strategy |-> how, from |-> shown,
                   target |-> shown, erase |-> p.strokes + p.extra,
                   type |-> p.strokes, waited |-> 0, started |-> 0]
        /\ ended' = ended
    BY <1>1, <1>5 DEF switch
  <2>2. how \in {"none", "keys", "x11", "xkb"} /\ (switch <=> how # "none")
    BY <1>3, StrategyOf
  <2> HIDE DEF how
  <2>3. /\ p.strokes \in Nat /\ p.extra \in Nat
        /\ d.layout \in Nat /\ d.backspace \in Nat /\ d.typing \in Nat
    BY <1>3, RunAssumption
  <2>4. shown \in 0..(env.count - 1) /\ env.count \in 1..2 BY DEF RunInv, RunTyped
  <2>5. run' \in Runs BY <1>3, <2>1, <2>2, <2>3, <2>4 DEF Runs, Phases
  <2>6. RunTyped' BY <1>2, <2>5 DEF RunInv, RunTyped
  <2>7. RunInOrder' BY <1>2, <2>1, <2>2, <2>4 DEF RunInOrder
  <2>8. SwitchInOrder'
    <3>1. Untouched /\ ~moved /\ Untouched' /\ ~moved'
      BY <1>2 DEF RunInv, SwitchInOrder, AtRest, Untouched
    <3>2. run'.pc \notin {"latch", "activate", "settle", "verify"}
      BY <2>1
    <3>3. run'.strategy = "none" \/ Before'
      BY <2>1, <2>2 DEF Before
    <3> QED BY <1>2, <2>1, <3>1, <3>2, <3>3
        DEF SwitchInOrder, NotYetAsked, NeverAsked, OnItsWay, Made, AtRest, Untouched,
            Waiting, Correcting, RunInv
  <2>9. WithinSchedule'
    <3> DEFINE e == KeyTap + d.backspace
               s == KeyTap + ShiftSettle + d.typing
               n == p.strokes + p.extra
    <3>1. /\ EraseCost' = e /\ TypeCost' = s /\ run'.erase = n /\ run'.type = p.strokes
          /\ run'.waited = 0
      BY <2>1 DEF EraseCost, TypeCost
    <3>2. LayoutCost' = IF how \in {"keys", "x11"} THEN 2 * d.layout ELSE 0
      BY <2>1 DEF LayoutCost
    <3>3. SyncCost' = IF how # "xkb" THEN ModifierSync ELSE 0
      BY <2>1, <2>2 DEF SyncCost
    <3>4. Scheduled' = ModifierSync + n * e + p.strokes * s
                       + (IF switch THEN 2 * d.layout ELSE 0)
      BY <2>1 DEF Scheduled, Schedule
    <3>5. ToCome' = n * e + p.strokes * s + LayoutCost' + SyncCost'
      BY <3>1 DEF ToCome
    <3>6. e \in Nat /\ s \in Nat /\ n \in Nat
      BY <2>3 DEF KeyTap, ShiftSettle
    <3> HIDE DEF e, s, n
    <3>7. n * e \in Nat /\ p.strokes * s \in Nat
      BY <2>3, <3>6
    <3>8. run'.waited + ToCome' <= Scheduled'
      BY <2>2, <2>3, <3>1, <3>2, <3>3, <3>4, <3>5, <3>7, <1>3 DEF ModifierSync
    <3>9. run'.waited + ToCome'
          <= Scheduled' + (IF run'.strategy = "xkb" THEN VerifyCost ELSE 0)
      BY <2>2, <2>3, <3>1, <3>2, <3>3, <3>4, <3>5, <3>7, <3>8, <1>3
      DEF ModifierSync, VerifyCost, SwitchTimeout, PollInterval
    <3>10. run'.pc # "verify" /\ ended' # "refused"
      BY <1>2, <2>1
    <3>11. ToCome' <= Scheduled'
      BY <3>1, <3>2, <3>3, <3>5, <3>7, <3>8, <2>3 DEF ModifierSync
    <3> QED BY <3>1, <3>9, <3>10, <3>11 DEF WithinSchedule
  <2> QED BY <2>6, <2>7, <2>8, <2>9 DEF RunInv
<1> QED BY <1>4, <1>5

\* The types of a correction and of what is to come of it.
LEMMA RunFields ==
    ASSUME RunInv, Correcting
    PROVE  /\ run \in Runs /\ run.delays.layout \in Nat
           /\ EraseCost \in Nat /\ TypeCost \in Nat
           /\ run.erase \in Nat /\ run.type \in Nat /\ run.waited \in Nat
           /\ run.erase * EraseCost \in Nat /\ run.type * TypeCost \in Nat
           /\ LayoutCost \in Nat /\ SyncCost \in Nat /\ ToCome \in Nat
           /\ Scheduled \in Nat
<1>1. run \in Runs BY DEF RunInv, RunTyped
<1>2. /\ run.erase \in Nat /\ run.type \in Nat /\ run.waited \in Nat
      /\ run.delays.layout \in Nat /\ run.delays.backspace \in Nat
      /\ run.delays.typing \in Nat
  BY <1>1, RunAssumption DEF Runs
<1>3. EraseCost \in Nat /\ TypeCost \in Nat
  BY <1>2 DEF EraseCost, TypeCost, KeyTap, ShiftSettle
<1>4. LayoutCost \in Nat /\ SyncCost \in Nat
  BY <1>2 DEF LayoutCost, SyncCost, ModifierSync
<1>5. run.erase * EraseCost \in Nat /\ run.type * TypeCost \in Nat BY <1>2, <1>3
<1>6. run.plan.strokes \in Nat /\ run.plan.extra \in Nat
  BY <1>1, RunAssumption DEF Runs
<1>7. Scheduled \in Nat
  <2>1. /\ (run.plan.strokes + run.plan.extra) * EraseCost \in Nat
        /\ run.plan.strokes * TypeCost \in Nat
    BY <1>3, <1>6
  <2>2. Scheduled = ModifierSync + (run.plan.strokes + run.plan.extra) * EraseCost
                    + run.plan.strokes * TypeCost
                    + (IF run.switch THEN 2 * run.delays.layout ELSE 0)
    BY DEF Scheduled, Schedule, EraseCost, TypeCost
  <2> QED BY <1>2, <2>1, <2>2 DEF ModifierSync
<1> QED BY <1>1, <1>2, <1>3, <1>4, <1>5, <1>7 DEF ToCome

\* A step that spends no more than it takes from what is to come.
LEMMA SpendStep ==
    ASSUME RunInv, Correcting, run'.plan = run.plan, run'.delays = run.delays,
           run'.switch = run.switch, run'.strategy = run.strategy, ended' = ended,
           run'.waited + ToCome' <= run.waited + ToCome,
           run.waited + ToCome \in Nat, run'.waited + ToCome' \in Nat,
           run'.pc \notin {"target", "activate", "verify"}
    PROVE  WithinSchedule'
<1>1. Scheduled' = Scheduled BY DEF Scheduled, Schedule
<1>2. run.waited + ToCome
      <= Scheduled + (IF run.strategy = "xkb" THEN VerifyCost ELSE 0)
  BY DEF RunInv, WithinSchedule
<1>3. Scheduled + (IF run.strategy = "xkb" THEN VerifyCost ELSE 0)
      = Scheduled' + (IF run'.strategy = "xkb" THEN VerifyCost ELSE 0)
  BY <1>1
<1>4. Scheduled + (IF run.strategy = "xkb" THEN VerifyCost ELSE 0) \in Nat
  BY RunFields DEF VerifyCost, SwitchTimeout, PollInterval
<1>5. run'.waited + ToCome'
      <= Scheduled' + (IF run'.strategy = "xkb" THEN VerifyCost ELSE 0)
  BY <1>2, <1>3, <1>4
<1>6. ended' = "refused" => \E p \in Plans : p.strokes > 128 \/ p.extra > 1
  BY DEF RunInv, WithinSchedule
<1> QED BY <1>5, <1>6 DEF WithinSchedule

\* A step to another phase after a pause.
LEMMA GoType ==
    ASSUME RunInv, Correcting, NEW next \in Phases, NEW wait \in Nat,
           run' = [run EXCEPT !.pc = next, !.waited = @ + wait]
    PROVE  /\ run' \in Runs
           /\ run'.pc = next /\ run'.waited = run.waited + wait
           /\ run'.plan = run.plan /\ run'.delays = run.delays
           /\ run'.switch = run.switch /\ run'.strategy = run.strategy
           /\ run'.from = run.from /\ run'.target = run.target
           /\ run'.erase = run.erase /\ run'.type = run.type
           /\ run'.erase * EraseCost' = run.erase * EraseCost
           /\ run'.type * TypeCost' = run.type * TypeCost
           /\ EraseCost' = EraseCost /\ TypeCost' = TypeCost
<1>1. run \in Runs /\ run.waited \in Nat BY RunFields
<1>2. run' \in Runs
  <2>1. run.waited + wait \in Nat BY <1>1
  <2> QED BY <1>1, <2>1 DEF Runs
<1>3. /\ run'.pc = next /\ run'.waited = run.waited + wait
      /\ run'.plan = run.plan /\ run'.delays = run.delays
      /\ run'.switch = run.switch /\ run'.strategy = run.strategy
      /\ run'.from = run.from /\ run'.target = run.target
      /\ run'.erase = run.erase /\ run'.type = run.type
  BY <1>1 DEF Runs
<1>4. EraseCost' = EraseCost /\ TypeCost' = TypeCost
  BY <1>3 DEF EraseCost, TypeCost
<1> QED BY <1>2, <1>3, <1>4

\* One lemma for each step of a correction.  The pause after the modifiers.
LEMMA ReleaseModifiersStep ==
    ASSUME RunInv, ReleaseModifiers PROVE RunInv'
<1> DEFINE wait == IF run.strategy = "xkb" THEN 0 ELSE ModifierSync
<1>1. /\ run.pc = "sync" /\ Correcting
      /\ run' = [run EXCEPT !.pc = "erase", !.waited = @ + wait]
      /\ UNCHANGED <<env, shown, inflight, stop, slow, ended, moved, switches, typed>>
  BY DEF ReleaseModifiers, At, Correcting, Go
<1>2. wait \in Nat BY DEF ModifierSync
<1>3. wait = SyncCost BY <1>1 DEF SyncCost
<1> HIDE DEF wait
<1>4. /\ run' \in Runs
      /\ run'.pc = "erase" /\ run'.waited = run.waited + wait
      /\ run'.plan = run.plan /\ run'.delays = run.delays
      /\ run'.switch = run.switch /\ run'.strategy = run.strategy
      /\ run'.from = run.from /\ run'.target = run.target
      /\ run'.erase * EraseCost' = run.erase * EraseCost
      /\ run'.type * TypeCost' = run.type * TypeCost
  BY <1>1, <1>2, GoType DEF Phases
<1>5. RunTyped' BY <1>1, <1>4 DEF RunInv, RunTyped
<1>6. RunInOrder' BY <1>1, <1>4 DEF RunInv, RunInOrder
<1>7. SwitchInOrder'
  <2>1. (Before' <=> Before) /\ ~Waiting /\ ~Waiting' /\ Correcting'
    BY <1>1, <1>4 DEF Before, Waiting, Correcting
  <2>2. moved' = moved /\ moved \in BOOLEAN BY <1>1 DEF RunInv, RunTyped
  <2>3. Following(run.from)' = Following(run.from) BY <1>1, <1>4 DEF Following
  <2> QED BY <1>1, <1>4, <2>1, <2>2, <2>3
          DEF RunInv, SwitchInOrder, NotYetAsked, NeverAsked, OnItsWay, Made, AtRest, Untouched
<1>8. WithinSchedule'
  <2>1. SyncCost' = 0 /\ LayoutCost' = LayoutCost
    BY <1>1, <1>4 DEF SyncCost, LayoutCost
  <2>2. run'.waited + ToCome' = run.waited + ToCome
    BY <1>3, <1>4, <2>1, RunFields, <1>1 DEF ToCome
  <2> QED BY <1>1, <1>4, <2>2, SpendStep, RunFields
<1> QED BY <1>5, <1>6, <1>7, <1>8 DEF RunInv

\* A backspace (replay_synthetic_backspaces).
LEMMA EraseStep == ASSUME RunInv, Erase PROVE RunInv'
<1>1. /\ run.pc = "erase" /\ Correcting /\ run.erase > 0
      /\ run' = [run EXCEPT !.erase = @ - 1, !.waited = @ + KeyTap + run.delays.backspace]
      /\ UNCHANGED <<env, shown, inflight, stop, slow, ended, moved, switches, typed>>
  BY DEF Erase, At, Correcting
<1>2. run \in Runs /\ run.waited \in Nat /\ run.erase \in Nat /\ run.delays.backspace \in Nat
  BY <1>1, RunFields, RunAssumption DEF Runs
<1>3. run.erase - 1 \in Nat /\ run.waited + KeyTap + run.delays.backspace \in Nat
  BY <1>1, <1>2 DEF KeyTap
<1>4. /\ run' \in Runs /\ run'.pc = "erase"
      /\ run'.plan = run.plan /\ run'.delays = run.delays
      /\ run'.switch = run.switch /\ run'.strategy = run.strategy
      /\ run'.from = run.from /\ run'.target = run.target
      /\ run'.erase = run.erase - 1 /\ run'.type = run.type
  BY <1>1, <1>2, <1>3 DEF Runs
<1>5. run'.waited = run.waited + EraseCost
  BY <1>1, <1>2 DEF Runs, EraseCost, KeyTap
<1>6. RunTyped' BY <1>1, <1>4 DEF RunInv, RunTyped
<1>7. RunInOrder' BY <1>1, <1>4 DEF RunInv, RunInOrder
<1>8. SwitchInOrder'
  <2>1. (Before' <=> Before) /\ ~Waiting /\ ~Waiting' /\ Correcting'
    BY <1>1, <1>4 DEF Before, Waiting, Correcting
  <2>2. moved' = moved /\ moved \in BOOLEAN BY <1>1 DEF RunInv, RunTyped
  <2>3. Following(run.from)' = Following(run.from) BY <1>1, <1>4 DEF Following
  <2> QED BY <1>1, <1>4, <2>1, <2>2, <2>3
          DEF RunInv, SwitchInOrder, NotYetAsked, NeverAsked, OnItsWay, Made, AtRest, Untouched
<1>9. WithinSchedule'
  <2>1. EraseCost' = EraseCost /\ TypeCost' = TypeCost
    BY <1>4 DEF EraseCost, TypeCost
  <2>2. run'.erase * EraseCost' = run.erase * EraseCost - EraseCost
    BY <1>1, <1>4, <2>1, OneLess, RunFields
  <2>3. run'.type * TypeCost' = run.type * TypeCost
    BY <1>4, <2>1
  <2>4. SyncCost' = SyncCost /\ LayoutCost' = LayoutCost
    BY <1>1, <1>4 DEF SyncCost, LayoutCost
  <2>5. run'.waited + ToCome' = run.waited + ToCome
    BY <1>1, <1>5, <2>2, <2>3, <2>4, RunFields DEF ToCome
  <2> QED BY <1>1, <1>4, <2>5, SpendStep, RunFields
<1> QED BY <1>6, <1>7, <1>8, <1>9 DEF RunInv

\* The word is erased.
LEMMA ErasedStep == ASSUME RunInv, Erased PROVE RunInv'
<1> DEFINE next == CASE run.strategy = "keys" -> "combo"
                     [] run.strategy = "x11" -> "groups"
                     [] OTHER -> "type"
<1>1. /\ run.pc = "erase" /\ Correcting
      /\ run' = [run EXCEPT !.pc = next, !.waited = @ + 0]
      /\ UNCHANGED <<env, shown, inflight, stop, slow, ended, moved, switches, typed>>
  BY DEF Erased, At, Correcting, Go
<1>2. run.strategy \in {"none", "keys", "x11", "xkb"}
  BY <1>1, RunFields DEF Runs
<1>3. /\ run.strategy = "keys" => next = "combo"
      /\ run.strategy = "x11" => next = "groups"
      /\ run.strategy \in {"none", "xkb"} => next = "type"
  BY <1>2
<1> HIDE DEF next
<1>4. /\ run' \in Runs
      /\ run'.pc = next /\ run'.waited = run.waited + 0
      /\ run'.plan = run.plan /\ run'.delays = run.delays
      /\ run'.switch = run.switch /\ run'.strategy = run.strategy
      /\ run'.from = run.from /\ run'.target = run.target
      /\ run'.erase * EraseCost' = run.erase * EraseCost
      /\ run'.type * TypeCost' = run.type * TypeCost
  BY <1>1, <1>2, <1>3, GoType DEF Phases
<1>5. RunTyped' BY <1>1, <1>4 DEF RunInv, RunTyped
<1>6. RunInOrder' BY <1>1, <1>2, <1>3, <1>4 DEF RunInv, RunInOrder
<1>7. SwitchInOrder'
  <2>1. (Before' <=> Before) /\ ~Waiting /\ ~Waiting' /\ Correcting'
    BY <1>1, <1>2, <1>3, <1>4 DEF Before, Waiting, Correcting
  <2>2. moved' = moved /\ moved \in BOOLEAN BY <1>1 DEF RunInv, RunTyped
  <2>3. Following(run.from)' = Following(run.from) BY <1>1, <1>4 DEF Following
  <2>4. run'.pc \notin {"latch", "activate"} BY <1>2, <1>3, <1>4
  <2> QED BY <1>1, <1>4, <2>1, <2>2, <2>3, <2>4
          DEF RunInv, SwitchInOrder, NotYetAsked, NeverAsked, OnItsWay, Made, AtRest, Untouched
<1>8. WithinSchedule'
  <2>1. SyncCost' = SyncCost /\ LayoutCost' = LayoutCost
    BY <1>1, <1>2, <1>3, <1>4 DEF SyncCost, LayoutCost
  <2>2. run'.waited + ToCome' = run.waited + ToCome
    BY <1>1, <1>4, <2>1, RunFields DEF ToCome
  <2>3. run'.pc \notin {"target", "activate", "verify"} BY <1>2, <1>3, <1>4
  <2> QED BY <1>1, <1>4, <2>2, <2>3, SpendStep, RunFields
<1> QED BY <1>5, <1>6, <1>7, <1>8 DEF RunInv

\* The key combination (replay_synthetic_layout_combo).
LEMMA PressComboStep == ASSUME RunInv, PressCombo PROVE RunInv'
<1>1. /\ run.pc = "combo" /\ Correcting
      /\ run' = [run EXCEPT !.pc = "settle", !.waited = @ + run.delays.layout]
      /\ inflight' = {Following(shown)} /\ switches' = switches + 1
      /\ UNCHANGED <<env, shown, stop, slow, ended, moved, typed>>
  BY DEF PressCombo, At, Correcting, Go, Following
<1>2. run.delays.layout \in Nat /\ run.strategy \in {"keys", "x11"}
  BY <1>1, RunFields DEF RunInv, RunInOrder
<1>3. /\ run' \in Runs
      /\ run'.pc = "settle" /\ run'.waited = run.waited + run.delays.layout
      /\ run'.plan = run.plan /\ run'.delays = run.delays
      /\ run'.switch = run.switch /\ run'.strategy = run.strategy
      /\ run'.from = run.from /\ run'.target = run.target
      /\ run'.erase * EraseCost' = run.erase * EraseCost
      /\ run'.type * TypeCost' = run.type * TypeCost
  BY <1>1, <1>2, GoType DEF Phases
<1>4. Following(shown) \in 0..(env.count - 1)
  BY FollowingType DEF Following, RunInv, RunTyped
<1>5. RunTyped' BY <1>1, <1>3, <1>4 DEF RunInv, RunTyped
<1>6. RunInOrder' BY <1>1, <1>2, <1>3 DEF RunInv, RunInOrder
<1>7. SwitchInOrder'
  <2>1. Before /\ ~Before' /\ Waiting' /\ Correcting'
    BY <1>1, <1>2, <1>3 DEF Before, Waiting, Correcting
  <2>2. moved' = moved /\ moved \in BOOLEAN BY <1>1 DEF RunInv, RunTyped
  <2>3. Following(run.from)' = Following(run.from) BY <1>1, <1>3 DEF Following
  <2> QED BY <1>1, <1>2, <1>3, <2>1, <2>2, <2>3
          DEF RunInv, SwitchInOrder, NotYetAsked, NeverAsked, OnItsWay, Made, AtRest, Untouched
<1>8. WithinSchedule'
  <2>1. SyncCost' = SyncCost /\ LayoutCost = run.delays.layout + LayoutCost'
    BY <1>1, <1>2, <1>3 DEF SyncCost, LayoutCost
  <2>2. LayoutCost' = run.delays.layout BY <1>2, <1>3 DEF LayoutCost
  <2>3. run'.waited + ToCome' = run.waited + ToCome
    BY <1>1, <1>2, <1>3, <2>1, <2>2, RunFields DEF ToCome
  <2> QED BY <1>1, <1>3, <2>3, SpendStep, RunFields
<1> QED BY <1>5, <1>6, <1>7, <1>8 DEF RunInv

\* A strategy of the X server that gives way to the keys, or goes on to ask.
LEMMA StayStep ==
    ASSUME RunInv, Correcting, run.strategy = "x11",
           run.pc \in {"groups", "current"}, NEW next \in {"combo", "current"},
           run' = [run EXCEPT !.pc = next, !.waited = @ + 0],
           UNCHANGED <<env, shown, inflight, slow, ended, moved, switches, typed>>
    PROVE  RunInv'
<1>4. /\ run' \in Runs
      /\ run'.pc = next /\ run'.waited = run.waited + 0
      /\ run'.plan = run.plan /\ run'.delays = run.delays
      /\ run'.switch = run.switch /\ run'.strategy = run.strategy
      /\ run'.from = run.from /\ run'.target = run.target
      /\ run'.erase * EraseCost' = run.erase * EraseCost
      /\ run'.type * TypeCost' = run.type * TypeCost
  BY GoType DEF Phases
<1>5. RunTyped' BY <1>4 DEF RunInv, RunTyped
<1>6. RunInOrder' BY <1>4 DEF RunInv, RunInOrder
<1>7. SwitchInOrder'
  <2>1. Before' /\ Before /\ ~Waiting' /\ Correcting'
    BY <1>4 DEF Before, Waiting, Correcting
  <2>2. moved' = moved /\ moved \in BOOLEAN BY DEF RunInv, RunTyped
  <2> QED BY <1>4, <2>1, <2>2
          DEF RunInv, SwitchInOrder, NotYetAsked, NeverAsked, OnItsWay, Made, AtRest, Untouched
<1>8. WithinSchedule'
  <2>1. SyncCost' = SyncCost /\ LayoutCost' = LayoutCost
    BY <1>4 DEF SyncCost, LayoutCost
  <2>2. run'.waited + ToCome' = run.waited + ToCome
    BY <1>4, <2>1, RunFields DEF ToCome
  <2> QED BY <1>4, <2>2, SpendStep, RunFields
<1> QED BY <1>5, <1>6, <1>7, <1>8 DEF RunInv

\* The number of groups (execute_x11_layout_switch).
LEMMA ReadGroupsStep == ASSUME RunInv, ReadGroups PROVE RunInv'
<1>1. /\ run.pc = "groups" /\ Correcting
      /\ UNCHANGED <<env, shown, inflight, slow, ended, moved, switches, typed>>
      /\ \E next \in {"combo", "current"} :
            run' = [run EXCEPT !.pc = next, !.waited = @ + 0]
  BY DEF ReadGroups, At, Correcting, Go, FallBack
<1>2. run.strategy = "x11" BY <1>1 DEF RunInv, RunInOrder
<1> QED BY <1>1, <1>2, StayStep

\* The current group: with a single one it is the target already.
LEMMA ReadCurrentStep == ASSUME RunInv, ReadCurrent PROVE RunInv'
<1>1. /\ run.pc = "current" /\ Correcting
      /\ UNCHANGED <<env, shown, inflight, slow, ended, moved, switches, typed>>
  BY DEF ReadCurrent, At, Correcting, FallBack
<1>2. run.strategy = "x11" BY <1>1 DEF RunInv, RunInOrder
<1>3. CASE FallBack
  <2>1. run' = [run EXCEPT !.pc = "combo", !.waited = @ + 0]
    BY <1>3 DEF FallBack, Go
  <2> QED BY <1>1, <1>2, <2>1, StayStep
<1>4. CASE run' = [run EXCEPT !.target = (shown + 1) % env.count,
                              !.pc = IF env.count <= 1 THEN "settle" ELSE "latch"]
  <2> DEFINE next == IF env.count <= 1 THEN "settle" ELSE "latch"
  <2>0. run' = [run EXCEPT !.target = Following(shown), !.pc = next]
    BY <1>4 DEF Following
  <2>1. /\ env.count \in 1..2 /\ shown \in 0..(env.count - 1)
        /\ Following(shown) \in 0..(env.count - 1)
    BY FollowingType DEF Following, RunInv, RunTyped
  <2>10. Following(shown) \in Nat BY <2>1
  <2>2. next \in {"settle", "latch"} OBVIOUS
  <2>3. next = "settle" => env.count = 1 BY <2>1
  <2> HIDE DEF next
  <2>4. run \in Runs BY <1>1, RunFields
  <2>5. /\ run' \in Runs
        /\ run'.pc = next /\ run'.waited = run.waited
        /\ run'.plan = run.plan /\ run'.delays = run.delays
        /\ run'.switch = run.switch /\ run'.strategy = run.strategy
        /\ run'.from = run.from /\ run'.target = Following(shown)
        /\ run'.erase = run.erase /\ run'.type = run.type
    BY <2>0, <2>2, <2>4, <2>10 DEF Runs, Phases
  <2>6. RunTyped' BY <1>1, <2>5 DEF RunInv, RunTyped
  <2>7. RunInOrder' BY <1>1, <1>2, <2>1, <2>2, <2>5 DEF RunInv, RunInOrder
  <2>8. SwitchInOrder'
    <3>1. Before /\ Correcting' /\ (Before' <=> next = "latch") /\ (Waiting' <=> next = "settle")
      BY <1>1, <1>2, <2>2, <2>5 DEF Before, Waiting, Correcting
    <3>2. moved' = moved /\ moved \in BOOLEAN BY <1>1 DEF RunInv, RunTyped
    <3>3. Untouched /\ Untouched' /\ (moved \/ shown = run.from)
      BY <1>1, <3>1 DEF RunInv, SwitchInOrder, NotYetAsked, Untouched
    <3>4. Following(run.from)' = Following(run.from) BY <1>1, <2>5 DEF Following
    <3>5. NotYetAsked'
      BY <1>1, <2>2, <2>5, <3>1, <3>2, <3>3, <3>4 DEF NotYetAsked
    <3>6. OnItsWay'
      <4>1. next = "settle" => shown = Following(shown)
        <5> SUFFICES ASSUME next = "settle" PROVE shown = Following(shown) OBVIOUS
        <5>1. env.count = 1 BY <2>3
        <5> QED BY <2>1, <5>1
      <4>2. inflight' = {} /\ typed' = {} BY <1>1, <3>3 DEF Untouched
      <4> QED BY <1>1, <2>2, <2>5, <3>1, <3>2, <3>3, <3>4, <4>1, <4>2 DEF OnItsWay
    <3> QED BY <1>1, <1>2, <2>2, <2>5, <3>1, <3>3, <3>5, <3>6
        DEF SwitchInOrder, NeverAsked, Made, AtRest, Untouched
  <2>9. WithinSchedule'
    <3>1. SyncCost' = SyncCost /\ LayoutCost' \in Nat /\ LayoutCost' <= LayoutCost
      BY <1>1, <1>2, <2>2, <2>5, RunFields DEF SyncCost, LayoutCost
    <3>2. EraseCost' = EraseCost /\ TypeCost' = TypeCost
      BY <2>5 DEF EraseCost, TypeCost
    <3>3. /\ run'.erase * EraseCost' = run.erase * EraseCost
          /\ run'.type * TypeCost' = run.type * TypeCost
      BY <2>5, <3>2
    <3>4. /\ run'.waited + ToCome' <= run.waited + ToCome
          /\ run'.waited + ToCome' \in Nat
      BY <1>1, <2>5, <3>1, <3>3, RunFields DEF ToCome
    <3>5. run'.pc \notin {"target", "activate", "verify"} BY <2>2, <2>5
    <3> QED BY <1>1, <2>5, <3>4, <3>5, SpendStep, RunFields
  <2> QED BY <2>6, <2>7, <2>8, <2>9 DEF RunInv
<1> QED BY <1>3, <1>4 DEF ReadCurrent

\* The request, sent at most once.
LEMMA LatchStep == ASSUME RunInv, Latch PROVE RunInv'
<1>1. /\ run.pc = "latch" /\ Correcting /\ switches' = switches + 1
      /\ UNCHANGED <<env, shown, moved, typed>>
  BY DEF Latch, At, Correcting
<1>2. run.strategy = "x11" BY <1>1 DEF RunInv, RunInOrder
<1>3. Before /\ Untouched
  BY <1>1, <1>2 DEF Before, RunInv, SwitchInOrder, NotYetAsked
<1>4. CASE Fails /\ inflight' \in {inflight, {run.target}}
  <2>1. run.target \in 0..(env.count - 1) /\ inflight \subseteq 0..(env.count - 1)
    BY <1>1 DEF RunInv, RunInOrder, RunTyped
  <2>2. End("failed") BY <1>4 DEF Fails
  <2>3. switches' = 1 BY <1>1, <1>3 DEF Untouched
  <2> QED BY <1>1, <1>4, <2>1, <2>2, <2>3, EndStep
<1>5. CASE inflight' = {run.target} /\ run' = [run EXCEPT !.pc = "settle", !.waited = @ + 0]
           /\ UNCHANGED <<stop, slow, ended, events>>
  <2>1. /\ run' \in Runs
        /\ run'.pc = "settle" /\ run'.waited = run.waited + 0
        /\ run'.plan = run.plan /\ run'.delays = run.delays
        /\ run'.switch = run.switch /\ run'.strategy = run.strategy
        /\ run'.from = run.from /\ run'.target = run.target
        /\ run'.erase * EraseCost' = run.erase * EraseCost
        /\ run'.type * TypeCost' = run.type * TypeCost
    BY <1>1, <1>5, GoType DEF Phases
  <2>2. run.target \in 0..(env.count - 1)
    BY <1>1 DEF RunInv, RunInOrder
  <2>3. RunTyped' BY <1>1, <1>5, <2>1, <2>2 DEF RunInv, RunTyped
  <2>4. RunInOrder' BY <1>1, <1>2, <2>1 DEF RunInv, RunInOrder
  <2>5. SwitchInOrder'
    <3>1. ~Before' /\ Waiting' /\ Correcting'
      BY <1>1, <1>2, <2>1 DEF Before, Waiting, Correcting
    <3>2. moved' = moved /\ moved \in BOOLEAN BY <1>1 DEF RunInv, RunTyped
    <3>3. Following(run.from)' = Following(run.from) BY <1>1, <2>1 DEF Following
    <3> QED BY <1>1, <1>2, <1>3, <1>5, <2>1, <3>1, <3>2, <3>3
            DEF RunInv, SwitchInOrder, NotYetAsked, NeverAsked, OnItsWay, Made, AtRest, Untouched
  <2>6. WithinSchedule'
    <3>1. /\ SyncCost' = SyncCost /\ LayoutCost' = run.delays.layout
          /\ LayoutCost = 2 * run.delays.layout
      BY <1>1, <1>2, <2>1 DEF SyncCost, LayoutCost
    <3>2. /\ run'.waited + ToCome' <= run.waited + ToCome
          /\ run'.waited + ToCome' \in Nat
      BY <1>1, <2>1, <3>1, RunFields DEF ToCome
    <3> QED BY <1>1, <1>5, <2>1, <3>2, SpendStep, RunFields
  <2> QED BY <2>3, <2>4, <2>5, <2>6 DEF RunInv
<1> QED BY <1>4, <1>5 DEF Latch, Go

\* The layout delay, over which the desktop switches.
LEMMA SettleStep == ASSUME RunInv, Settle PROVE RunInv'
<1>1. /\ run.pc = "settle" /\ Correcting /\ inflight = {}
      /\ run' = [run EXCEPT !.pc = "type", !.waited = @ + run.delays.layout]
      /\ UNCHANGED <<env, shown, inflight, stop, slow, ended, moved, switches, typed>>
  BY DEF Settle, At, Correcting, Go
<1>2. run.delays.layout \in Nat /\ run.strategy \in {"keys", "x11"}
  BY <1>1, RunFields DEF RunInv, RunInOrder
<1>3. /\ run' \in Runs
      /\ run'.pc = "type" /\ run'.waited = run.waited + run.delays.layout
      /\ run'.plan = run.plan /\ run'.delays = run.delays
      /\ run'.switch = run.switch /\ run'.strategy = run.strategy
      /\ run'.from = run.from /\ run'.target = run.target
      /\ run'.erase * EraseCost' = run.erase * EraseCost
      /\ run'.type * TypeCost' = run.type * TypeCost
  BY <1>1, <1>2, GoType DEF Phases
<1>5. RunTyped' BY <1>1, <1>3 DEF RunInv, RunTyped
<1>6. RunInOrder' BY <1>1, <1>2, <1>3 DEF RunInv, RunInOrder
<1>7. SwitchInOrder'
  <2>1. Waiting /\ ~Before' /\ ~Waiting' /\ Correcting'
    BY <1>1, <1>2, <1>3 DEF Before, Waiting, Correcting
  <2>2. moved' = moved /\ moved \in BOOLEAN BY <1>1 DEF RunInv, RunTyped
  <2>3. Following(run.from)' = Following(run.from) BY <1>1, <1>3 DEF Following
  <2> QED BY <1>1, <1>2, <1>3, <2>1, <2>2, <2>3
          DEF RunInv, SwitchInOrder, NotYetAsked, NeverAsked, OnItsWay, Made, AtRest, Untouched
<1>8. WithinSchedule'
  <2>1. SyncCost' = SyncCost /\ LayoutCost = run.delays.layout /\ LayoutCost' = 0
    BY <1>1, <1>2, <1>3 DEF SyncCost, LayoutCost
  <2>2. run'.waited + ToCome' = run.waited + ToCome
    BY <1>1, <1>2, <1>3, <2>1, RunFields DEF ToCome
  <2> QED BY <1>1, <1>3, <2>2, SpendStep, RunFields
<1> QED BY <1>5, <1>6, <1>7, <1>8 DEF RunInv

\* The target of the guardian (cinnamon_xkb_target_group).
LEMMA ReadTargetStep == ASSUME RunInv, ReadTarget PROVE RunInv'
<1>1. /\ run.pc = "target" /\ Correcting
      /\ UNCHANGED <<env, shown, inflight, moved, switches, typed>>
  BY DEF ReadTarget, At, Correcting
<1>2. run.strategy = "xkb" BY <1>1 DEF RunInv, RunInOrder
<1>3. CASE End("failed")
  <2>1. inflight \subseteq 0..(env.count - 1) /\ switches \in Nat /\ switches <= 1
    BY DEF RunInv, RunTyped, SwitchInOrder
  <2> QED BY <1>1, <1>3, <2>1, EndStep
<1>4. ASSUME NEW g \in TargetGroup, run' = [run EXCEPT !.pc = "activate", !.target = g],
             UNCHANGED <<stop, slow, ended, events>>
      PROVE  RunInv'
  <2>1. env.count = 2 /\ g = Following(shown) /\ shown \in 0..1
    BY DEF TargetGroup, Following, RunInv, RunTyped
  <2>2. g \in 0..1
    <3>1. CASE shown = 0 BY <2>1, <3>1 DEF Following
    <3>2. CASE shown = 1 BY <2>1, <3>2 DEF Following
    <3> QED BY <2>1, <3>1, <3>2
  <2>3. g \in Nat /\ run \in Runs BY <1>1, <2>2, RunFields
  <2>4. /\ run' \in Runs
        /\ run'.pc = "activate" /\ run'.waited = run.waited
        /\ run'.plan = run.plan /\ run'.delays = run.delays
        /\ run'.switch = run.switch /\ run'.strategy = run.strategy
        /\ run'.from = run.from /\ run'.target = g
        /\ run'.erase = run.erase /\ run'.type = run.type
    BY <1>4, <2>3 DEF Runs, Phases
  <2>5. RunTyped' BY <1>1, <1>4, <2>4 DEF RunInv, RunTyped
  <2>6. RunInOrder' BY <1>1, <1>2, <2>1, <2>2, <2>4 DEF RunInv, RunInOrder
  <2>7. SwitchInOrder'
    <3>1. Before /\ Before' /\ ~Waiting' /\ Correcting'
      BY <1>1, <1>2, <2>4 DEF Before, Waiting, Correcting
    <3>2. moved' = moved /\ moved \in BOOLEAN BY <1>1 DEF RunInv, RunTyped
    <3>3. Following(run.from)' = Following(run.from) BY <1>1, <2>4 DEF Following
    <3> QED BY <1>1, <1>2, <2>1, <2>4, <3>1, <3>2, <3>3
            DEF RunInv, SwitchInOrder, NotYetAsked, NeverAsked, OnItsWay, Made, AtRest, Untouched
  <2>8. WithinSchedule'
    <3>1. ToCome' = ToCome /\ Scheduled' = Scheduled
      BY <1>1, <1>2, <2>4
      DEF ToCome, SyncCost, LayoutCost, EraseCost, TypeCost, Scheduled, Schedule
    <3> QED BY <1>1, <1>4, <2>4, <3>1 DEF RunInv, WithinSchedule, Correcting
  <2> QED BY <2>5, <2>6, <2>7, <2>8 DEF RunInv
<1> QED BY <1>1, <1>3, <1>4 DEF ReadTarget, Fails

\* The request of the guardian.
LEMMA ActivateStep == ASSUME RunInv, Activate PROVE RunInv'
<1>1. /\ run.pc = "activate" /\ Correcting /\ switches' = switches + 1
      /\ UNCHANGED <<env, shown, moved, typed>>
  BY DEF Activate, At, Correcting
<1>2. run.strategy = "xkb" /\ run.target \in 0..(env.count - 1)
  BY <1>1 DEF RunInv, RunInOrder
<1>3. Before /\ Untouched
  BY <1>1, <1>2 DEF Before, RunInv, SwitchInOrder, NotYetAsked
<1>4. CASE Fails /\ inflight' \in {inflight, {run.target}}
  <2>1. inflight \subseteq 0..(env.count - 1)
    BY <1>1 DEF RunInv, RunTyped
  <2>2. End("failed") BY <1>4 DEF Fails
  <2>3. switches' = 1 BY <1>1, <1>3 DEF Untouched
  <2> QED BY <1>1, <1>2, <1>4, <2>1, <2>2, <2>3, EndStep
<1>5. CASE inflight' = {run.target} /\ run' = [run EXCEPT !.pc = "verify", !.started = Elapsed]
           /\ UNCHANGED <<stop, slow, ended, events>>
  <2>1. run \in Runs /\ run.waited = 0 /\ slow \in Nat /\ Elapsed = slow
    BY <1>1, RunFields DEF RunInv, RunTyped, WithinSchedule, Elapsed
  <2>2. /\ run' \in Runs
        /\ run'.pc = "verify" /\ run'.waited = 0 /\ run'.started = slow
        /\ run'.plan = run.plan /\ run'.delays = run.delays
        /\ run'.switch = run.switch /\ run'.strategy = run.strategy
        /\ run'.from = run.from /\ run'.target = run.target
        /\ run'.erase = run.erase /\ run'.type = run.type
    BY <1>5, <2>1 DEF Runs, Phases
  <2>3. RunTyped' BY <1>1, <1>2, <1>5, <2>2 DEF RunInv, RunTyped
  <2>4. RunInOrder' BY <1>1, <1>2, <2>2 DEF RunInv, RunInOrder
  <2>5. SwitchInOrder'
    <3>1. ~Before' /\ Waiting' /\ Correcting'
      BY <1>1, <1>2, <2>2 DEF Before, Waiting, Correcting
    <3>2. moved' = moved /\ moved \in BOOLEAN BY <1>1 DEF RunInv, RunTyped
    <3>3. Following(run.from)' = Following(run.from) BY <1>1, <2>2 DEF Following
    <3> QED BY <1>1, <1>2, <1>3, <1>5, <2>2, <3>1, <3>2, <3>3
            DEF RunInv, SwitchInOrder, NotYetAsked, NeverAsked, OnItsWay, Made, AtRest, Untouched
  <2>6. WithinSchedule'
    <3>1. ToCome' = ToCome /\ Scheduled' = Scheduled
      BY <1>1, <1>2, <2>2
      DEF ToCome, SyncCost, LayoutCost, EraseCost, TypeCost, Scheduled, Schedule
    <3>2. VerifyCost \in Nat BY DEF VerifyCost, SwitchTimeout, PollInterval
    <3> QED BY <1>1, <1>5, <2>1, <2>2, <3>1, <3>2 DEF RunInv, WithinSchedule, Correcting
  <2> QED BY <2>3, <2>4, <2>5, <2>6 DEF RunInv
<1> QED BY <1>4, <1>5 DEF Activate

\* The polls for its effect last SwitchTimeout and one interval at most.
LEMMA VerifyStep == ASSUME RunInv, Verify PROVE RunInv'
<1>1. /\ run.pc = "verify" /\ Correcting
      /\ UNCHANGED <<env, shown, inflight, moved, switches, typed>>
  BY DEF Verify, At, Correcting
<1>2. run.strategy = "xkb" BY <1>1 DEF RunInv, RunInOrder
<1>3. CASE End("failed")
  <2>1. inflight \subseteq 0..(env.count - 1) /\ switches \in Nat /\ switches <= 1
    BY DEF RunInv, RunTyped, SwitchInOrder
  <2> QED BY <1>1, <1>3, <2>1, EndStep
<1>4. ASSUME Elapsed - run.started < SwitchTimeout,
             IF shown = run.target THEN Go("sync", 0)
             ELSE Go("verify", PollInterval),
             UNCHANGED <<stop, slow, ended, events>>
      PROVE  RunInv'
  <2> DEFINE next == IF shown = run.target THEN "sync" ELSE "verify"
             wait == IF shown = run.target THEN 0 ELSE PollInterval
  <2>1. /\ run' = [run EXCEPT !.pc = next, !.waited = @ + wait]
        /\ wait \in 0..5 /\ next \in {"sync", "verify"}
        /\ next = "sync" => shown = run.target /\ wait = 0
        /\ wait \in Nat
    <3>1. CASE shown = run.target BY <1>4, <3>1 DEF Go
    <3>2. CASE shown # run.target BY <1>4, <3>2 DEF Go, PollInterval
    <3> QED BY <3>1, <3>2
  <2> HIDE DEF next, wait
  <2>2. /\ run' \in Runs
        /\ run'.pc = next /\ run'.waited = run.waited + wait
        /\ run'.plan = run.plan /\ run'.delays = run.delays
        /\ run'.switch = run.switch /\ run'.strategy = run.strategy
        /\ run'.from = run.from /\ run'.target = run.target
        /\ run'.erase * EraseCost' = run.erase * EraseCost
        /\ run'.type * TypeCost' = run.type * TypeCost
    BY <1>1, <2>1, GoType DEF Phases
  <2>3. run'.started = run.started
    BY <1>1, <2>1, RunFields DEF Runs
  <2>4. RunTyped' BY <1>1, <1>4, <2>2 DEF RunInv, RunTyped
  <2>5. RunInOrder' BY <1>1, <1>2, <2>1, <2>2 DEF RunInv, RunInOrder
  <2>6. SwitchInOrder'
    <3>1. /\ Waiting /\ ~Before' /\ Correcting' /\ (Waiting' <=> next = "verify")
      BY <1>1, <1>2, <2>1, <2>2 DEF Before, Waiting, Correcting
    <3>2. moved' = moved /\ moved \in BOOLEAN BY <1>1 DEF RunInv, RunTyped
    <3>3. Following(run.from)' = Following(run.from) BY <1>1, <2>2 DEF Following
    <3> QED BY <1>1, <1>2, <2>1, <2>2, <3>1, <3>2, <3>3
            DEF RunInv, SwitchInOrder, NotYetAsked, NeverAsked, OnItsWay, Made, AtRest, Untouched
  <2>7. WithinSchedule'
    <3>1. SyncCost' = 0 /\ LayoutCost' = 0 /\ SyncCost = 0 /\ LayoutCost = 0
      BY <1>1, <1>2, <2>2 DEF SyncCost, LayoutCost
    <3>2. ToCome' = ToCome
      BY <2>2, <3>1 DEF ToCome
    <3>3. Scheduled' = Scheduled BY <2>2 DEF Scheduled, Schedule
    <3>4. /\ run.started <= slow /\ slow \in Nat /\ run.started \in Nat
          /\ run.waited \in Nat /\ ToCome <= Scheduled
      BY <1>1, RunFields DEF RunInv, RunTyped, WithinSchedule, Runs
    <3>5. run.waited < 350
      BY <1>4, <3>4 DEF Elapsed, SwitchTimeout
    <3>6. run'.waited <= VerifyCost /\ VerifyCost = 355
      BY <2>1, <2>2, <3>4, <3>5 DEF VerifyCost, SwitchTimeout, PollInterval
    <3>7. ToCome \in Nat /\ Scheduled \in Nat /\ run'.waited \in Nat
      BY <1>1, <2>1, <2>2, RunFields
    <3>8. run'.waited + ToCome' <= Scheduled' + VerifyCost
      BY <3>2, <3>3, <3>4, <3>6, <3>7
    <3> QED BY <1>1, <1>2, <1>4, <2>1, <2>2, <2>3, <3>2, <3>3, <3>4, <3>6, <3>8
        DEF RunInv, WithinSchedule
  <2> QED BY <2>4, <2>5, <2>6, <2>7 DEF RunInv
<1> QED BY <1>1, <1>3, <1>4 DEF Verify, Fails

\* A stroke (replay_synthetic_stroke).
LEMMA TypeStrokeStep == ASSUME RunInv, TypeStroke PROVE RunInv'
<1> DEFINE wait == KeyTap + run.delays.typing
                   + (IF run.type <= run.plan.shifted THEN ShiftSettle ELSE 0)
<1>1. /\ run.pc = "type" /\ Correcting /\ run.type > 0
      /\ run' = [run EXCEPT !.type = @ - 1,
                   !.waited = @ + KeyTap + run.delays.typing
                              + (IF run.type <= run.plan.shifted THEN ShiftSettle ELSE 0)]
      /\ typed' = typed \cup {shown}
      /\ UNCHANGED <<env, shown, inflight, stop, slow, ended, moved, switches>>
  BY DEF TypeStroke, At, Correcting
<1>2. run \in Runs /\ run.waited \in Nat /\ run.type \in Nat /\ run.delays.typing \in Nat
  BY <1>1, RunFields, RunAssumption DEF Runs
<1>3. run.type - 1 \in Nat /\ wait \in Nat /\ wait <= TypeCost
  BY <1>1, <1>2 DEF TypeCost, KeyTap, ShiftSettle
<1>4. run' = [run EXCEPT !.type = run.type - 1, !.waited = run.waited + wait]
  <2> DEFINE settle == IF run.type <= run.plan.shifted THEN ShiftSettle ELSE 0
  <2>1. settle \in Nat BY DEF ShiftSettle
  <2> HIDE DEF settle
  <2>2. run.waited + KeyTap + run.delays.typing + settle
        = run.waited + (KeyTap + run.delays.typing + settle)
    BY <1>2, <2>1 DEF KeyTap
  <2>3. run' = [run EXCEPT !.type = run.type - 1,
                  !.waited = run.waited + KeyTap + run.delays.typing + settle]
    BY <1>1, <1>2 DEF Runs, settle
  <2> QED BY <2>2, <2>3 DEF settle
<1> HIDE DEF wait
<1>5. run.waited + wait \in Nat BY <1>2, <1>3
<1>6. /\ run' \in Runs /\ run'.pc = "type"
      /\ run'.plan = run.plan /\ run'.delays = run.delays
      /\ run'.switch = run.switch /\ run'.strategy = run.strategy
      /\ run'.from = run.from /\ run'.target = run.target
      /\ run'.erase = run.erase /\ run'.type = run.type - 1
      /\ run'.waited = run.waited + wait
  <2>1. run.type - 1 \in Nat BY <1>3
  <2> QED BY <1>1, <1>2, <1>4, <1>5, <2>1 DEF Runs
<1>7. RunTyped' BY <1>1, <1>6 DEF RunInv, RunTyped
<1>8. RunInOrder' BY <1>1, <1>6 DEF RunInv, RunInOrder
<1>9. SwitchInOrder'
  <2>1. ~Before /\ ~Before' /\ ~Waiting /\ ~Waiting' /\ Correcting'
    BY <1>1, <1>6 DEF Before, Waiting, Correcting
  <2>2. moved' = moved /\ moved \in BOOLEAN BY <1>1 DEF RunInv, RunTyped
  <2>3. Following(run.from)' = Following(run.from) BY <1>1, <1>6 DEF Following
  <2> QED BY <1>1, <1>6, <2>1, <2>2, <2>3
          DEF RunInv, SwitchInOrder, NotYetAsked, NeverAsked, OnItsWay, Made, AtRest, Untouched
<1>10. WithinSchedule'
  <2>1. EraseCost' = EraseCost /\ TypeCost' = TypeCost
    BY <1>6 DEF EraseCost, TypeCost
  <2>2. run'.type * TypeCost' = run.type * TypeCost - TypeCost
    BY <1>1, <1>6, <2>1, OneLess, RunFields
  <2>3. run'.erase * EraseCost' = run.erase * EraseCost
    BY <1>6, <2>1
  <2>4. SyncCost' = SyncCost /\ LayoutCost' = LayoutCost
    BY <1>1, <1>6 DEF SyncCost, LayoutCost
  <2>5. run'.type * TypeCost' \in Nat
    BY <1>2, <1>3, <1>6, <2>1, RunFields, <1>1
  <2>6. /\ run'.waited + ToCome' <= run.waited + ToCome
        /\ run'.waited + ToCome' \in Nat
    BY <1>1, <1>3, <1>6, <2>2, <2>3, <2>4, <2>5, RunFields DEF ToCome
  <2> QED BY <1>1, <1>6, <2>6, SpendStep, RunFields
<1> QED BY <1>7, <1>8, <1>9, <1>10 DEF RunInv

\* The end of a correction, and of one that a check finds stopped.
LEMMA EndsStep == ASSUME RunInv, FinishRun \/ CheckFails PROVE RunInv'
<1>1. inflight \subseteq 0..(env.count - 1) /\ switches \in Nat /\ switches <= 1
  BY DEF RunInv, RunTyped, SwitchInOrder
<1>2. CASE FinishRun BY <1>1, <1>2, EndStep DEF FinishRun
<1>3. CASE CheckFails
  <2> DEFINE how == CASE stop = "cancel" -> "cancelled"
                      [] stop = "abort" -> "failed"
                      [] OTHER -> "expired"
  <2>1. how \notin {"none", "refused"} OBVIOUS
  <2>2. End(how) BY <1>3 DEF CheckFails
  <2> HIDE DEF how
  <2> QED BY <1>1, <1>3, <2>1, <2>2, EndStep DEF CheckFails
<1> QED BY <1>2, <1>3

\* The desktop, the user and the other threads.
LEMMA AroundStep ==
    ASSUME RunInv,
           \/ DesktopSwitches \/ UserSwitches
           \/ SlowCall \/ RequestStop
    PROVE  RunInv'
<1>1. /\ env' = env /\ run' = run /\ ended' = ended /\ switches' = switches
      /\ typed' = typed /\ (Correcting' <=> Correcting)
  BY DEF DesktopSwitches, UserSwitches, SlowCall, RequestStop, Correcting
<1>2. /\ inflight' \subseteq inflight
      /\ shown' \in 0..(env.count - 1)
      /\ moved' \in BOOLEAN /\ (moved => moved')
      /\ shown' = shown \/ shown' \in inflight \/ (moved' /\ Correcting)
      /\ moved' = moved \/ (moved' /\ Correcting)
      /\ inflight' = inflight \/ shown' \in inflight
      /\ shown' = shown \/ inflight' = {} \/ moved'
  <2>1. moved \in BOOLEAN /\ shown \in 0..(env.count - 1) /\ inflight \subseteq 0..(env.count - 1)
    BY DEF RunInv, RunTyped
  <2>2. CASE DesktopSwitches BY <2>1, <2>2 DEF DesktopSwitches
  <2>3. CASE UserSwitches BY <2>1, <2>3 DEF UserSwitches
  <2>4. CASE SlowCall BY <2>1, <2>4 DEF SlowCall
  <2>5. CASE RequestStop BY <2>1, <2>5 DEF RequestStop
  <2> QED BY <2>2, <2>3, <2>4, <2>5
<1>3. slow' \in Nat /\ slow' >= slow
  BY RunAssumption
     DEF DesktopSwitches, UserSwitches, SlowCall, RequestStop, RunInv, RunTyped
<1>4. RunTyped' BY <1>1, <1>2, <1>3 DEF RunInv, RunTyped, Idle
<1>5. RunInOrder' BY <1>1 DEF RunInv, RunInOrder
<1>6. SwitchInOrder'
  <2>1. (Before' <=> Before) /\ (Waiting' <=> Waiting) BY <1>1 DEF Before, Waiting
  <2>2. Following(run.from)' = Following(run.from) BY <1>1 DEF Following
  <2> QED BY <1>1, <1>2, <2>1, <2>2
          DEF RunInv, SwitchInOrder, NotYetAsked, NeverAsked, OnItsWay, Made, AtRest, Untouched
<1>7. WithinSchedule'
  <2>1. ToCome' = ToCome /\ Scheduled' = Scheduled
    BY <1>1 DEF ToCome, SyncCost, LayoutCost, EraseCost, TypeCost, Scheduled, Schedule
  <2>2. Correcting => run.started \in Nat BY RunFields DEF Runs
  <2>3. slow \in Nat BY DEF RunInv, RunTyped
  <2> QED BY <1>1, <1>3, <2>1, <2>2, <2>3 DEF RunInv, WithinSchedule
<1> QED BY <1>4, <1>5, <1>6, <1>7 DEF RunInv

\* Every step keeps the invariant.
LEMMA RunStep ==
    ASSUME RunInv, [RunNext]_runVars PROVE RunInv'
<1>1. CASE UNCHANGED runVars
  <2> USE DEF runVars
  <2>1. RunTyped' /\ RunInOrder'
    BY <1>1 DEF RunInv, RunTyped, RunInOrder, Correcting, Idle
  <2>2. SwitchInOrder'
    BY <1>1 DEF RunInv, SwitchInOrder, NotYetAsked, NeverAsked, OnItsWay, Made, AtRest, Untouched,
       Before, Waiting, Following, Correcting
  <2>3. WithinSchedule'
    <3>1. ToCome' = ToCome /\ Scheduled' = Scheduled
      BY <1>1 DEF ToCome, SyncCost, LayoutCost, EraseCost, TypeCost, Scheduled, Schedule
    <3> QED BY <1>1, <3>1 DEF RunInv, WithinSchedule, Correcting
  <2> QED BY <2>1, <2>2, <2>3 DEF RunInv
<1>2. CASE RunNext
  BY <1>2, BeginStep, ReleaseModifiersStep, EraseStep, ErasedStep, PressComboStep,
     ReadGroupsStep, ReadCurrentStep, LatchStep, SettleStep, ReadTargetStep, ActivateStep,
     VerifyStep, TypeStrokeStep, EndsStep, AroundStep DEF RunNext, Correct
<1> QED BY <1>1, <1>2

\* The invariant holds in every behaviour.
LEMMA RunInvariant == RunSpec => []RunInv
<1>1. RunInit => RunInv BY RunBegins
<1>2. RunInv /\ [RunNext]_runVars => RunInv' BY RunStep
<1> QED BY <1>1, <1>2, PTL DEF RunSpec

\* The word is typed again in the next layout when one is switched to and in the
\* layout it was typed in otherwise, unless the user switched meanwhile, and the
\* desktop is asked for at most one switch, for every plan, every delay and any
\* number of failures (run_correction, switch_layout_with_synthetic_operation).
THEOREM CorrectedInTheRightLayout == RunSpec => []TypedInTheRightLayout
<1>1. RunInv => TypedInTheRightLayout
  <2> SUFFICES ASSUME RunInv PROVE TypedInTheRightLayout OBVIOUS
  <2>1. switches <= 1 BY DEF RunInv, SwitchInOrder
  <2>2. ASSUME Correcting, ~moved
        PROVE  typed \subseteq {IF run.switch THEN (run.from + 1) % env.count ELSE run.from}
    <3>1. run.switch <=> run.strategy # "none" BY <2>2 DEF RunInv, RunInOrder
    <3>2. CASE run.strategy = "none"
      BY <2>2, <3>1, <3>2 DEF RunInv, SwitchInOrder, NeverAsked
    <3>3. CASE run.strategy # "none"
      BY <2>2, <3>1, <3>3
      DEF RunInv, SwitchInOrder, NotYetAsked, Untouched, OnItsWay, Made, Following
    <3> QED BY <3>2, <3>3
  <2> QED BY <2>1, <2>2 DEF TypedInTheRightLayout
<1> QED BY RunInvariant, <1>1, PTL

\* The deadline allows for every pause of the correction, so that one expires only
\* when the calls took more than the grace, less what the guardian may wait for
\* the switch, and no plan within the limits is refused
\* (estimated_correction_schedule_ms, AppConfig::validate).
THEOREM DeadlineCoversThePauses == RunSpec => []ScheduleIsEnough
<1>1. RunInv => ScheduleIsEnough
  <2> SUFFICES ASSUME RunInv PROVE ScheduleIsEnough OBVIOUS
  <2>1. ended = "refused" =>
          \E p \in Plans : p.strokes > MaxStrokes \/ p.extra > MaxExtra
    BY DEF RunInv, WithinSchedule, MaxStrokes, MaxExtra
  <2>2. ASSUME Correcting, Expired
        PROVE  slow > BackendGrace - (IF run.strategy = "xkb"
                                          THEN SwitchTimeout + PollInterval ELSE 0)
    <3>1. /\ run.waited + ToCome <= Scheduled + (IF run.strategy = "xkb" THEN VerifyCost ELSE 0)
          /\ ToCome \in Nat /\ Scheduled \in Nat /\ run.waited \in Nat /\ slow \in Nat
      BY <2>2, RunFields DEF RunInv, WithinSchedule, RunTyped
    <3>2. run.waited + slow > Scheduled + 1000
      BY <2>2 DEF Expired, Elapsed, Timeout, BackendGrace, Scheduled
    <3> QED BY <3>1, <3>2 DEF VerifyCost, BackendGrace, SwitchTimeout, PollInterval
  <2> QED BY <2>1, <2>2 DEF ScheduleIsEnough
<1> QED BY RunInvariant, <1>1, PTL

=============================================================================
