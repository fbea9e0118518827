------------------------ MODULE LayoutRuntimeProofs ------------------------
(***************************************************************************)
(* Proofs about LayoutRuntime: a layout a decision may be based on was     *)
(* really shown after the last invalidation, and an authorisation names    *)
(* the layout and the setup it was given for.                              *)
(***************************************************************************)
EXTENDS LayoutRuntime, FiniteSetTheorems, TLAPS

(***************************************************************************)
(* The inductive invariant.                                                *)
(***************************************************************************)

\* What detection can answer: nothing, or a list with no code twice and
\* exactly one English and one Russian layout.
Classified(s) ==
    /\ IsInjective(s)
    /\ Cardinality(Positions(s, "English")) = 1
    /\ Cardinality(Positions(s, "Russian")) = 1

Detections == {Unsupported} \cup {s \in Setups : Classified(s)}

Phases == {"wait", "detect", "apply", "announce", "observe", "mru", "sync", "publish"}

Round == [pc : Phases, before : Nat, detected : Setups \cup {Unsupported},
          then : {"observe", "mru"}, read : Setups \cup {Unsupported},
          observed : BOOLEAN, raw : States]

Plan == [auth : [generation : Nat, epoch : Nat], layout : States]

\* The types of all variables the safety properties read.
Types ==
    /\ TypeOK /\ c \in Round /\ pending \in Plan \cup {None}
    /\ changed \in [copy : BOOLEAN, plan : BOOLEAN]

\* The setup in force and those on their way to it were classified; the LED is
\* read only where the layout can be detected.
SetupsAreClassified ==
    /\ setup \in Detections /\ cached \in Detections /\ c.detected \in Detections
    /\ ~Detectable(context) => cached = Unsupported

\* Where a round stands: what is kept from one phase to the next.
RoundInOrder ==
    /\ c.pc = "wait" => c.then = "observe" /\ ~c.observed
    /\ c.pc = "mru" \/ c.then = "mru" => IsGnomeWayland(context)
    /\ c.observed => c.pc \in {"sync", "publish"}
    /\ c.pc = "publish" => c.observed
    /\ c.pc = "publish" /\ ~Detectable(context) => c.raw = Unknown

\* No epoch is ahead of the current one.
EpochsBehind ==
    /\ c.before <= epoch
    /\ published.epoch <= epoch /\ adopted.epoch <= epoch

\* How a reading p of the desktop shows in context ctx: X11 tells the number
\* of the group, which the setup names, GNOME the source.
ReadAs(ctx, p) ==
    IF IsX11(ctx) THEN FromGroup(setup, p[1], Len(setup)) ELSE KindOf(p[2])

WasShown(layout, ctx) == \E p \in since : layout = ReadAs(ctx, p)

\* What the desktop shows now belongs to its history, and what a round that
\* is not void has observed was shown.
ObservationWasShown ==
    /\ <<group, sources[group]>> \in since
    /\ (/\ c.observed /\ StillCurrent /\ Detectable(context)
        /\ observation \notin {None, Unknown})
       => WasShown(observation, context)

\* A fresh snapshot tells what was shown, for the setup in force.
SnapshotWasShown ==
    \A s \in {published, adopted} :
      Fresh(s) => WasShown(s.layout, s.under) /\ s.manual = ManualWordFix(setup)

\* The generations only grow on their way from the publication over the copy
\* to the plan, and at the same generation the layout is the same.
GenerationsInOrder ==
    /\ adopted.generation <= published.generation
    /\ adopted.generation = published.generation => adopted.layout = published.layout
    /\ pending # None =>
         /\ pending.auth.generation <= adopted.generation
         /\ pending.auth.generation = adopted.generation => pending.layout = adopted.layout

\* Whatever replaced a layout or a setup since the copy was taken, or since the
\* copy of the plan was, shows in a generation or an epoch that went on.
ChangesAreNoticed ==
    /\ changed.copy =>
         adopted.generation < published.generation \/ adopted.epoch < epoch
    /\ pending # None => pending.auth.epoch <= epoch
    /\ changed.plan =>
         /\ pending.auth \in [generation : Nat, epoch : Nat]
         /\ \/ pending.auth.generation < published.generation
            \/ pending.auth.epoch < epoch

IInv ==
    /\ Types /\ SetupsAreClassified /\ RoundInOrder /\ EpochsBehind
    /\ ObservationWasShown /\ SnapshotWasShown /\ GenerationsInOrder
    /\ ChangesAreNoticed

-----------------------------------------------------------------------------
(* The operators.                                                          *)

\* Every code is of some kind, as system_layout sorts it.
LEMMA KindOfType == \A code : KindOf(code) \in Kinds
  BY DEF KindOf, Kinds

LEMMA ManualWordFixType == \A s : ManualWordFix(s) \in BOOLEAN
  BY DEF ManualWordFix

\* What is read of the desktop is a state of the layout.
LEMMA ReadingType ==
    /\ \A s, g, n : FromGroup(s, g, n) \in States
    /\ \A s, code : FromSources(s, code) \in States
  BY KindOfType DEF FromGroup, FromSources, States, Unknown

\* Detection answers nothing or a pair that it classified, whatever the desktop
\* is set up with, and nothing at all where the layout cannot be read.
LEMMA DetectionType ==
    ASSUME NEW ctx, NEW s \in Setups
    PROVE  /\ Detect(ctx, s) \in Detections
           /\ DetectGnome(s) \in Detections
           /\ ~Detectable(ctx) => Detect(ctx, s) = Unsupported
  BY DEF Detect, DetectX11, DetectGnome, Classify, Classified, Detections,
         Detectable, IsX11, IsGnomeWayland

\* A late system context never takes away that the layout can be read.
LEMMA UpgradeKeepsDetectable ==
    ASSUME NEW now, NEW new, LateUpgrade(now, new), Detectable(now)
    PROVE  Detectable(new)
  BY DEF LateUpgrade, StaleX11, Preserves, Detectable, IsX11, IsGnomeWayland, Fields

\* A setup of two layouts that was classified is one English and one Russian.
LEMMA PairIsEnglishAndRussian ==
    ASSUME NEW s \in Detections, ManualWordFix(s)
    PROVE  Len(s) = 2 /\ {KindOf(code) : code \in Range(s)} = {"English", "Russian"}
<1>1. /\ s # Unsupported /\ Len(s) = 2
      /\ s \in Setups /\ Classified(s)
  <2>1. s # Unsupported
    BY DEF ManualWordFix, Compatibility, Unsupported
  <2>2. Len(s) = 2
    BY <2>1 DEF ManualWordFix, Compatibility
  <2> QED BY <2>1, <2>2 DEF Detections
<1>2. s \in Seq(Codes) /\ DOMAIN s = {1, 2}
  BY <1>1, ConstantsAssumption
<1>3. \A kind \in {"English", "Russian"} :
        \E i \in {1, 2} : Positions(s, kind) = {i}
  <2> TAKE kind \in {"English", "Russian"}
  <2>1. Positions(s, kind) \subseteq 1..2
    BY <1>1 DEF Positions
  <2>2. IsFiniteSet(Positions(s, kind))
    <3>1. IsFiniteSet(1..2)
      BY 1 \in Int, 2 \in Int, FS_Interval
    <3> QED BY <2>1, <3>1, FS_Subset
  <2>3. PICK i : Positions(s, kind) = {i}
    BY <1>1, <2>2, FS_Singleton DEF Classified
  <2> QED BY <2>1, <2>3
<1>4. /\ \E i \in {1, 2} : KindOf(s[i]) = "English"
      /\ \E i \in {1, 2} : KindOf(s[i]) = "Russian"
  BY <1>1, <1>3 DEF Positions
<1>5. {KindOf(code) : code \in Range(s)} = {KindOf(s[1]), KindOf(s[2])}
  BY <1>2 DEF Range
<1> QED BY <1>1, <1>4, <1>5

-----------------------------------------------------------------------------
(* Types.                                                                  *)

LEMMA InitTypes == Init => Types
<1> SUFFICES ASSUME Init PROVE Types
  OBVIOUS
<1>1. sources \in Setups /\ Len(sources) \in Nat \ {0}
  BY ConstantsAssumption DEF Init
<1>2. setup \in Setups \cup {Unsupported}
  BY <1>1 DEF Init, InitialSetup, Detect, DetectX11, DetectGnome, Classify
<1>3. published \in Snapshot /\ adopted \in Snapshot
  <2>1. InitialSnapshot \in Snapshot
    BY DEF Init, InitialSnapshot, Snapshot, ManualWordFix, States, Unknown
  <2> QED BY <2>1 DEF Init
<1>4. c \in Round
  BY DEF Init, IdleCoordinator, Round, Phases, States, Unknown, Unsupported
<1> QED
  BY <1>1, <1>2, <1>3, <1>4 DEF Types, TypeOK, Init, InitialSetup

\* Every step keeps the types.
LEMMA NextTypes == Types /\ [Next]_vars => Types'
<1> SUFFICES ASSUME Types, [Next]_vars PROVE Types'
  OBVIOUS
<1> USE DEF Types, TypeOK, world, known, plan, CoordinatorTurn
<1>1. CASE Wake
  BY <1>1 DEF Wake, RefreshContext, ReadFails, Round, Phases
<1>2. CASE DetectSetup
  <2>1. Detect(context, sources) \in Setups \cup {Unsupported}
    BY DEF Detect, DetectX11, DetectGnome, Classify
  <2>2. cached' \in Setups \cup {Unsupported} /\ retry' \in {"never", "later", "now"}
    BY <1>2, <2>1 DEF DetectSetup, Failed
  <2>3. c' \in Round
    BY <1>2, <2>1, <2>2 DEF DetectSetup, Round, Phases, Goto
  <2> QED
    BY <1>2, <2>2, <2>3 DEF DetectSetup
<1>3. CASE ApplySetup
  <2>1. c' \in Round
    BY <1>3 DEF ApplySetup, Round, Phases
  <2>2. setup' \in Setups \cup {Unsupported} /\ epoch' \in Nat
    BY <1>3 DEF ApplySetup, Round, Advance
  <2>3. retry' \in {"never", "later", "now"}
    BY <1>3 DEF ApplySetup, RecordRetry, PendingAt, Failed
  <2> QED
    BY <1>3, <2>1, <2>2, <2>3 DEF ApplySetup, Remember
<1>4. CASE AnnounceSetup
  <2>1. c' \in Round
    BY <1>4 DEF AnnounceSetup, Round, Phases, Goto
  <2>2. published' \in Snapshot
    <3> DEFINE manual == ManualWordFix(setup)
               generation == published.generation + 1
    <3>1. published' = [published EXCEPT !.manual = manual, !.layout = Unknown,
                                         !.fresh = FALSE, !.generation = generation]
      BY <1>4 DEF AnnounceSetup
    <3>2. manual \in BOOLEAN /\ generation \in Nat
      BY ManualWordFixType DEF Snapshot
    <3> HIDE DEF manual, generation
    <3> QED BY <3>1, <3>2 DEF Snapshot, States
  <2> QED
    BY <1>4, <2>1, <2>2 DEF AnnounceSetup, Remember
<1>5. CASE ObserveX11
  <2>1. c' \in Round
    BY <1>5 DEF ObserveX11, Round, Phases
  <2>2. observation' \in States \cup {None} /\ retry' \in {"never", "later", "now"}
    BY <1>5, ReadingType DEF ObserveX11, UpdateObservation, X11LayoutState
  <2> QED
    BY <1>5, <2>1, <2>2 DEF ObserveX11
<1>6. CASE ObserveSources
  <2>1. DetectGnome(sources) \in Setups \cup {Unsupported}
    BY DEF DetectGnome, Classify
  <2>2. c' \in Round
    BY <1>6, <2>1 DEF ObserveSources, Round, Phases
  <2> QED
    BY <1>6, <2>2 DEF ObserveSources
<1>7. CASE ObserveCurrentSource
  <2>1. c' \in Round
    BY <1>7 DEF ObserveCurrentSource, Round, Phases, Unsupported
  <2>2. observation' \in States \cup {None}
    BY <1>7, ReadingType DEF ObserveCurrentSource, UpdateObservation
  <2> QED
    BY <1>7, <2>1, <2>2 DEF ObserveCurrentSource
<1>8. CASE ObserveNothing
  BY <1>8 DEF ObserveNothing, Round, Phases, UpdateObservation
<1>9. CASE SyncWithBackend
  <2>1. IdleCoordinator \in Round
    BY DEF IdleCoordinator, Round, Phases, States
  <2>2. Led \in States
    BY DEF Led, States, Kinds
  <2>3. c' \in Round
    BY <1>9, <2>1, <2>2 DEF SyncWithBackend, EndRound, UpdateCache, Round, Phases
  <2> QED
    BY <1>9, <2>3 DEF SyncWithBackend
<1>10. CASE Publish
  <2>1. Effective(c.raw, observation, context) \in States
    BY DEF Effective, Round, States, Unknown
  <2>2. c' \in Round
    BY <1>10 DEF Publish, EndRound, IdleCoordinator, Round, Phases, States
  <2>3. published' \in Snapshot
    <3> DEFINE manual == ManualWordFix(setup)
               layout == Effective(c.raw, observation, context)
               generation == IF published.layout # layout
                             THEN published.generation + 1 ELSE published.generation
    <3>1. published' = [published EXCEPT
              !.layout = layout, !.manual = manual,
              !.epoch = c.before, !.fresh = TRUE, !.under = context,
              !.generation = generation]
      BY <1>10 DEF Publish
    <3>2. manual \in BOOLEAN /\ layout \in States /\ generation \in Nat
      BY <2>1, ManualWordFixType DEF Snapshot
    <3> HIDE DEF manual, layout, generation
    <3> QED BY <3>1, <3>2 DEF Snapshot, Round
  <2> QED
    BY <1>10, <2>2, <2>3 DEF Publish, Remember
<1>11. CASE RetryElapses
  BY <1>11 DEF RetryElapses
<1>12. CASE Invalidate \/ InvalidateForced
  BY <1>12 DEF Invalidate, InvalidateForced, InvalidateLayout, Advance
<1>13. CASE ForceRedetection
  BY <1>13 DEF ForceRedetection
<1>14. CASE Adopt \/ PublishStatus
  BY <1>14 DEF Adopt, PublishStatus, InputTurn, AdoptedNext, CopyChanged
<1>15. CASE Evaluate
  BY <1>15 DEF Evaluate, InputTurn, Authorization, Plan, Snapshot
<1>16. CASE FinishPending
  BY <1>16 DEF FinishPending, InputTurn, AdoptedNext, CopyChanged
<1>17. CASE SwitchLayout \/ Reconfigure \/ SessionSettles
  BY <1>17 DEF SwitchLayout, Reconfigure, SessionSettles, DesktopTurn
<1>18. CASE Expire
  BY <1>18 DEF Expire, Snapshot
<1>19. CASE UNCHANGED vars
  BY <1>19 DEF vars
<1> HIDE DEF Types, TypeOK, world, known, plan, CoordinatorTurn
<1> QED
  BY <1>1, <1>2, <1>3, <1>4, <1>5, <1>6, <1>7, <1>8, <1>9, <1>10, <1>11, <1>12, <1>13,
     <1>14, <1>15, <1>16, <1>17, <1>18, <1>19 DEF Next, Coordinator

-----------------------------------------------------------------------------
(* The setups, the order of a round, the epochs.                           *)

\* What a step of the input thread, the desktop, the clock or the retry leaves
\* alone of the coordinator's state.
OthersTurn ==
    /\ UNCHANGED <<known, c>>
    /\ epoch' \in {epoch, epoch + 1}
    /\ \/ published' = published
       \/ published' = [published EXCEPT !.fresh = FALSE]
    /\ adopted' \in {adopted, published, [adopted EXCEPT !.fresh = FALSE]}

\* Every step is one of the coordinator's or leaves its state alone.
LEMMA NextTurns == [Next]_vars => Coordinator \/ OthersTurn
  BY DEF Next, vars, OthersTurn, RetryElapses, Invalidate, InvalidateForced, InvalidateLayout,
         Advance, ForceRedetection, Adopt, Evaluate, FinishPending, PublishStatus, AdoptedNext,
         InputTurn, SwitchLayout, Reconfigure, SessionSettles, DesktopTurn, Expire

\* What the synchronisation with the backend makes of a round.
LEMMA SyncEnds ==
    ASSUME SyncWithBackend, c \in Round
    PROVE  /\ \/ c' = IdleCoordinator
              \/ /\ c.pc = "sync" /\ c.observed /\ StillCurrent
                 /\ c' = [c EXCEPT !.pc = "publish", !.raw = Led]
           /\ c'.detected \in {c.detected, Unsupported} /\ c'.before \in {c.before, 0}
           /\ UNCHANGED <<world, adopted, epoch, known, published, since>>
<1>1. /\ \/ c' = IdleCoordinator
         \/ /\ c.pc = "sync" /\ c.observed /\ StillCurrent
            /\ c' = [c EXCEPT !.pc = "publish", !.raw = Led]
      /\ UNCHANGED <<world, adopted, epoch, known, published, since>>
  BY DEF SyncWithBackend, EndRound, UpdateCache, known
<1>2. CASE c' = IdleCoordinator
  BY <1>1, <1>2 DEF IdleCoordinator
<1>3. CASE c' = [c EXCEPT !.pc = "publish", !.raw = Led]
  BY <1>1, <1>3 DEF Round
<1> QED BY <1>1, <1>2, <1>3

\* Only setups that were classified come into force.
LEMMA NextSetups ==
    Types /\ SetupsAreClassified /\ [Next]_vars => SetupsAreClassified'
<1> SUFFICES ASSUME Types, SetupsAreClassified, [Next]_vars PROVE SetupsAreClassified'
  OBVIOUS
<1> USE DEF SetupsAreClassified
<1>a. sources \in Setups /\ c \in Round /\ Unsupported \in Detections
  BY DEF Types, TypeOK, Detections
<1>1. CASE Wake
  BY <1>1, <1>a, UpgradeKeepsDetectable DEF Wake, RefreshContext, Round, known
<1>2. CASE DetectSetup
  <2>1. /\ Detect(context, sources) \in Detections
        /\ ~Detectable(context) => Detect(context, sources) = Unsupported
    BY <1>a, DetectionType
  <2>2. c'.detected \in {c.detected, cached'}
    BY <1>2, <1>a DEF DetectSetup, Goto, Round
  <2>3. cached' \in {Unsupported, Detect(context, sources)} /\ UNCHANGED <<context, setup>>
    BY <1>2 DEF DetectSetup
  <2> QED BY <1>a, <2>1, <2>2, <2>3
<1>3. CASE ApplySetup
  BY <1>3, <1>a DEF ApplySetup, Round
<1>4. CASE AnnounceSetup
  BY <1>4, <1>a DEF AnnounceSetup, Goto, Round
<1>5. CASE ObserveX11
  BY <1>5, <1>a DEF ObserveX11, Round
<1>6. CASE ObserveSources
  <2>1. c'.detected \in {c.detected, DetectGnome(sources)} /\ UNCHANGED known
    BY <1>6, <1>a DEF ObserveSources, Round
  <2> QED BY <1>a, <2>1, DetectionType DEF known
<1>7. CASE ObserveCurrentSource
  BY <1>7, <1>a DEF ObserveCurrentSource, Round
<1>8. CASE ObserveNothing
  BY <1>8, <1>a DEF ObserveNothing, Round
<1>9. CASE SyncWithBackend
  <2>1. c'.detected \in {c.detected, Unsupported} /\ UNCHANGED known
    BY <1>9, <1>a, SyncEnds
  <2> QED BY <1>a, <2>1 DEF known
<1>10. CASE Publish
  BY <1>10, <1>a DEF Publish, EndRound, IdleCoordinator, Round, known
<1>11. CASE OthersTurn
  BY <1>11 DEF OthersTurn, known
<1> HIDE DEF SetupsAreClassified
<1> QED
  BY <1>1, <1>2, <1>3, <1>4, <1>5, <1>6, <1>7, <1>8, <1>9, <1>10, <1>11, NextTurns
     DEF Coordinator

\* A round passes through its phases in order.
LEMMA NextRound ==
    Types /\ SetupsAreClassified /\ RoundInOrder /\ [Next]_vars => RoundInOrder'
<1> SUFFICES ASSUME Types, SetupsAreClassified, RoundInOrder, [Next]_vars PROVE RoundInOrder'
  OBVIOUS
<1> USE DEF RoundInOrder
<1>a. c \in Round
  BY DEF Types
<1>b. ~Detectable(context) => cached = Unsupported
  BY DEF SetupsAreClassified
<1>1. CASE Wake
  BY <1>1, <1>a DEF Wake, Round
<1>2. CASE DetectSetup
  BY <1>2, <1>a DEF DetectSetup, Goto, Round
<1>3. CASE ApplySetup
  BY <1>3, <1>a DEF ApplySetup, Round
<1>4. CASE AnnounceSetup
  BY <1>4, <1>a DEF AnnounceSetup, Goto, Round
<1>5. CASE ObserveX11
  BY <1>5, <1>a DEF ObserveX11, Round
<1>6. CASE ObserveSources
  BY <1>6, <1>a DEF ObserveSources, Round, known
<1>7. CASE ObserveCurrentSource
  BY <1>7, <1>a DEF ObserveCurrentSource, Round
<1>8. CASE ObserveNothing
  BY <1>8, <1>a DEF ObserveNothing, Round
<1>9. CASE SyncWithBackend
  <2>1. ~Detectable(context) => Led = Unknown
    BY <1>b DEF Led
  <2>2. /\ UNCHANGED known
        /\ \/ c' = IdleCoordinator
           \/ c.observed /\ c.pc = "sync" /\ c' = [c EXCEPT !.pc = "publish", !.raw = Led]
    BY <1>9, <1>a, SyncEnds
  <2>3. CASE c' = IdleCoordinator
    BY <2>3 DEF IdleCoordinator
  <2>4. CASE c.observed /\ c.pc = "sync" /\ c' = [c EXCEPT !.pc = "publish", !.raw = Led]
    BY <1>a, <2>1, <2>2, <2>4 DEF Round, known
  <2> QED BY <2>2, <2>3, <2>4
<1>10. CASE Publish
  BY <1>10, <1>a DEF Publish, EndRound, IdleCoordinator, Round, known
<1>11. CASE OthersTurn
  BY <1>11 DEF OthersTurn, known
<1> HIDE DEF RoundInOrder
<1> QED
  BY <1>1, <1>2, <1>3, <1>4, <1>5, <1>6, <1>7, <1>8, <1>9, <1>10, <1>11, NextTurns
     DEF Coordinator

\* The epoch only grows, and what carries one got it from there.
LEMMA NextEpochs == Types /\ EpochsBehind /\ [Next]_vars => EpochsBehind'
<1> SUFFICES ASSUME Types, EpochsBehind, [Next]_vars PROVE EpochsBehind'
  OBVIOUS
<1> USE DEF EpochsBehind
<1>a. /\ epoch \in Nat /\ c \in Round /\ c.before \in Nat
      /\ published \in Snapshot /\ adopted \in Snapshot
  BY DEF Types, TypeOK, Round
<1>1. CASE Wake
  BY <1>1, <1>a DEF Wake, Round
<1>2. CASE DetectSetup
  BY <1>2, <1>a DEF DetectSetup, Goto, Round, CoordinatorTurn
<1>3. CASE ApplySetup
  BY <1>3, <1>a DEF ApplySetup, Round, Advance, CoordinatorTurn, Snapshot
<1>4. CASE AnnounceSetup
  BY <1>4, <1>a DEF AnnounceSetup, Goto, Round, CoordinatorTurn, Snapshot
<1>5. CASE ObserveX11
  BY <1>5, <1>a DEF ObserveX11, Round, CoordinatorTurn
<1>6. CASE ObserveSources
  BY <1>6, <1>a DEF ObserveSources, Round, CoordinatorTurn
<1>7. CASE ObserveCurrentSource
  BY <1>7, <1>a DEF ObserveCurrentSource, Round, CoordinatorTurn
<1>8. CASE ObserveNothing
  BY <1>8, <1>a DEF ObserveNothing, Round, CoordinatorTurn
<1>9. CASE SyncWithBackend
  <2>1. c'.before \in {c.before, 0} /\ UNCHANGED <<adopted, epoch, published>>
    BY <1>9, <1>a, SyncEnds
  <2> QED BY <1>a, <2>1
<1>10. CASE Publish
  BY <1>10, <1>a DEF Publish, EndRound, IdleCoordinator, Round, Snapshot
<1>11. CASE OthersTurn
  BY <1>11, <1>a DEF OthersTurn, Snapshot
<1> HIDE DEF EpochsBehind
<1> QED
  BY <1>1, <1>2, <1>3, <1>4, <1>5, <1>6, <1>7, <1>8, <1>9, <1>10, <1>11, NextTurns
     DEF Coordinator

-----------------------------------------------------------------------------
(* What a fresh snapshot tells was shown.                                  *)

\* While the setup and the epoch stay, what was shown stays so.
LEMMA ShownStays ==
    ASSUME NEW layout, NEW ctx, WasShown(layout, ctx), setup' = setup, since \subseteq since'
    PROVE  WasShown(layout, ctx)'
  BY DEF WasShown, ReadAs

\* Every step adds to the history of the desktop or, with the epoch, begins it
\* anew; the setup in force changes only then.
LEMMA NextSince ==
    ASSUME Types, <<group, sources[group]>> \in since, [Next]_vars
    PROVE  /\ <<group, sources[group]>>' \in since'
           /\ \/ epoch' = epoch + 1
              \/ UNCHANGED <<epoch, setup>> /\ since \subseteq since'
<1> USE DEF CoordinatorTurn, world, known
<1>1. CASE Coordinator
  <2>1. CASE ApplySetup
    BY <2>1 DEF ApplySetup, Advance
  <2>2. CASE Wake \/ DetectSetup \/ AnnounceSetup \/ ObserveX11 \/ ObserveSources
             \/ ObserveCurrentSource \/ ObserveNothing
    BY <2>2 DEF Wake, DetectSetup, AnnounceSetup, ObserveX11, ObserveSources,
                ObserveCurrentSource, ObserveNothing
  <2>3. CASE SyncWithBackend \/ Publish
    BY <2>3 DEF SyncWithBackend, Publish
  <2> QED BY <1>1, <2>1, <2>2, <2>3 DEF Coordinator
<1>2. CASE Invalidate \/ InvalidateForced
  BY <1>2 DEF Invalidate, InvalidateForced, InvalidateLayout, Advance
<1>3. CASE SwitchLayout \/ Reconfigure \/ SessionSettles
  BY <1>3 DEF SwitchLayout, Reconfigure, SessionSettles, DesktopTurn
<1>4. CASE RetryElapses \/ ForceRedetection \/ Adopt \/ Evaluate \/ FinishPending
           \/ PublishStatus \/ Expire
  BY <1>4 DEF RetryElapses, ForceRedetection, Adopt, Evaluate, FinishPending,
              PublishStatus, Expire, InputTurn
<1>5. CASE UNCHANGED vars
  BY <1>5 DEF vars
<1> QED BY <1>1, <1>2, <1>3, <1>4, <1>5 DEF Next

\* What a round that is not void has observed was shown.
LEMMA NextObservation ==
    ASSUME Types, RoundInOrder, EpochsBehind, ObservationWasShown, [Next]_vars
    PROVE  ObservationWasShown'
<1> DEFINE Observed ==
      c.observed /\ StillCurrent /\ Detectable(context) /\ observation \notin {None, Unknown}
<1>a. c \in Round /\ c.before \in Nat /\ epoch \in Nat /\ c.before <= epoch
  BY DEF Types, TypeOK, Round, EpochsBehind
<1>b. <<group, sources[group]>> \in since /\ (Observed => WasShown(observation, context))
  BY DEF ObservationWasShown
<1>c. /\ <<group, sources[group]>>' \in since'
      /\ \/ epoch' = epoch + 1
         \/ UNCHANGED <<epoch, setup>> /\ since \subseteq since'
  BY <1>b, NextSince
<1> SUFFICES ASSUME Observed' PROVE WasShown(observation, context)'
  BY <1>c DEF ObservationWasShown
<1>d. c'.before = epoch'
  BY DEF StillCurrent
\* A step that leaves the observation and its round alone.
<1>e. ASSUME c'.before = c.before, c.observed,
             UNCHANGED <<observation, context>>
      PROVE  WasShown(observation, context)'
  <2>1. UNCHANGED <<epoch, setup>> /\ since \subseteq since'
    BY <1>a, <1>c, <1>d, <1>e
  <2>2. WasShown(observation, context)
    BY <1>b, <1>d, <1>e, <2>1 DEF StillCurrent
  <2> QED BY <1>e, <2>1, <2>2 DEF WasShown, ReadAs
<1>1. CASE Wake
  BY <1>1, <1>a DEF Wake, RoundInOrder, Round
<1>2. CASE DetectSetup
  BY <1>2, <1>a DEF DetectSetup, Goto, RoundInOrder, Round
<1>3. CASE ApplySetup
  BY <1>3, <1>a DEF ApplySetup, RoundInOrder, Round
<1>4. CASE AnnounceSetup
  BY <1>4 DEF AnnounceSetup
<1>5. CASE ObserveX11
  <2>1. IsX11(context') /\ observation' = X11LayoutState(GroupState)
    BY <1>5, <1>a DEF ObserveX11, Round, UpdateObservation
  <2>2. UNCHANGED <<group, sources, setup, since>>
    BY <1>5 DEF ObserveX11, CoordinatorTurn, world
  <2>3. observation' = FromGroup(setup, group, Len(setup))
    BY <2>1 DEF X11LayoutState, GroupState, FromGroup
  <2> QED BY <1>b, <2>1, <2>2, <2>3 DEF WasShown, ReadAs
<1>6. CASE ObserveSources
  BY <1>6, <1>a DEF ObserveSources, RoundInOrder, Round
<1>7. CASE ObserveCurrentSource
  <2>1. /\ IsGnomeWayland(context') /\ ~IsX11(context')
        /\ observation' = FromSources(c.read, sources[group])
    BY <1>7, <1>a DEF ObserveCurrentSource, RoundInOrder, Round, UpdateObservation,
                      IsGnomeWayland, IsX11
  <2>2. UNCHANGED <<group, sources, setup, since>>
    BY <1>7 DEF ObserveCurrentSource, CoordinatorTurn, world
  <2>3. observation' = KindOf(sources[group])
    BY <2>1 DEF FromSources
  <2> QED BY <1>b, <2>1, <2>2, <2>3 DEF WasShown, ReadAs
<1>8. CASE ObserveNothing
  BY <1>8 DEF ObserveNothing, UpdateObservation
<1>9. CASE SyncWithBackend
  <2>1. CASE c' = IdleCoordinator
    BY <2>1 DEF IdleCoordinator
  <2>2. CASE c.observed /\ c' = [c EXCEPT !.pc = "publish", !.raw = Led]
    <3>1. c'.before = c.before /\ UNCHANGED <<observation, context>>
      BY <1>9, <1>a, <2>2, SyncEnds DEF Round, known
    <3> QED BY <1>e, <2>2, <3>1
  <2> QED BY <1>9, <1>a, <2>1, <2>2, SyncEnds
<1>10. CASE Publish
  BY <1>10 DEF Publish, EndRound, IdleCoordinator
<1>11. CASE OthersTurn
  BY <1>11, <1>e DEF OthersTurn, known
<1> QED
  BY <1>1, <1>2, <1>3, <1>4, <1>5, <1>6, <1>7, <1>8, <1>9, <1>10, <1>11, NextTurns
     DEF Coordinator

\* Only a publication makes a snapshot fresh; what the input thread takes over
\* was published.
LEMMA NextSnapshots ==
    [Next]_vars =>
      \/ Publish /\ UNCHANGED <<adopted, pending>>
      \/ AnnounceSetup /\ UNCHANGED <<adopted, pending>>
      \/ /\ published' \in {published, [published EXCEPT !.fresh = FALSE]}
         /\ adopted' \in {adopted, published, [adopted EXCEPT !.fresh = FALSE]}
         /\ \/ UNCHANGED pending \/ pending' = None
            \/ pending' = [auth |-> Authorization(adopted), layout |-> adopted.layout]
               /\ UNCHANGED <<adopted, published>>
<1> SUFFICES ASSUME [Next]_vars
             PROVE  \/ Publish /\ UNCHANGED <<adopted, pending>>
                    \/ AnnounceSetup /\ UNCHANGED <<adopted, pending>>
                    \/ /\ published' \in {published, [published EXCEPT !.fresh = FALSE]}
                       /\ adopted' \in {adopted, published, [adopted EXCEPT !.fresh = FALSE]}
                       /\ \/ UNCHANGED pending \/ pending' = None
                          \/ pending' = [auth |-> Authorization(adopted),
                                         layout |-> adopted.layout]
                             /\ UNCHANGED <<adopted, published>>
  OBVIOUS
<1> USE DEF plan
<1>1. CASE Publish
  BY <1>1 DEF Publish
<1>2. CASE AnnounceSetup
  BY <1>2 DEF AnnounceSetup, CoordinatorTurn
<1>3. CASE Wake \/ DetectSetup \/ ApplySetup \/ ObserveX11 \/ ObserveSources
           \/ ObserveCurrentSource \/ ObserveNothing
  BY <1>3 DEF Wake, DetectSetup, ApplySetup, ObserveX11, ObserveSources,
              ObserveCurrentSource, ObserveNothing, CoordinatorTurn
<1>4. CASE SyncWithBackend
  BY <1>4 DEF SyncWithBackend
<1>5. CASE RetryElapses \/ Invalidate \/ InvalidateForced \/ ForceRedetection
  BY <1>5 DEF RetryElapses, Invalidate, InvalidateForced, InvalidateLayout, ForceRedetection
<1>6. CASE Adopt \/ Evaluate \/ FinishPending \/ PublishStatus
  BY <1>6 DEF Adopt, Evaluate, FinishPending, PublishStatus, AdoptedNext
<1>7. CASE SwitchLayout \/ Reconfigure \/ SessionSettles \/ Expire
  BY <1>7 DEF SwitchLayout, Reconfigure, SessionSettles, DesktopTurn, Expire
<1>8. CASE UNCHANGED vars
  BY <1>8 DEF vars
<1> QED
  BY <1>1, <1>2, <1>3, <1>4, <1>5, <1>6, <1>7, <1>8 DEF Next, Coordinator

\* A snapshot that was fresh stays good as long as it is fresh.
LEMMA FreshStays ==
    ASSUME Types, EpochsBehind, ObservationWasShown, SnapshotWasShown, [Next]_vars,
           NEW s \in {published, adopted}, Fresh(s)'
    PROVE  /\ WasShown(s.layout, s.under)' /\ s.manual = ManualWordFix(setup)'
<1>1. /\ s.epoch = epoch' /\ s.epoch <= epoch /\ s.layout # Unknown /\ s.fresh
      /\ epoch \in Nat
  BY DEF Fresh, EpochsBehind, Types, TypeOK
<1>2. \/ epoch' = epoch + 1
      \/ UNCHANGED <<epoch, setup>> /\ since \subseteq since'
  BY NextSince DEF ObservationWasShown
<1>3. UNCHANGED <<epoch, setup>> /\ since \subseteq since'
  BY <1>1, <1>2
<1>4. WasShown(s.layout, s.under) /\ s.manual = ManualWordFix(setup)
  BY <1>1, <1>3 DEF SnapshotWasShown, Fresh
<1> QED BY <1>3, <1>4 DEF WasShown, ReadAs

\* What a fresh snapshot tells was shown.
LEMMA NextSnapshot ==
    ASSUME Types, RoundInOrder, EpochsBehind, ObservationWasShown, SnapshotWasShown,
           [Next]_vars
    PROVE  SnapshotWasShown'
<1> SUFFICES ASSUME NEW s \in {published', adopted'}, Fresh(s)'
             PROVE  WasShown(s.layout, s.under)' /\ s.manual = ManualWordFix(setup)'
  BY DEF SnapshotWasShown
<1>a. published \in Snapshot /\ adopted \in Snapshot
  BY DEF Types, TypeOK
<1>1. CASE Publish /\ UNCHANGED adopted
  <2>1. CASE s = adopted
    BY <2>1, FreshStays
  <2>2. CASE s = published'
    <3> DEFINE layout == Effective(c.raw, observation, context)
    <3>1. /\ s.layout = layout /\ s.manual = ManualWordFix(setup)
          /\ s.epoch = c.before /\ s.under = context
          /\ c.pc = "publish" /\ UNCHANGED <<epoch, setup, since>>
      BY <1>1, <1>a, <2>2 DEF Publish, Snapshot, known
    <3>2. layout # Unknown /\ c.before = epoch
      BY <3>1 DEF Fresh
    <3>3. /\ Detectable(context) /\ layout = observation
          /\ observation \notin {None, Unknown} /\ c.observed /\ StillCurrent
      BY <3>1, <3>2 DEF RoundInOrder, Effective, StillCurrent
    <3>4. WasShown(s.layout, s.under)
      BY <3>1, <3>3 DEF ObservationWasShown
    <3> QED BY <3>1, <3>4 DEF WasShown, ReadAs
  <2> QED BY <1>1, <2>1, <2>2
<1>2. CASE AnnounceSetup /\ UNCHANGED adopted
  <2>1. published'.layout = Unknown
    BY <1>2, <1>a DEF AnnounceSetup, Snapshot
  <2>2. s = adopted
    BY <1>2, <2>1 DEF Fresh
  <2> QED BY <2>2, FreshStays
<1>3. CASE /\ published' \in {published, [published EXCEPT !.fresh = FALSE]}
           /\ adopted' \in {adopted, published, [adopted EXCEPT !.fresh = FALSE]}
  <2>1. s \in {published, adopted}
    BY <1>3, <1>a DEF Fresh, Snapshot
  <2> QED BY <2>1, FreshStays
<1> QED BY <1>1, <1>2, <1>3, NextSnapshots

\* A plan's authorisation names the layout of the plan.
LEMMA NextGenerations ==
    Types /\ GenerationsInOrder /\ [Next]_vars => GenerationsInOrder'
<1> SUFFICES ASSUME Types, GenerationsInOrder, [Next]_vars PROVE GenerationsInOrder'
  OBVIOUS
<1> USE DEF GenerationsInOrder
<1>a. /\ published \in Snapshot /\ adopted \in Snapshot
      /\ published.generation \in Nat /\ adopted.generation \in Nat
      /\ pending # None => pending \in Plan /\ pending.auth.generation \in Nat
  BY DEF Types, TypeOK, Snapshot, Plan
<1>1. CASE Publish /\ UNCHANGED <<adopted, pending>>
  <2>1. \/ /\ published'.layout = published.layout
           /\ published'.generation = published.generation
        \/ published'.generation = published.generation + 1
    BY <1>1, <1>a DEF Publish, Snapshot
  <2> QED BY <1>1, <1>a, <2>1
<1>2. CASE AnnounceSetup /\ UNCHANGED <<adopted, pending>>
  <2>1. published'.generation = published.generation + 1
    BY <1>2, <1>a DEF AnnounceSetup, Snapshot
  <2> QED BY <1>2, <1>a, <2>1
<1>3. CASE /\ published' \in {published, [published EXCEPT !.fresh = FALSE]}
           /\ adopted' \in {adopted, published, [adopted EXCEPT !.fresh = FALSE]}
           /\ \/ UNCHANGED pending \/ pending' = None
              \/ pending' = [auth |-> Authorization(adopted), layout |-> adopted.layout]
                 /\ UNCHANGED <<adopted, published>>
  <2>1. /\ published'.generation = published.generation
        /\ published'.layout = published.layout
    BY <1>3, <1>a DEF Snapshot
  <2>2. \/ adopted'.generation = adopted.generation /\ adopted'.layout = adopted.layout
        \/ adopted'.generation = published.generation /\ adopted'.layout = published.layout
    BY <1>3, <1>a DEF Snapshot
  <2>3. CASE pending' \in {pending, None}
    BY <1>a, <2>1, <2>2, <2>3
  <2>4. CASE /\ pending' = [auth |-> Authorization(adopted), layout |-> adopted.layout]
             /\ UNCHANGED <<adopted, published>>
    BY <1>a, <2>4 DEF Authorization
  <2> QED BY <1>3, <2>3, <2>4
<1> HIDE DEF GenerationsInOrder
<1> QED BY <1>1, <1>2, <1>3, NextSnapshots

\* No layout and no setup is replaced unnoticed.
LEMMA NextChanges ==
    ASSUME Types, EpochsBehind, GenerationsInOrder, ChangesAreNoticed, [Next]_vars
    PROVE  ChangesAreNoticed'
<1> USE DEF ChangesAreNoticed
<1>a. /\ published \in Snapshot /\ adopted \in Snapshot
      /\ published.generation \in Nat /\ adopted.generation \in Nat
      /\ published.epoch \in Nat /\ adopted.epoch \in Nat /\ epoch \in Nat
      /\ adopted.epoch <= epoch
      /\ pending # None => pending.auth \in [generation : Nat, epoch : Nat]
      /\ changed \in [copy : BOOLEAN, plan : BOOLEAN]
  BY DEF Types, TypeOK, Snapshot, Plan, EpochsBehind
<1>1. CASE Publish
  <2>1. \/ InForce' = InForce /\ published'.generation = published.generation
        \/ published'.generation = published.generation + 1
    BY <1>1, <1>a DEF Publish, Snapshot, InForce, known
  <2>2. UNCHANGED <<epoch, adopted, pending>> /\ Remember
    BY <1>1 DEF Publish
  <2>3. changed' = [copy |-> changed.copy \/ InForce' # InForce,
                    plan |-> pending # None /\ (changed.plan \/ InForce' # InForce)]
    BY <2>2 DEF Remember
  <2> QED BY <1>a, <2>1, <2>2, <2>3 DEF GenerationsInOrder
<1>2. CASE AnnounceSetup
  <2>1. published'.generation = published.generation + 1
    BY <1>2, <1>a DEF AnnounceSetup, Snapshot
  <2>2. /\ UNCHANGED <<epoch, adopted, pending>>
        /\ changed'.plan => pending # None
    BY <1>2 DEF AnnounceSetup, Remember
  <2> QED BY <1>a, <2>1, <2>2 DEF GenerationsInOrder
<1>3. CASE ApplySetup
  <2>1. \/ InForce' = InForce /\ epoch' = epoch
        \/ epoch' = epoch + 1
    BY <1>3 DEF ApplySetup, Advance, InForce
  <2>2. UNCHANGED <<published, adopted, pending>> /\ Remember
    BY <1>3 DEF ApplySetup
  <2>3. changed' = [copy |-> changed.copy \/ InForce' # InForce,
                    plan |-> pending # None /\ (changed.plan \/ InForce' # InForce)]
    BY <2>2 DEF Remember
  <2> QED BY <1>a, <2>1, <2>2, <2>3
<1>4. CASE Evaluate
  <2>1. /\ pending' = [auth |-> Authorization(adopted), layout |-> adopted.layout]
        /\ changed' = [changed EXCEPT !.plan = changed.copy]
        /\ UNCHANGED <<epoch, published, adopted>> /\ adopted.epoch = epoch
    BY <1>4 DEF Evaluate, Fresh
  <2>2. /\ pending'.auth.generation = adopted.generation
        /\ pending'.auth.epoch = epoch
        /\ changed'.plan = changed.copy /\ changed'.copy = changed.copy
    BY <1>a, <2>1 DEF Authorization
  <2>3. pending'.auth \in [generation : Nat, epoch : Nat]
    BY <1>a, <2>1 DEF Authorization
  <2> QED BY <1>a, <2>1, <2>2, <2>3
<1>5. CASE Adopt \/ PublishStatus
  <2>1. /\ UNCHANGED <<epoch, published, pending>> /\ changed'.plan = changed.plan
        /\ \/ adopted' = adopted /\ changed'.copy = changed.copy
           \/ changed'.copy = FALSE
    BY <1>5, <1>a DEF Adopt, PublishStatus, AdoptedNext, CopyChanged
  <2> QED BY <1>a, <2>1
<1>6. CASE FinishPending
  <2>1. UNCHANGED <<epoch, published>> /\ pending' = None
    BY <1>6 DEF FinishPending
  <2>2. PICK ok \in BOOLEAN :
          /\ adopted' = AdoptedNext(ok)
          /\ changed' = [copy |-> CopyChanged(ok), plan |-> FALSE]
    BY <1>6 DEF FinishPending
  <2>3. /\ ~changed'.plan
        /\ \/ adopted' = adopted /\ changed'.copy = changed.copy
           \/ ~changed'.copy
    BY <1>a, <2>2 DEF AdoptedNext, CopyChanged
  <2> QED BY <1>a, <2>1, <2>3
<1>7. ASSUME UNCHANGED <<pending, changed>>, epoch' \in {epoch, epoch + 1},
             published' \in {published, [published EXCEPT !.fresh = FALSE]},
             adopted' \in {adopted, [adopted EXCEPT !.fresh = FALSE]}
      PROVE  ChangesAreNoticed'
  <2>1. /\ published'.generation = published.generation
        /\ adopted'.generation = adopted.generation /\ adopted'.epoch = adopted.epoch
    BY <1>7, <1>a DEF Snapshot
  <2> QED BY <1>7, <1>a, <2>1
<1> HIDE DEF ChangesAreNoticed
<1> USE DEF plan
<1>8. CASE Wake \/ DetectSetup \/ ObserveX11 \/ ObserveSources
           \/ ObserveCurrentSource \/ ObserveNothing \/ SyncWithBackend
  BY <1>7, <1>8 DEF Wake, DetectSetup, ObserveX11, ObserveSources, ObserveCurrentSource,
                    ObserveNothing, SyncWithBackend, CoordinatorTurn
<1>9. CASE RetryElapses \/ Invalidate \/ InvalidateForced \/ ForceRedetection
  BY <1>7, <1>9 DEF RetryElapses, Invalidate, InvalidateForced, InvalidateLayout, Advance,
                    ForceRedetection
<1>10. CASE SwitchLayout \/ Reconfigure \/ SessionSettles \/ Expire
  BY <1>7, <1>10 DEF SwitchLayout, Reconfigure, SessionSettles, DesktopTurn, Expire
<1>11. CASE UNCHANGED vars
  BY <1>7, <1>11 DEF vars
<1> QED
  BY <1>1, <1>2, <1>3, <1>4, <1>5, <1>6, <1>8, <1>9, <1>10, <1>11 DEF Next, Coordinator

-----------------------------------------------------------------------------
(* The theorems.                                                           *)

LEMMA InitIInv == Init => IInv
<1> SUFFICES ASSUME Init PROVE IInv
  OBVIOUS
<1>1. Types
  BY InitTypes
<1>2. SetupsAreClassified
  <2>1. setup \in Detections /\ (~Detectable(context) => setup = Unsupported)
    BY DetectionType DEF Init, InitialSetup, Detections
  <2> QED BY <2>1 DEF Init, InitialSetup, SetupsAreClassified, IdleCoordinator, Detections
<1>3. RoundInOrder
  BY DEF Init, IdleCoordinator, RoundInOrder
<1>4. EpochsBehind
  BY DEF Init, IdleCoordinator, InitialSnapshot, EpochsBehind
<1>5. ObservationWasShown
  BY DEF Init, IdleCoordinator, ObservationWasShown
<1>6. SnapshotWasShown
  BY DEF Init, InitialSnapshot, SnapshotWasShown, Fresh
<1>7. GenerationsInOrder
  BY DEF Init, InitialSnapshot, GenerationsInOrder
<1>8. ChangesAreNoticed
  BY DEF Init, ChangesAreNoticed
<1> QED BY <1>1, <1>2, <1>3, <1>4, <1>5, <1>6, <1>7, <1>8 DEF IInv

LEMMA NextIInv == IInv /\ [Next]_vars => IInv'
  BY NextTypes, NextSetups, NextRound, NextEpochs, NextObservation, NextSnapshot,
     NextGenerations, NextChanges DEF IInv

\* The inductive invariant holds in every behaviour: what the coordinator, the
\* input thread and the desktop keep between them at every step.
THEOREM Invariance == Spec => []IInv
  BY InitIInv, NextIInv, PTL DEF Spec

\* The variables keep their types (RuntimeState, InputSnapshot).
THEOREM TypeCorrectness == Spec => []TypeOK
  BY Invariance, PTL DEF IInv, Types

\* A layout a decision may be based on is one that the desktop showed after the
\* last invalidation, however the rounds of the coordinator, the changes of the
\* desktop and the invalidations of the input thread interleave; and a manual
\* correction is offered only for a pair of one English and one Russian layout
\* (refresh_and_publish_layout_from, publish_confirmed_layout).
THEOREM FreshLayout == Spec => []FreshLayoutWasShown
<1>1. IInv => FreshLayoutWasShown
  <2> SUFFICES ASSUME IInv, NEW s \in {published, adopted}, Fresh(s)
               PROVE  /\ \E p \in since :
                           s.layout = IF IsX11(s.under) THEN FromGroup(setup, p[1], Len(setup))
                                      ELSE KindOf(p[2])
                      /\ s.manual =>
                           /\ Len(setup) = 2
                           /\ {KindOf(code) : code \in Range(setup)} = {"English", "Russian"}
    BY DEF FreshLayoutWasShown
  <2>1. WasShown(s.layout, s.under) /\ s.manual = ManualWordFix(setup)
    BY DEF IInv, SnapshotWasShown
  <2>2. setup \in Detections
    BY DEF IInv, SetupsAreClassified
  <2> QED BY <2>1, <2>2, PairIsEnglishAndRussian DEF WasShown, ReadAs
<1> QED BY <1>1, Invariance, PTL

\* The authorisation of a plan names its layout and its setup: where the input
\* thread may commit a correction, the snapshot it adopts shows the layout the
\* correction was planned for, and between the copy it was planned from and this
\* one no other layout was published and no other setup was in force, also not
\* there and back (finish_pending_word_commit, publish_confirmed_layout,
\* apply_layout_setup_detection).
THEOREM GenerationNames == Spec => []GenerationNamesLayout
<1>1. IInv => GenerationNamesLayout
  <2> SUFFICES ASSUME IInv, pending # None, Commits(TRUE, published)
               PROVE  published.layout = pending.layout /\ ~changed.plan
    BY DEF GenerationNamesLayout
  <2>1. published.generation = pending.auth.generation /\ pending.auth.epoch = epoch
    BY DEF Commits, Authorization, IInv, Types, Plan
  <2>2. /\ adopted.generation \in Nat /\ published.generation \in Nat /\ epoch \in Nat
        /\ pending.auth.generation \in Nat
    BY DEF IInv, Types, TypeOK, Snapshot, Plan
  <2>3. published.layout = pending.layout
    BY <2>1, <2>2 DEF IInv, GenerationsInOrder
  <2>4. ~changed.plan
    BY <2>1, <2>2 DEF IInv, ChangesAreNoticed
  <2> QED BY <2>3, <2>4
<1> QED BY <1>1, Invariance, PTL

=============================================================================
