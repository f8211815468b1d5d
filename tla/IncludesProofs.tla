--------------------------- MODULE IncludesProofs ---------------------------
(***************************************************************************)
(* What expand_includes_recursive does to the arrays of the context, for   *)
(* every file system, every set of -I options and every limit.             *)
(***************************************************************************)
EXTENDS Includes, SequenceTheorems, TLAPS

(* P: the paths that have been opened.                                     *)
FrameOf(P) == [path : P, pos : Nat]

LEMMA FrontOf ==
    ASSUME NEW S, NEW s \in Seq(S), s # <<>>
    PROVE  /\ Front(s) \in Seq(S) /\ Len(Front(s)) = Len(s) - 1 /\ Len(s) \in Nat \ {0}
           /\ \A n \in 1..(Len(s) - 1) : Front(s)[n] = s[n]
  <1>1. Len(s) \in Nat \ {0}
    OBVIOUS
  <1>2. \A n \in 1..(Len(s) - 1) : s[n] \in S
    BY <1>1
  <1>3. Front(s) = SubSeq(s, 1, Len(s) - 1)
    BY DEF Front
  <1>4. SubSeq(s, 1, Len(s) - 1) \in Seq(S) /\ Len(SubSeq(s, 1, Len(s) - 1)) = Len(s) - 1
    <2> DEFINE last == Len(s) - 1
    <2>1. 1 \in Int /\ last \in Int /\ last >= 0
      BY <1>1
    <2>2. \A n \in 1..last : s[n] \in S
      BY <1>2
    <2> HIDE DEF last
    <2>3. /\ SubSeq(s, 1, last) \in Seq(S)
          /\ Len(SubSeq(s, 1, last)) = IF 1 <= last THEN last - 1 + 1 ELSE 0
      BY <2>1, <2>2, SubSeqProperties
    <2>4. Len(SubSeq(s, 1, last)) = last
      BY <2>1, <2>3
    <2> QED BY <2>3, <2>4, Zenon DEF last
  <1>5. \A n \in 1..(Len(s) - 1) : SubSeq(s, 1, Len(s) - 1)[n] = s[n]
    BY <1>1, <1>2
  <1> QED BY <1>1, <1>3, <1>4, <1>5

LEMMA Appended ==
    ASSUME NEW S, NEW s \in Seq(S), NEW x \in S
    PROVE  /\ Append(s, x) \in Seq(S) /\ Len(Append(s, x)) = Len(s) + 1
           /\ \A n \in DOMAIN Append(s, x) :
                 Append(s, x)[n] = x \/ (n \in DOMAIN s /\ Append(s, x)[n] = s[n])
  <1>1. Append(s, x) \in Seq(S) /\ Len(Append(s, x)) = Len(s) + 1 /\ Len(s) \in Nat
    OBVIOUS
  <1>2. DOMAIN Append(s, x) = 1..(Len(s) + 1) /\ DOMAIN s = 1..Len(s)
    BY <1>1
  <1>3. Append(s, x)[Len(s) + 1] = x /\ \A n \in 1..Len(s) : Append(s, x)[n] = s[n]
    OBVIOUS
  <1>4. \A n \in 1..(Len(s) + 1) : n = Len(s) + 1 \/ n \in 1..Len(s)
    BY <1>1
  <1> QED BY <1>1, <1>2, <1>3, <1>4

(* A frame whose position moves on keeps its path.                         *)
MovedOn(s, n) == [s EXCEPT ![n].pos = @ + 1]
SamePaths(s, t) == \A m \in DOMAIN s : t[m].path = s[m].path

LEMMA Advanced ==
    ASSUME NEW P, NEW s \in Seq(FrameOf(P)), NEW n \in 1..Len(s)
    PROVE  /\ MovedOn(s, n) \in Seq(FrameOf(P)) /\ Len(MovedOn(s, n)) = Len(s)
           /\ SamePaths(s, MovedOn(s, n))
  <1> DEFINE moved == [s[n] EXCEPT !.pos = @ + 1]
  <1>1. s[n] \in FrameOf(P)
    OBVIOUS
  <1>2. moved \in FrameOf(P) /\ moved.path = s[n].path
    <2>1. s[n].path \in P /\ s[n].pos + 1 \in Nat
      BY <1>1 DEF FrameOf
    <2>2. moved = [path |-> s[n].path, pos |-> s[n].pos + 1]
      BY <1>1 DEF FrameOf
    <2> QED BY <2>1, <2>2 DEF FrameOf
  <1> DEFINE t == MovedOn(s, n)
  <1>3. t = [s EXCEPT ![n] = moved]
    BY DEF MovedOn
  <1> HIDE DEF moved, t
  <1>4. t \in Seq(FrameOf(P)) /\ Len(t) = Len(s)
        /\ \A m \in 1..Len(s) : t[m] = IF m = n THEN moved ELSE s[m]
    BY <1>2, <1>3
  <1>5. SamePaths(s, t)
    BY <1>2, <1>4 DEF SamePaths
  <1> QED BY <1>4, <1>5 DEF t

(* Release of the last entry, or of none.                                  *)
LEMMA ReleasedOf ==
    ASSUME NEW S, NEW t \in Seq(S)
    PROVE  Released(t) \in Seq(S) /\ Len(Released(t)) = IF Len(t) = 0 THEN 0 ELSE Len(t) - 1
  BY FrontOf DEF Released

(***************************************************************************)
(* The inductive invariant.  A full tracker is left alone when a file is   *)
(* entered at the last level, but an entry is released all the same when   *)
(* that fails: on the way back the tracker may have fewer entries than     *)
(* there are files, never more.                                            *)
(***************************************************************************)
Least(a, b) == IF a <= b THEN a ELSE b

CountInv ==
    /\ Len(frames) \in 1..(MAX_INCLUDE_DEPTH + 2)
    /\ pc \in {"run", "done"} => Len(tracker) = Least(depth, MAX_INCLUDE_DEPTH)
    /\ pc \in {"unwind", "failed"} => Len(tracker) <= Least(depth, MAX_INCLUDE_DEPTH)
    /\ pc \in {"done", "failed"} => depth = 0

Once(s) == \A j, n \in DOMAIN s : s[j] = s[n] => j = n

IInv ==
    /\ pc \in {"run", "unwind", "done", "failed"} /\ error \in Errors
    /\ \E P : frames \in Seq(FrameOf(P))
    /\ \E S : tracker \in Seq(S)
    /\ \E S : dependencies \in Seq(S)
    /\ Len(dependencies) <= MAX_DEPENDENCIES /\ Once(dependencies)
    /\ CountInv

LEMMA InvType == IInv => TypeOK
  BY DepthPositive DEF IInv, CountInv, TypeOK, InDepth, depth, Least

LEMMA InvReleased == IInv => TrackerReleased
  <1> SUFFICES ASSUME IInv, pc \in {"done", "failed"} PROVE tracker = <<>>
    BY DEF TrackerReleased
  <1>1. PICK S : tracker \in Seq(S)
    BY DEF IInv
  <1>2. Len(tracker) = 0
    BY <1>1, DepthPositive DEF IInv, CountInv, Least, depth
  <1> QED BY <1>1, <1>2

LEMMA InitInv == Init => IInv
  <1> SUFFICES ASSUME Init PROVE IInv
    OBVIOUS
  <1>1. frames \in Seq(FrameOf({Root})) /\ Len(frames) = 1
    BY DEF Init, FrameOf
  <1>2. tracker \in Seq({}) /\ dependencies \in Seq({}) /\ Len(tracker) = 0 /\ Len(dependencies) = 0
        /\ DOMAIN dependencies = {}
    BY DEF Init
  <1>3. CountInv
    BY <1>1, <1>2, DepthPositive DEF Init, CountInv, depth, Least
  <1>4. \E P : frames \in Seq(FrameOf(P))
    BY <1>1
  <1> QED BY <1>2, <1>3, <1>4, LimitsNat DEF Init, IInv, Errors, Once

LEMMA FailInv ==
    ASSUME IInv, pc = "run", NEW e \in Errors, Fail(e), UNCHANGED <<frames, tracker, dependencies>>
    PROVE  IInv'
  BY DEF IInv, CountInv, Fail, depth, Once

LEMMA CopyLineInv ==
    ASSUME IInv, CopyLine
    PROVE  IInv'
  <1>1. PICK P : frames \in Seq(FrameOf(P))
    BY DEF IInv
  <1>2. /\ frames' = MovedOn(frames, Len(frames)) /\ pc = "run"
        /\ UNCHANGED <<tracker, dependencies, pc, error>>
    BY DEF CopyLine, AtLine, MovedOn
  <1>3. Len(frames) \in 1..Len(frames)
    BY <1>1 DEF IInv, CountInv
  <1>4. frames' \in Seq(FrameOf(P)) /\ Len(frames') = Len(frames)
    BY <1>1, <1>2, <1>3, Advanced
  <1>5. \E Q : frames' \in Seq(FrameOf(Q))
    BY <1>4
  <1>6. CountInv'
    BY <1>2, <1>4 DEF IInv, CountInv, depth
  <1> QED BY <1>2, <1>5, <1>6 DEF IInv, Once

(* Entering a file: one more entry, unless the tracker is full.            *)
LEMMA EnteredOf ==
    ASSUME IInv, pc = "run", InDepth
    PROVE  /\ Len(tracker) = depth /\ depth \in 0..MAX_INCLUDE_DEPTH
           /\ Len(Entered) = Least(depth + 1, MAX_INCLUDE_DEPTH)
           /\ \E S : Entered \in Seq(S)
  <1>1. Len(tracker) = depth /\ depth \in 0..MAX_INCLUDE_DEPTH
    BY DepthPositive DEF IInv, CountInv, InDepth, depth, Least
  <1>2. PICK S : tracker \in Seq(S)
    BY DEF IInv
  <1>3. CASE Len(tracker) < MAX_INCLUDE_DEPTH
    <2>1. Entered = Append(tracker, Candidate)
      BY <1>3 DEF Entered
    <2> DEFINE T == S \cup {Candidate}
    <2>2. tracker \in Seq(T) /\ Candidate \in T
      BY <1>2, SeqMonotonic
    <2> HIDE DEF T
    <2>3. Entered \in Seq(T) /\ Len(Entered) = Len(tracker) + 1
      BY <2>1, <2>2
    <2> QED BY <1>1, <1>3, <2>3, DepthPositive DEF Least
  <1>4. CASE ~ (Len(tracker) < MAX_INCLUDE_DEPTH)
    BY <1>1, <1>2, <1>4, DepthPositive DEF Entered, Least
  <1> QED BY <1>3, <1>4

LEMMA NotFoundInv ==
    ASSUME IInv, NotFound
    PROVE  IInv'
  <1>1. /\ pc = "run" /\ InDepth /\ pc' = "unwind" /\ error' = "missing" /\ tracker' = Released(Entered)
        /\ UNCHANGED <<frames, dependencies>>
    BY DEF NotFound, AtLine, Fail
  <1>2. PICK S : Entered \in Seq(S)
    BY <1>1, EnteredOf
  <1>3. tracker' \in Seq(S) /\ Len(tracker') = IF Len(Entered) = 0 THEN 0 ELSE Len(Entered) - 1
    BY <1>1, <1>2, ReleasedOf
  <1>4. depth \in 0..MAX_INCLUDE_DEPTH /\ Len(tracker') <= Least(depth, MAX_INCLUDE_DEPTH)
    BY <1>1, <1>3, EnteredOf, DepthPositive DEF Least
  <1>5. CountInv'
    BY <1>1, <1>4 DEF IInv, CountInv, depth
  <1>6. \E T : tracker' \in Seq(T)
    BY <1>3
  <1> QED BY <1>1, <1>5, <1>6 DEF IInv, Errors, Once

(* track_dependency adds a path that is not there, while there is room.    *)
LEMMA DependencyAdded ==
    ASSUME IInv, NEW p
    PROVE  /\ \E S : track_dependency(p) \in Seq(S)
           /\ Len(track_dependency(p)) <= MAX_DEPENDENCIES
           /\ Once(track_dependency(p))
  <1>1. PICK S : dependencies \in Seq(S)
    BY DEF IInv
  <1>2. CASE track_dependency(p) = dependencies
    BY <1>1, <1>2 DEF IInv
  <1>3. CASE /\ track_dependency(p) = Append(dependencies, p) /\ Len(dependencies) < MAX_DEPENDENCIES
             /\ \A n \in DOMAIN dependencies : dependencies[n] # p
    <2> DEFINE T == S \cup {p}
    <2>1. dependencies \in Seq(T) /\ p \in T
      BY <1>1, SeqMonotonic
    <2> HIDE DEF T
    <2> DEFINE new == Append(dependencies, p)
    <2>2. /\ new \in Seq(T) /\ Len(new) = Len(dependencies) + 1 /\ Len(dependencies) \in Nat
          /\ DOMAIN new = 1..(Len(dependencies) + 1) /\ DOMAIN dependencies = 1..Len(dependencies)
          /\ new[Len(dependencies) + 1] = p
          /\ \A n \in DOMAIN dependencies : new[n] = dependencies[n]
      BY <2>1
    <2> HIDE DEF new
    <2>3. Once(new)
      BY <2>2, <1>3 DEF IInv, Once
    <2>4. Len(new) <= MAX_DEPENDENCIES
      BY <2>2, <1>3, LimitsNat
    <2>5. track_dependency(p) = new
      BY <1>3 DEF new
    <2> QED BY <2>2, <2>3, <2>4, <2>5
  <1>4. \/ track_dependency(p) = dependencies
        \/ /\ track_dependency(p) = Append(dependencies, p) /\ ~ (Len(dependencies) >= MAX_DEPENDENCIES)
           /\ \A n \in DOMAIN dependencies : dependencies[n] # p
    BY DEF track_dependency
  <1>5. ~ (Len(dependencies) >= MAX_DEPENDENCIES) => Len(dependencies) < MAX_DEPENDENCIES
    BY <1>1, LimitsNat
  <1> QED BY <1>2, <1>3, <1>4, <1>5

LEMMA DescendInv ==
    ASSUME IInv, Descend
    PROVE  IInv'
  <1>1. /\ pc = "run" /\ InDepth /\ tracker' = Tracked(Entered)
        /\ dependencies' = track_dependency(Resolved)
        /\ frames' = Append(frames, [path |-> Resolved, pos |-> 1]) /\ UNCHANGED <<pc, error>>
    BY DEF Descend, AtLine
  <1>2. PICK S : Entered \in Seq(S)
    BY <1>1, EnteredOf
  <1>3. /\ depth \in 0..MAX_INCLUDE_DEPTH /\ Len(Entered) = Least(depth + 1, MAX_INCLUDE_DEPTH)
        /\ Len(Entered) \in Nat \ {0}
    BY <1>1, EnteredOf, DepthPositive DEF Least
  <1>4. (\E T : tracker' \in Seq(T)) /\ Len(tracker') = Len(Entered)
    <2>1. CASE tracker' = Entered
      BY <2>1, <1>2
    <2>2. CASE tracker' = [Entered EXCEPT ![Len(Entered)] = Resolved]
      <3> DEFINE T == S \cup {Resolved}
      <3>1. Entered \in Seq(T) /\ Resolved \in T
        BY <1>2, SeqMonotonic
      <3> HIDE DEF T
      <3>2. Len(Entered) \in 1..Len(Entered)
        BY <1>3
      <3>3. tracker' \in Seq(T) /\ Len(tracker') = Len(Entered)
        BY <2>2, <3>1, <3>2, ExceptSeq
      <3> QED BY <3>3
    <2> QED BY <1>1, <2>1, <2>2 DEF Tracked
  <1>5. (\E Q : frames' \in Seq(FrameOf(Q))) /\ Len(frames') = Len(frames) + 1
    <2>1. PICK P : frames \in Seq(FrameOf(P))
      BY DEF IInv
    <2> DEFINE Q == P \cup {Resolved}
               new == [path |-> Resolved, pos |-> 1]
    <2>2. FrameOf(P) \subseteq FrameOf(Q) /\ new \in FrameOf(Q)
      BY DEF FrameOf
    <2>3. frames \in Seq(FrameOf(Q)) /\ frames' = Append(frames, new)
      BY <1>1, <2>1, <2>2, SeqMonotonic
    <2> HIDE DEF Q, new
    <2>4. frames' \in Seq(FrameOf(Q)) /\ Len(frames') = Len(frames) + 1
      BY <2>2, <2>3
    <2> QED BY <2>4
  <1>6. CountInv'
    BY <1>1, <1>3, <1>4, <1>5, DepthPositive DEF IInv, CountInv, depth, Least
  <1>7. /\ \E T : dependencies' \in Seq(T)
        /\ Len(dependencies') <= MAX_DEPENDENCIES /\ Once(dependencies')
    BY <1>1, DependencyAdded
  <1> QED BY <1>1, <1>4, <1>5, <1>6, <1>7 DEF IInv

(* Leaving a file, with its text or without.                               *)
LEMMA Leaving ==
    ASSUME IInv, Len(frames) > 1, tracker' = Released(tracker)
    PROVE  /\ \E P : Front(frames) \in Seq(FrameOf(P)) /\ Len(Front(frames)) = Len(frames) - 1
           /\ \E S : tracker' \in Seq(S)
           /\ Len(tracker') = IF Len(tracker) = 0 THEN 0 ELSE Len(tracker) - 1
           /\ Len(tracker) \in Nat
  <1>1. PICK P : frames \in Seq(FrameOf(P))
    BY DEF IInv
  <1>2. frames # <<>>
    BY <1>1
  <1>3. Front(frames) \in Seq(FrameOf(P)) /\ Len(Front(frames)) = Len(frames) - 1
    BY <1>1, <1>2, FrontOf
  <1>4. PICK S : tracker \in Seq(S)
    BY DEF IInv
  <1>5. tracker' \in Seq(S) /\ Len(tracker') = (IF Len(tracker) = 0 THEN 0 ELSE Len(tracker) - 1)
    BY <1>4, ReleasedOf
  <1>6. Len(tracker) \in Nat
    BY <1>4
  <1> QED BY <1>3, <1>5, <1>6

LEMMA ReturnInv ==
    ASSUME IInv, Return
    PROVE  IInv'
  <1>1. /\ pc = "run" /\ InDepth /\ Len(frames) > 1 /\ tracker' = Released(tracker)
        /\ frames' = MovedOn(Front(frames), Len(frames) - 1)
        /\ UNCHANGED <<dependencies, pc, error>>
    BY DEF Return, MovedOn
  <1>2. PICK P : Front(frames) \in Seq(FrameOf(P)) /\ Len(Front(frames)) = Len(frames) - 1
    BY <1>1, Leaving
  <1>3. Len(frames) - 1 \in 1..Len(Front(frames)) /\ Len(frames) \in Nat
    BY <1>1, <1>2 DEF IInv, CountInv
  <1>4. frames' \in Seq(FrameOf(P)) /\ Len(frames') = Len(frames) - 1
    BY <1>1, <1>2, <1>3, Advanced
  <1>5. (\E Q : frames' \in Seq(FrameOf(Q))) /\ \E S : tracker' \in Seq(S)
    BY <1>1, <1>4, Leaving
  <1>6. Len(tracker) = depth /\ depth = Len(frames) - 1
    BY <1>1, EnteredOf DEF depth
  <1>7. Len(tracker') = Len(tracker) - 1
    BY <1>1, <1>3, <1>6, Leaving
  <1>8. CountInv'
    BY <1>1, <1>3, <1>4, <1>6, <1>7, DepthPositive DEF IInv, CountInv, InDepth, depth, Least
  <1> QED BY <1>1, <1>5, <1>8 DEF IInv, Once

LEMMA UnwindInv ==
    ASSUME IInv, Unwind
    PROVE  IInv'
  <1>1. /\ pc = "unwind" /\ Len(frames) > 1 /\ frames' = Front(frames) /\ tracker' = Released(tracker)
        /\ UNCHANGED <<dependencies, pc, error>>
    BY DEF Unwind
  <1>2. PICK P : frames' \in Seq(FrameOf(P)) /\ Len(frames') = Len(frames) - 1
    BY <1>1, Leaving
  <1>3. (\E Q : frames' \in Seq(FrameOf(Q))) /\ \E S : tracker' \in Seq(S)
    BY <1>1, <1>2, Leaving
  <1>4. /\ Len(tracker') = IF Len(tracker) = 0 THEN 0 ELSE Len(tracker) - 1
        /\ Len(tracker) \in Nat
    BY <1>1, Leaving
  <1>5. CountInv'
    BY <1>1, <1>2, <1>4, DepthPositive DEF IInv, CountInv, depth, Least
  <1> QED BY <1>1, <1>3, <1>5 DEF IInv, Once

LEMMA NextInv == IInv /\ [Next]_vars => IInv'
  <1> SUFFICES ASSUME IInv, [Next]_vars PROVE IInv'
    OBVIOUS
  <1>1. CASE TooDeep
    BY <1>1, FailInv DEF TooDeep, Errors
  <1>2. CASE CopyLine
    BY <1>2, CopyLineInv
  <1>3. CASE BadInclude \/ PathTooLong \/ Circular
    BY <1>3, FailInv DEF BadInclude, PathTooLong, Circular, AtLine, Errors
  <1>4. CASE NotFound
    BY <1>4, NotFoundInv
  <1>5. CASE Descend
    BY <1>5, DescendInv
  <1>6. CASE Return
    BY <1>6, ReturnInv
  <1>7. CASE Unwind
    BY <1>7, UnwindInv
  <1>8. CASE ReturnRoot \/ UnwindRoot
    BY <1>8, DepthPositive DEF ReturnRoot, UnwindRoot, IInv, CountInv, depth, Once
  <1>9. CASE Finished \/ UNCHANGED vars
    BY <1>9 DEF Finished, vars, IInv, CountInv, depth, Once
  <1> QED BY <1>1, <1>2, <1>3, <1>4, <1>5, <1>6, <1>7, <1>8, <1>9 DEF Next

LEMMA InvHolds == Spec => []IInv
  BY InitInv, NextInv, PTL DEF Spec

-----------------------------------------------------------------------------
(* The arrays of the context are never written past their ends: the tracker *)
(* holds MAX_INCLUDE_DEPTH names and the list MAX_DEPENDENCIES; and while   *)
(* no call has failed, the tracker has an entry for each file being read.   *)
THEOREM ExpansionTyped == Spec => []TypeOK
  BY InvHolds, InvType, PTL

(* Every path back through expand_includes_recursive, also those of the     *)
(* errors at the deepest level, leaves the tracker empty.                   *)
THEOREM TrackerEmptyAtEnd == Spec => []TrackerReleased
  BY InvHolds, InvReleased, PTL

-----------------------------------------------------------------------------
(***************************************************************************)
(* The dependency list.  A file is covered when the list names it or is    *)
(* full; the list only grows, so a covered file stays covered.             *)
(***************************************************************************)
Covered(list, file) ==
    \/ Len(list) >= MAX_DEPENDENCIES
    \/ \E n \in DOMAIN list : Canonical(list[n]) = file

Known(list, file) == file = Root \/ Covered(list, file)

ListedInv ==
    /\ \E S : output \in Seq(S)
    /\ \A n \in DOMAIN frames : Known(dependencies, Canonical(frames[n].path))
    /\ \A n \in DOMAIN output : Known(dependencies, output[n][1])

LEMMA DependencyCovered ==
    ASSUME IInv, ~ deps_exclude_system, NEW p
    PROVE  /\ Covered(track_dependency(p), Canonical(p))
           /\ \A file : Known(dependencies, file) => Known(track_dependency(p), file)
  <1>1. PICK S : dependencies \in Seq(S)
    BY DEF IInv
  <1>2. CASE track_dependency(p) = dependencies
    <2>1. \/ \E n \in DOMAIN dependencies : dependencies[n] = p
          \/ Len(dependencies) >= MAX_DEPENDENCIES
          \/ dependencies = Append(dependencies, p)
      BY <1>2 DEF track_dependency
    <2>2. dependencies # Append(dependencies, p)
      <3> DEFINE T == S \cup {p}
      <3>1. dependencies \in Seq(T) /\ p \in T
        BY <1>1, SeqMonotonic
      <3> HIDE DEF T
      <3>2. Len(Append(dependencies, p)) = Len(dependencies) + 1 /\ Len(dependencies) \in Nat
        BY <3>1
      <3> QED BY <3>2
    <2> QED BY <1>2, <2>1, <2>2 DEF Covered
  <1>3. CASE track_dependency(p) = Append(dependencies, p)
    <2> DEFINE T == S \cup {p}
               new == Append(dependencies, p)
    <2>1. dependencies \in Seq(T) /\ p \in T
      BY <1>1, SeqMonotonic
    <2> HIDE DEF T
    <2>2. /\ Len(new) = Len(dependencies) + 1 /\ Len(dependencies) \in Nat
          /\ Len(new) \in DOMAIN new /\ new[Len(new)] = p
          /\ \A n \in DOMAIN dependencies : n \in DOMAIN new /\ new[n] = dependencies[n]
      BY <2>1
    <2>3. track_dependency(p) = new
      BY <1>3
    <2> HIDE DEF new
    <2>4. Covered(new, Canonical(p))
      BY <2>2 DEF Covered
    <2>5. \A file : Known(dependencies, file) => Known(new, file)
      BY <2>2, LimitsNat DEF Known, Covered
    <2> QED BY <2>3, <2>4, <2>5
  <1> QED BY <1>2, <1>3 DEF track_dependency

LEMMA ListedInit ==
    ASSUME Canonical(Root) = Root
    PROVE  Init => ListedInv
  <1> SUFFICES ASSUME Init PROVE ListedInv
    OBVIOUS
  <1>1. frames = <<[path |-> Root, pos |-> 1]>> /\ output \in Seq({}) /\ DOMAIN output = {}
    BY DEF Init
  <1>2. DOMAIN frames = {1} /\ frames[1].path = Root
    BY <1>1
  <1>3. \A n \in DOMAIN frames : Known(dependencies, Canonical(frames[n].path))
    BY <1>2 DEF Known
  <1> QED BY <1>1, <1>3 DEF ListedInv

LEMMA ListedNext ==
    ASSUME ~ deps_exclude_system
    PROVE  IInv /\ ListedInv /\ [Next]_vars => ListedInv'
  <1> SUFFICES ASSUME IInv, ListedInv, [Next]_vars PROVE ListedInv'
    OBVIOUS
  <1>1. PICK P : frames \in Seq(FrameOf(P))
    BY DEF IInv
  <1>2. CASE UNCHANGED <<frames, output, dependencies>>
    BY <1>2 DEF ListedInv
  <1>3. CASE CopyLine
    <2>1. /\ frames' = MovedOn(frames, Len(frames)) /\ dependencies' = dependencies
          /\ output' = Append(output, <<Canonical(Top.path), [n \in DOMAIN frames |-> frames[n].pos]>>)
      BY <1>3 DEF CopyLine, MovedOn
    <2>2. Len(frames) \in 1..Len(frames) /\ DOMAIN frames = 1..Len(frames)
      BY <1>1 DEF IInv, CountInv
    <2>3. frames' \in Seq(FrameOf(P)) /\ Len(frames') = Len(frames)
          /\ \A n \in DOMAIN frames : frames'[n].path = frames[n].path
      <3>1. frames' \in Seq(FrameOf(P)) /\ Len(frames') = Len(frames) /\ SamePaths(frames, frames')
        BY <1>1, <2>1, <2>2, Advanced
      <3> QED BY <3>1 DEF SamePaths
    <2>4. \A n \in DOMAIN frames' : Known(dependencies', Canonical(frames'[n].path))
      <3>1. DOMAIN frames' = DOMAIN frames
        BY <2>2, <2>3
      <3>2. dependencies' = dependencies
        BY <2>1
      <3> QED BY <2>3, <3>1, <3>2 DEF ListedInv
    <2>5. Known(dependencies, Canonical(Top.path))
      <3>1. Top = frames[Len(frames)]
        BY DEF Top, Last
      <3> QED BY <3>1, <2>2 DEF ListedInv
    <2> DEFINE row == <<Canonical(Top.path), [n \in DOMAIN frames |-> frames[n].pos]>>
    <2>6. row[1] = Canonical(Top.path)
      OBVIOUS
    <2>7. PICK S : output \in Seq(S)
      BY DEF ListedInv
    <2> DEFINE T == S \cup {row}
    <2>8. output \in Seq(T) /\ row \in T /\ output' = Append(output, row)
      BY <2>1, <2>7, SeqMonotonic
    <2> HIDE DEF row, T
    <2>9. /\ output' \in Seq(T)
          /\ \A n \in DOMAIN output' : output'[n] = row \/ (n \in DOMAIN output /\ output'[n] = output[n])
      BY <2>8, Appended
    <2>10. \A n \in DOMAIN output' : Known(dependencies', output'[n][1])
      BY <2>1, <2>5, <2>6, <2>9 DEF ListedInv
    <2> QED BY <2>4, <2>9, <2>10 DEF ListedInv
  <1>4. CASE Descend
    <2> DEFINE new == [path |-> Resolved, pos |-> 1]
    <2>1. /\ dependencies' = track_dependency(Resolved) /\ output' = output
          /\ frames' = Append(frames, new)
      BY <1>4 DEF Descend
    <2>2. \A n \in DOMAIN frames' : frames'[n] = new \/ (n \in DOMAIN frames /\ frames'[n] = frames[n])
      <3> DEFINE Q == P \cup {Resolved}
      <3>1. FrameOf(P) \subseteq FrameOf(Q) /\ new \in FrameOf(Q)
        BY DEF FrameOf
      <3>2. frames \in Seq(FrameOf(Q))
        BY <1>1, <3>1, SeqMonotonic
      <3> HIDE DEF Q, new
      <3> QED BY <2>1, <3>1, <3>2, Appended
    <2>3. new.path = Resolved
      OBVIOUS
    <2> HIDE DEF new
    <2>4. /\ Known(dependencies', Canonical(Resolved))
          /\ \A file : Known(dependencies, file) => Known(dependencies', file)
      BY <2>1, DependencyCovered DEF Known
    <2> QED BY <2>1, <2>2, <2>3, <2>4 DEF ListedInv
  <1>5. CASE Return
    <2>1. /\ Len(frames) > 1 /\ frames' = MovedOn(Front(frames), Len(frames) - 1)
          /\ UNCHANGED <<output, dependencies>>
      BY <1>5 DEF Return, MovedOn
    <2>2. /\ Front(frames) \in Seq(FrameOf(P)) /\ Len(Front(frames)) = Len(frames) - 1
          /\ Len(frames) \in Nat /\ \A n \in 1..(Len(frames) - 1) : Front(frames)[n] = frames[n]
      BY <1>1, <2>1, FrontOf
    <2>3. Len(frames) - 1 \in 1..Len(Front(frames))
      BY <2>1, <2>2
    <2>4. frames' \in Seq(FrameOf(P)) /\ Len(frames') = Len(frames) - 1
          /\ SamePaths(Front(frames), frames')
      <3> DEFINE front == Front(frames)
                 last == Len(frames) - 1
      <3>1. /\ front \in Seq(FrameOf(P)) /\ last \in 1..Len(front)
            /\ frames' = MovedOn(front, last)
        BY <2>1, <2>2, <2>3
      <3>2. Len(front) = last
        BY <2>2
      <3> HIDE DEF front, last
      <3>3. frames' \in Seq(FrameOf(P)) /\ Len(frames') = Len(front) /\ SamePaths(front, frames')
        BY <3>1, Advanced
      <3> QED BY <3>2, <3>3 DEF front, last
    <2>5. \A n \in DOMAIN frames' : n \in DOMAIN frames /\ frames'[n].path = frames[n].path
      BY <1>1, <2>2, <2>4 DEF SamePaths
    <2> QED BY <2>1, <2>5 DEF ListedInv
  <1>6. CASE Unwind
    <2>1. Len(frames) > 1 /\ frames' = Front(frames) /\ UNCHANGED <<output, dependencies>>
      BY <1>6 DEF Unwind
    <2>2. \A n \in DOMAIN frames' : n \in DOMAIN frames /\ frames'[n] = frames[n]
      BY <1>1, <2>1, FrontOf
    <2> QED BY <2>1, <2>2 DEF ListedInv
  <1>7. CASE UnwindRoot
    <2>1. frames' = frames /\ dependencies' = dependencies /\ output' = <<>>
      BY <1>7 DEF UnwindRoot
    <2>2. output' \in Seq({}) /\ DOMAIN output' = {}
      BY <2>1
    <2> QED BY <2>1, <2>2 DEF ListedInv
  <1> QED BY <1>2, <1>3, <1>4, <1>5, <1>6, <1>7
      DEF Next, TooDeep, BadInclude, PathTooLong, Circular, NotFound, ReturnRoot, Finished, vars

LEMMA ListedDependencies == IInv /\ ListedInv => DependenciesListed
  <1> SUFFICES ASSUME IInv, ListedInv PROVE DependenciesListed
    OBVIOUS
  <1>1. PICK S : dependencies \in Seq(S)
    BY DEF IInv
  <1>2. ASSUME Len(dependencies) < MAX_DEPENDENCIES, NEW n \in DOMAIN output, output[n][1] # Root
        PROVE  \E d \in Range(dependencies) : Canonical(d) = output[n][1]
    <2>1. Covered(dependencies, output[n][1])
      BY <1>2 DEF ListedInv, Known
    <2>2. ~ (Len(dependencies) >= MAX_DEPENDENCIES)
      BY <1>1, <1>2, LimitsNat
    <2>3. PICK m \in DOMAIN dependencies : Canonical(dependencies[m]) = output[n][1]
      BY <2>1, <2>2 DEF Covered
    <2> QED BY <2>3 DEF Range
  <1> QED BY <1>2 DEF IInv, Once, DependenciesListed

(* With -MD the dependency list has every path once and names every file     *)
(* that has lines in the text, unless it is full.  (-MMD leaves out a file    *)
(* by the path it was opened with, so that what it leaves out depends on how  *)
(* the includes spell it.)                                                    *)
THEOREM DependenciesComplete ==
    ASSUME Canonical(Root) = Root, ~ deps_exclude_system
    PROVE  Spec => []DependenciesListed
  <1>1. Init => ListedInv
    BY ListedInit
  <1>2. IInv /\ ListedInv /\ [Next]_vars => ListedInv'
    BY ListedNext
  <1> QED BY <1>1, <1>2, InvHolds, ListedDependencies, PTL DEF Spec
=============================================================================
