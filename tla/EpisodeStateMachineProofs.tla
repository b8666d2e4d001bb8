----------------------- MODULE EpisodeStateMachineProofs -----------------------
(***************************************************************************)
(* What the abstract state machine promises, for every set of Episodes and *)
(* trails of any length.                                                   *)
(***************************************************************************)
EXTENDS EpisodeStateMachine, TLAPS

LEMMA EdgesEndInStatus ==
    \A source \in Status : \A target : CanTransition(source, target) => target \in Status
  BY DEF Status, Transitions, CanTransition

LEMMA StatusFacts ==
    /\ InitialState \in Status /\ Absent \notin Status
    /\ {"uploading", "uploaded", "processing"} \subseteq Status
    /\ CanTransition("uploading", "uploaded") /\ CanTransition("uploaded", "processing")
  BY DEF InitialState, Absent, Status, Transitions, CanTransition

\* A walk that goes on from where it had led stays a walk, and leads to the new end.
LEMMA WalkGoesOn ==
    ASSUME NEW walk \in Seq(Edge), IsWalk(walk), NEW target \in Status,
           CanTransition(WalkEnd(walk), target),
           NEW longer, longer = Append(walk, [from |-> WalkEnd(walk), to |-> target])
    PROVE  longer \in Seq(Edge) /\ IsWalk(longer) /\ WalkEnd(longer) = target
<1> DEFINE step == [from |-> WalkEnd(walk), to |-> target]
<1>1. WalkEnd(walk) \in Status
  <2>1. CASE walk = <<>>
    BY <2>1, StatusFacts DEF WalkEnd
  <2>2. CASE walk # <<>>
    <3>1. walk[Len(walk)] \in Edge
      BY <2>2
    <3>2. QED
      BY <2>2, <3>1 DEF WalkEnd, Edge
  <2>3. QED
    BY <2>1, <2>2
<1>2. step \in Edge /\ step.from = WalkEnd(walk) /\ step.to = target
  BY <1>1 DEF Edge
<1>3. longer = Append(walk, step)
  OBVIOUS
<1> HIDE DEF step
<1>4. /\ longer \in Seq(Edge) /\ Len(longer) = Len(walk) + 1 /\ longer[Len(longer)] = step
      /\ \A i \in 1 .. Len(walk) : longer[i] = walk[i]
  BY <1>2, <1>3
<1>5. WalkEnd(longer) = target
  BY <1>2, <1>4 DEF WalkEnd
<1>6. IsWalk(longer)
  <2> SUFFICES ASSUME NEW i \in DOMAIN longer
               PROVE  /\ CanTransition(longer[i].from, longer[i].to)
                      /\ longer[i].from = IF i = 1 THEN InitialState ELSE longer[i - 1].to
    BY DEF IsWalk
  <2>1. CASE i = Len(longer)
    BY <1>2, <1>4, <2>1 DEF WalkEnd
  <2>2. CASE i # Len(longer)
    <3>1. i \in DOMAIN walk /\ longer[i] = walk[i] /\ (i # 1 => longer[i - 1] = walk[i - 1])
      BY <1>4, <2>2
    <3>2. QED
      BY <3>1 DEF IsWalk
  <2>3. QED
    BY <2>1, <2>2
<1>7. QED
  BY <1>4, <1>5, <1>6

Inv == TypeOK /\ TrailIsWalkToStatus

LEMMA InvInit == Init => Inv
  BY DEF Init, Inv, TypeOK, TrailIsWalkToStatus

LEMMA InvStep == Inv /\ [Next]_vars => Inv'
<1> SUFFICES ASSUME Inv, [Next]_vars PROVE Inv'
  OBVIOUS
<1>1. CASE UNCHANGED vars
  BY <1>1 DEF vars, Inv, TypeOK, TrailIsWalkToStatus
<1>2. ASSUME NEW e \in Episode, Create(e) PROVE Inv'
  <2>1. trail[e] = <<>>
    BY <1>2 DEF Create, Inv, TrailIsWalkToStatus
  <2>2. IsWalk(<<>>) /\ WalkEnd(<<>>) = InitialState
    BY DEF IsWalk, WalkEnd
  <2>3. /\ status'[e] = InitialState /\ trail' = trail
        /\ \A f \in Episode \ {e} : status'[f] = status[f]
    BY <1>2 DEF Create, Inv, TypeOK
  <2>4. TypeOK'
    BY <1>2, StatusFacts DEF Create, Inv, TypeOK
  <2>5. TrailIsWalkToStatus'
    BY <2>1, <2>2, <2>3, StatusFacts DEF Inv, TrailIsWalkToStatus
  <2>6. QED
    BY <2>4, <2>5 DEF Inv
<1>3. ASSUME NEW e \in Episode, NEW target \in Status, Move(e, target) PROVE Inv'
  <2>1. trail[e] \in Seq(Edge) /\ IsWalk(trail[e]) /\ WalkEnd(trail[e]) = status[e]
    BY <1>3, StatusFacts DEF Move, Inv, TypeOK, TrailIsWalkToStatus
  <2>2. trail'[e] = Append(trail[e], [from |-> status[e], to |-> target]) /\ status'[e] = target
    BY <1>3 DEF Move, Inv, TypeOK
  <2>3. trail'[e] \in Seq(Edge) /\ IsWalk(trail'[e]) /\ WalkEnd(trail'[e]) = target
    <3>1. CanTransition(WalkEnd(trail[e]), target)
      BY <1>3, <2>1 DEF Move
    <3>2. trail'[e] = Append(trail[e], [from |-> WalkEnd(trail[e]), to |-> target])
      BY <2>1, <2>2
    <3>3. QED
      BY <2>1, <3>1, <3>2, WalkGoesOn
  <2>4. QED
    BY <1>3, <2>2, <2>3, StatusFacts DEF Move, Inv, TypeOK, TrailIsWalkToStatus
<1>4. ASSUME NEW e \in Episode, Ingest(e) PROVE Inv'
  <2> DEFINE middle == Append(trail[e], [from |-> "uploading", to |-> "uploaded"])
             end == Append(middle, [from |-> "uploaded", to |-> "processing"])
  <2>1. trail[e] \in Seq(Edge) /\ IsWalk(trail[e]) /\ WalkEnd(trail[e]) = "uploading"
    BY <1>4, StatusFacts DEF Ingest, Inv, TypeOK, TrailIsWalkToStatus, Absent
  <2>2. middle \in Seq(Edge) /\ IsWalk(middle) /\ WalkEnd(middle) = "uploaded"
    BY <2>1, StatusFacts, WalkGoesOn
  <2>3. end \in Seq(Edge) /\ IsWalk(end) /\ WalkEnd(end) = "processing"
    <3> HIDE DEF middle
    <3>1. QED
      BY <2>2, StatusFacts, WalkGoesOn
  <2>4. trail'[e] = end /\ status'[e] = "processing"
    BY <1>4, <2>1 DEF Ingest, Inv, TypeOK
  <2>5. QED
    BY <1>4, <2>3, <2>4, StatusFacts DEF Ingest, Inv, TypeOK, TrailIsWalkToStatus
<1>5. QED
  BY <1>1, <1>2, <1>3, <1>4 DEF Next

\* The trail that users are shown is always a walk through the machine from recording to
\* the current status.
THEOREM TrailAlwaysWalksToStatus == Spec => [](TypeOK /\ TrailIsWalkToStatus)
  BY InvInit, InvStep, PTL DEF Spec, Inv

\* Terminal statuses are final: nothing moves a published, rejected or failed Episode.
THEOREM TerminalIsFinal ==
    Spec => [][\A e \in Episode : status[e] \in TerminalStates => status'[e] = status[e]]_vars
<1>1. Inv /\ [Next]_vars
          => [\A e \in Episode : status[e] \in TerminalStates => status'[e] = status[e]]_vars
  <2> SUFFICES ASSUME Inv, Next, NEW e \in Episode, status[e] \in TerminalStates
               PROVE  status'[e] = status[e]
    OBVIOUS
  <2>1. \A target : ~CanTransition(status[e], target)
    BY DEF CanTransition, Transitions, TerminalStates
  <2>2. status[e] # Absent /\ status[e] # "uploading"
    BY DEF TerminalStates, Absent
  <2>3. QED
    BY <2>1, <2>2 DEF Inv, TypeOK, Next, Create, Move, Ingest
<1>2. QED
  BY <1>1, InvInit, InvStep, PTL DEF Spec
==============================================================================
