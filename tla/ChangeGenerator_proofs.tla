----------------------- MODULE ChangeGenerator_proofs -----------------------
(***************************************************************************)
(* For any providers, plans, batch sizes and answers: types, the bound on  *)
(* the requests of a batch, and that providers that stay within what they  *)
(* are asked for give the plan.                                            *)
(***************************************************************************)
EXTENDS ChangeGenerator, SequenceTheorems, FiniteSetTheorems, TLAPS

\* The sequences keep their types when a change set is appended.
LEMMA AppendedTyped ==
    ASSUME TypeOK, NEW files \in Answers
    PROVE  produced \o files \in Seq(Paths) /\ Len(files) \in Nat
BY PlansAssumption DEF TypeOK

\* Type correctness of the generator.
THEOREM TypeCorrect == Spec => []TypeOK
<1>1. Init => TypeOK
  <2> SUFFICES ASSUME Init PROVE TypeOK
    OBVIOUS
  <2>1. Len(Providers) \in Nat
    BY PlansAssumption
  <2> QED BY <2>1 DEF Init, TypeOK, SchemaTries, MaxTries
<1>2. TypeOK /\ [Next]_vars => TypeOK'
  <2> SUFFICES ASSUME TypeOK, [Next]_vars PROVE TypeOK'
    OBVIOUS
  <2> USE DEF TypeOK, SchemaTries, MaxTries
  <2>0. Len(Providers) \in Nat
    BY PlansAssumption
  <2>1. CASE Skip
    BY <2>0, <2>1 DEF Skip, Asking
  <2>2. CASE OutOfProviders
    BY <2>2 DEF OutOfProviders
  <2>3. CASE BreakSchema
    BY <2>0, <2>3 DEF BreakSchema, Request, Asking, Restarted
  <2>4. ASSUME NEW f \in Failure, TryAgain(f) PROVE TypeOK'
    BY <2>4 DEF TryAgain, Request
  <2>5. ASSUME NEW f \in Failure, GiveUp(f) PROVE TypeOK'
    BY <2>0, <2>5 DEF GiveUp, Request, Asking
  <2>6. ASSUME NEW files \in Answers, Answer(files) PROVE TypeOK'
    <3>1. produced \o files \in Seq(Paths) /\ Len(files) \in Nat
      BY AppendedTyped
    <3> QED BY <2>0, <2>6, <3>1 DEF Answer, Restarted
  <2>7. CASE UNCHANGED vars
    BY <2>7 DEF vars
  <2> QED BY <2>1, <2>2, <2>3, <2>4, <2>5, <2>6, <2>7 DEF Next
<1> QED BY <1>1, <1>2, PTL DEF Spec

----------------------------------------------------------------------------

\* While it asks, the requests of a batch are counted by the positions of the
\* three loops, as digits of a number are.
CountInv ==
    LET n == Len(Providers)
    IN  /\ asked <= SchemaTries * n * MaxTries
        /\ status = "asking" =>
               asked <= (attempt * n + (turn - 1)) * MaxTries + tries

\* The bound that CountInv gives before a further request.
LEMMA RoomForOneMore ==
    ASSUME TypeOK, CountInv, Asking
    PROVE  asked + 1 <= SchemaTries * Len(Providers) * MaxTries
<1> DEFINE n == Len(Providers)
<1>1. n \in Nat /\ turn \in Nat /\ turn <= n /\ tries <= 2 /\ tries \in Nat
  BY PlansAssumption DEF TypeOK, Asking, MaxTries
<1>2. attempt \in {0, 1, 2}
  BY DEF TypeOK, SchemaTries
<1>3. asked \in Nat /\ asked <= (attempt * n + (turn - 1)) * 3 + tries
  BY DEF TypeOK, CountInv, Asking, MaxTries
<1>4. attempt * n <= 2 * n /\ attempt * n \in Nat
  <2>1. CASE attempt = 0 BY <1>1, <2>1
  <2>2. CASE attempt = 1 BY <1>1, <2>2
  <2>3. CASE attempt = 2 BY <1>1, <2>3
  <2> QED BY <1>2, <2>1, <2>2, <2>3
<1> HIDE DEF n
<1>5. asked + 1 <= 3 * n * 3
  BY <1>1, <1>3, <1>4
<1> QED BY <1>5 DEF n, SchemaTries, MaxTries

\* A batch never makes more requests than the product of the three loops,
\* however failures are mixed.
THEOREM RequestsAreBounded == Spec => []RequestsBounded
<1>1. Init => CountInv
  <2> SUFFICES ASSUME Init PROVE CountInv
    OBVIOUS
  <2>1. Len(Providers) \in Nat
    BY PlansAssumption
  <2> QED BY <2>1 DEF Init, CountInv, SchemaTries, MaxTries
<1>2. TypeOK /\ TypeOK' /\ CountInv /\ [Next]_vars => CountInv'
  <2> SUFFICES ASSUME TypeOK, TypeOK', CountInv, [Next]_vars PROVE CountInv'
    OBVIOUS
  <2> DEFINE n == Len(Providers)
             most == SchemaTries * n * MaxTries
  <2>0. n \in Nat /\ turn \in Nat /\ tries \in Nat /\ asked \in Nat /\ attempt \in Nat
    BY PlansAssumption DEF TypeOK
  <2>a. Asking => asked + 1 <= most
    BY RoomForOneMore
  <2>b. attempt * n \in Nat
    <3>1. attempt \in {0, 1, 2}
      BY DEF TypeOK, SchemaTries
    <3>2. CASE attempt = 0 BY <2>0, <3>2
    <3>3. CASE attempt = 1 BY <2>0, <3>3
    <3>4. CASE attempt = 2 BY <2>0, <3>4
    <3> QED BY <3>1, <3>2, <3>3, <3>4
  <2>c. (attempt + 1) * n = attempt * n + n
    BY <2>0
  <2>d. asked <= most
        /\ (status = "asking" => asked <= (attempt * n + (turn - 1)) * 3 + tries)
    BY DEF CountInv, MaxTries
  <2>e. ASSUME asked' <= most,
               status' = "asking" =>
                   asked' <= (attempt' * n + (turn' - 1)) * 3 + tries'
        PROVE  CountInv'
    BY <2>e DEF CountInv, MaxTries
  <2>1. CASE Skip
    <3>1. tries <= 3
      BY DEF TypeOK, MaxTries
    <3>2. asked' = asked /\ turn' = turn + 1 /\ attempt' = attempt
          /\ tries' = tries /\ status' = status
      BY <2>1 DEF Skip
    <3> HIDE DEF n, most
    <3> QED BY <2>0, <2>b, <2>d, <2>e, <3>1, <3>2
  <2>2. CASE OutOfProviders
    <3>1. asked' = asked /\ status' = "failed"
      BY <2>2 DEF OutOfProviders
    <3> QED BY <2>d, <2>e, <3>1
  <2>3. CASE BreakSchema
    <3>1. Asking /\ asked' = asked + 1
      BY <2>3 DEF BreakSchema, Request
    <3>2. CASE status' = "failed"
      BY <2>a, <2>e, <3>1, <3>2
    <3>3. CASE attempt' = attempt + 1 /\ Restarted
      <4>1. turn <= n /\ tries <= 2 /\ turn' = 1 /\ tries' = 0 /\ status = "asking"
        BY <3>1, <3>3 DEF Asking, Restarted, TypeOK, MaxTries
      <4>2. attempt' * n = attempt * n + n
        BY <2>c, <3>3
      <4> HIDE DEF n, most
      <4>3. asked + 1 <= (attempt * n + n + (1 - 1)) * 3 + 0
        BY <2>0, <2>b, <2>d, <4>1
      <4> QED BY <2>a, <2>e, <3>1, <4>1, <4>2, <4>3
    <3> QED BY <2>3, <3>2, <3>3 DEF BreakSchema
  <2>4. ASSUME NEW f \in Failure, TryAgain(f) PROVE CountInv'
    <3>1. Asking /\ asked' = asked + 1 /\ status = "asking"
      BY <2>4 DEF TryAgain, Request, Asking
    <3>2. tries' = tries + 1 /\ turn' = turn /\ attempt' = attempt
      BY <2>4 DEF TryAgain
    <3> HIDE DEF n, most
    <3> QED BY <2>0, <2>a, <2>b, <2>d, <2>e, <3>1, <3>2
  <2>5. ASSUME NEW f \in Failure, GiveUp(f) PROVE CountInv'
    <3>1. Asking /\ asked' = asked + 1 /\ status = "asking"
      BY <2>5 DEF GiveUp, Request, Asking
    <3>2. tries' = 0 /\ turn' = turn + 1 /\ attempt' = attempt /\ tries <= 2
      BY <2>5 DEF GiveUp, TypeOK, MaxTries
    <3> HIDE DEF n, most
    <3> QED BY <2>0, <2>a, <2>b, <2>d, <2>e, <3>1, <3>2
  <2>6. ASSUME NEW files \in Answers, Answer(files) PROVE CountInv'
    <3>1. asked' = 0 /\ attempt' = 0 /\ turn' = 1 /\ tries' = 0
      BY <2>6 DEF Answer, Restarted
    <3> HIDE DEF n
    <3> QED BY <2>0, <2>e, <3>1 DEF SchemaTries, MaxTries
  <2>7. CASE UNCHANGED vars
    <3>1. asked' = asked /\ status' = status /\ attempt' = attempt
          /\ turn' = turn /\ tries' = tries
      BY <2>7 DEF vars
    <3> QED BY <2>d, <2>e, <3>1
  <2> QED BY <2>1, <2>2, <2>3, <2>4, <2>5, <2>6, <2>7 DEF Next
<1>3. TypeOK /\ CountInv => RequestsBounded
  <2> SUFFICES ASSUME TypeOK, CountInv PROVE RequestsBounded
    OBVIOUS
  <2> DEFINE most == SchemaTries * Len(Providers) * MaxTries
  <2>1. Asking => asked + 1 <= most
    BY RoomForOneMore
  <2>2. asked \in Nat /\ most \in Nat /\ asked <= most
    BY PlansAssumption DEF TypeOK, CountInv, SchemaTries, MaxTries
  <2>3. Asking => asked < most
    <3> HIDE DEF most
    <3> QED BY <2>1, <2>2
  <2> QED BY <2>2, <2>3 DEF RequestsBounded
<1> QED BY <1>1, <1>2, <1>3, TypeCorrect, PTL DEF Spec

----------------------------------------------------------------------------

\* A prefix, element by element.
LEMMA PrefixPointwise ==
    ASSUME NEW S, NEW s \in Seq(S), NEW t \in Seq(S)
    PROVE  IsPrefix(s, t) <=> /\ Len(s) <= Len(t)
                              /\ \A i \in 1 .. Len(s) : s[i] = t[i]
<1>1. SubSeq(s, 1, Len(s)) = s
  BY SubSeqFull
<1>2. ASSUME Len(s) <= Len(t)
      PROVE  /\ SubSeq(t, 1, Len(s)) \in Seq(S)
             /\ Len(SubSeq(t, 1, Len(s))) = Len(s)
             /\ \A i \in 1 .. Len(s) : SubSeq(t, 1, Len(s))[i] = t[i]
  BY <1>2
<1>3. ASSUME IsPrefix(s, t)
      PROVE  Len(s) <= Len(t) /\ \A i \in 1 .. Len(s) : s[i] = t[i]
  BY <1>1, <1>2, <1>3 DEF IsPrefix
<1>4. ASSUME Len(s) <= Len(t), \A i \in 1 .. Len(s) : s[i] = t[i]
      PROVE  IsPrefix(s, t)
  <2>1. SubSeq(t, 1, Len(s)) = s
    BY <1>2, <1>4, SeqEqual
  <2> QED BY <1>1, <1>4, <2>1 DEF IsPrefix
<1> QED BY <1>3, <1>4

\* What is produced counts as progress, and is a beginning of the plan as
\* long as all answers stay within their batch; while the generator asks there
\* is something to ask for.
FollowInv ==
    /\ index = Len(produced)
    /\ obeyed => IsPrefix(produced, plan)
    /\ status = "asking" => IF Incremental THEN index < Len(plan) ELSE index = 0
    /\ status = "returned" /\ Incremental => index >= Len(plan)

\* A batch is the stretch of the plan that follows what is produced.
LEMMA BatchContinues ==
    ASSUME TypeOK, FollowInv, status = "asking"
    PROVE  /\ Batch \in Seq(Paths)
           /\ Len(Batch) <= Len(plan) - index
           /\ \A i \in 1 .. Len(Batch) : Batch[i] = plan[index + i]
<1>0. plan \in Seq(Paths) /\ index \in Nat /\ batchSize \in Nat \ {0}
  BY PlansAssumption DEF TypeOK
<1>1. CASE ~Incremental
  BY <1>0, <1>1 DEF Batch, FollowInv
<1>2. CASE Incremental
  <2> DEFINE last == IF index + batchSize <= Len(plan) THEN index + batchSize
                     ELSE Len(plan)
  <2>1. last \in Nat /\ last <= Len(plan) /\ index + 1 <= last
    BY <1>0, <1>2 DEF FollowInv
  <2>2. Batch = SubSeq(plan, index + 1, last)
    BY <1>2 DEF Batch
  <2>3. \A i \in (index + 1) .. last : plan[i] \in Paths
    BY <1>0, <2>1
  <2> HIDE DEF last
  <2>4. Batch \in Seq(Paths) /\ Len(Batch) = last - index
        /\ \A i \in 1 .. last - index : Batch[i] = plan[index + i]
    BY <1>0, <2>1, <2>2, <2>3
  <2> QED BY <1>0, <2>1, <2>4
<1> QED BY <1>1, <1>2

\* The progress of a generation is what it produced.
LEMMA FollowHolds == Spec => []FollowInv
<1>1. Init => FollowInv
  <2> SUFFICES ASSUME Init PROVE FollowInv
    OBVIOUS
  <2>1. plan \in Seq(Paths) /\ produced = <<>> /\ index = 0
    BY PlansAssumption DEF Init
  <2>2. IsPrefix(produced, plan)
    BY <2>1 DEF IsPrefix
  <2> QED BY <2>1, <2>2 DEF Init, FollowInv, Incremental
<1>2. TypeOK /\ FollowInv /\ [Next]_vars => FollowInv'
  <2> SUFFICES ASSUME TypeOK, FollowInv, [Next]_vars PROVE FollowInv'
    OBVIOUS
  <2>1. ASSUME UNCHANGED <<plan, index, produced, obeyed>>,
               status' \in {status, "failed"}
        PROVE  FollowInv'
    BY <2>1 DEF FollowInv, Incremental
  <2>2. CASE Skip
    BY <2>1, <2>2 DEF Skip
  <2>3. CASE OutOfProviders
    BY <2>1, <2>3 DEF OutOfProviders
  <2>4. CASE BreakSchema
    BY <2>1, <2>4 DEF BreakSchema
  <2>5. ASSUME NEW f \in Failure, TryAgain(f) PROVE FollowInv'
    BY <2>1, <2>5 DEF TryAgain
  <2>6. ASSUME NEW f \in Failure, GiveUp(f) PROVE FollowInv'
    BY <2>1, <2>6 DEF GiveUp
  <2>7. ASSUME NEW files \in Answers, Answer(files) PROVE FollowInv'
    <3>1. /\ plan \in Seq(Paths) /\ produced \in Seq(Paths) /\ files \in Seq(Paths)
          /\ index = Len(produced) /\ status = "asking"
          /\ plan' = plan /\ produced' = produced \o files
          /\ index' = index + Len(files)
          /\ status' = IF Incremental /\ index' < Len(plan) THEN status ELSE "returned"
      BY <2>7, PlansAssumption DEF TypeOK, FollowInv, Answer, Asking
    <3>2. produced' \in Seq(Paths) /\ index' = Len(produced')
      BY <3>1
    <3>3. ASSUME obeyed' PROVE IsPrefix(produced', plan')
      <4>1. IsPrefix(produced, plan) /\ IsPrefix(files, Batch)
        BY <2>7, <3>3 DEF Answer, FollowInv
      <4>2. /\ Len(produced) <= Len(plan)
            /\ \A i \in 1 .. Len(produced) : produced[i] = plan[i]
        BY <3>1, <4>1, PrefixPointwise
      <4>3. /\ Batch \in Seq(Paths) /\ Len(Batch) <= Len(plan) - index
            /\ \A i \in 1 .. Len(Batch) : Batch[i] = plan[index + i]
        BY <3>1, BatchContinues
      <4>4. Len(files) <= Len(Batch) /\ \A i \in 1 .. Len(files) : files[i] = Batch[i]
        BY <3>1, <4>1, <4>3, PrefixPointwise
      <4>5. Len(files) <= Len(plan) - index
            /\ \A i \in 1 .. Len(files) : files[i] = plan[index + i]
        BY <3>1, <4>3, <4>4
      <4>6. Len(produced') <= Len(plan)
        BY <3>1, <4>5
      <4>7. ASSUME NEW i \in 1 .. Len(produced') PROVE produced'[i] = plan[i]
        <5>1. CASE i <= Len(produced)
          BY <3>1, <4>2, <4>7, <5>1
        <5>2. CASE i > Len(produced)
          <6>1. i - index \in 1 .. Len(files) /\ index + (i - index) = i
            BY <3>1, <4>7, <5>2
          <6>2. produced'[i] = files[i - index]
            BY <3>1, <4>7, <5>2
          <6> QED BY <4>5, <6>1, <6>2
        <5> QED BY <3>1, <5>1, <5>2
      <4> QED BY <3>1, <3>2, <4>6, <4>7, PrefixPointwise
    <3>4. status' = "asking" => Incremental' /\ index' < Len(plan')
      BY <3>1 DEF Incremental
    <3>5. status' = "returned" /\ Incremental' => index' >= Len(plan')
      BY <3>1, <3>2 DEF Incremental
    <3> QED BY <3>2, <3>3, <3>4, <3>5 DEF FollowInv
  <2>8. CASE UNCHANGED vars
    BY <2>1, <2>8 DEF vars
  <2> QED BY <2>2, <2>3, <2>4, <2>5, <2>6, <2>7, <2>8 DEF Next
<1> QED BY <1>1, <1>2, TypeCorrect, PTL DEF Spec

\* Providers that stay within their batches, however much they leave off,
\* give the plan.
THEOREM PlanIsFollowed == Spec => []PlanFollowed
<1>1. TypeOK /\ FollowInv => PlanFollowed
  <2> SUFFICES ASSUME TypeOK, FollowInv, obeyed,
                      status = "returned", Incremental
               PROVE  produced = plan
    BY DEF FollowInv, PlanFollowed
  <2>1. plan \in Seq(Paths) /\ produced \in Seq(Paths)
    BY PlansAssumption DEF TypeOK
  <2>2. /\ Len(produced) <= Len(plan) /\ Len(produced) >= Len(plan)
        /\ \A i \in 1 .. Len(produced) : produced[i] = plan[i]
    BY <2>1, PrefixPointwise DEF FollowInv
  <2> QED BY <2>1, <2>2, SeqEqual
<1> QED BY <1>1, FollowHolds, TypeCorrect, PTL

\* As many different planned paths as the plan is long are the whole plan.
LEMMA EnoughIsAll ==
    ASSUME NEW many \in Seq(Paths), NEW few \in Seq(Paths),
           IsInjective(many), Range(many) \subseteq Range(few),
           Len(many) >= Len(few)
    PROVE  Range(many) = Range(few)
<1> DEFINE A == Range(many)
           B == Range(few)
<1>1. ASSUME NEW n \in Nat
      PROVE  IsFiniteSet(1 .. n) /\ Cardinality(1 .. n) = n
  <2>1. 1 \in Int /\ n \in Int
    OBVIOUS
  <2>2. /\ IsFiniteSet(1 .. n)
        /\ Cardinality(1 .. n) = IF 1 > n THEN 0 ELSE n - 1 + 1
    BY <2>1, FS_Interval
  <2> QED BY <2>2
<1> HIDE DEF A, B
<1>2. IsFiniteSet(B) /\ Cardinality(B) <= Len(few)
  <2>1. few \in Surjection(1 .. Len(few), B)
    BY DEF Surjection, Range, B
  <2> QED BY <1>1, <2>1, FS_Surjection
<1>3. IsFiniteSet(A) /\ Cardinality(A) <= Cardinality(B)
  BY <1>2, FS_Subset DEF A, B
<1>4. Cardinality(A) = Len(many)
  <2>1. many \in Surjection(1 .. Len(many), A) /\ many \in Injection(1 .. Len(many), A)
    BY DEF Surjection, Injection, IsInjective, Range, A
  <2> QED BY <1>1, <2>1, FS_Surjection
<1>5. Cardinality(A) \in Nat /\ Cardinality(B) \in Nat
  BY <1>2, <1>3, FS_CardinalityType
<1>6. Cardinality(A) = Cardinality(B)
  BY <1>2, <1>3, <1>4, <1>5
<1> QED BY <1>2, <1>6, FS_Subset DEF A, B

\* What an incremental generation returns lacks a planned file only if some
\* other file came that was not planned or came before.
THEOREM ReturnsAreWhole == Spec => []ReturnedIsWhole
<1>1. TypeOK /\ FollowInv => ReturnedIsWhole
  <2> SUFFICES ASSUME TypeOK, FollowInv, status = "returned", Incremental,
                      IsInjective(produced), Range(produced) \subseteq Range(plan)
               PROVE  Range(produced) = Range(plan)
    BY DEF ReturnedIsWhole
  <2>1. plan \in Seq(Paths) /\ produced \in Seq(Paths)
    BY PlansAssumption DEF TypeOK
  <2>2. Len(produced) >= Len(plan)
    BY DEF FollowInv
  <2> QED BY <2>1, <2>2, EnoughIsAll
<1> QED BY <1>1, FollowHolds, TypeCorrect, PTL

\* What is returned is the plan, as far as the providers did as they were told,
\* for every plan, batch size and answer.
THEOREM PlansAreGenerated == Spec => []PlanGenerated
<1>1. PlanFollowed /\ ReturnedIsWhole => PlanGenerated
  BY DEF PlanGenerated
<1> QED BY <1>1, PlanIsFollowed, ReturnsAreWhole, PTL

----------------------------------------------------------------------------

\* The fast path remembers no limits.
FastForgets == ~Incremental => limited = {}

\* A provider that reached its limit is not asked again in this generation.
THEOREM LimitsAreKept == Spec => LimitedLeftAlone
<1>1. Init => FastForgets
  BY DEF Init, FastForgets
<1>2. FastForgets /\ [Next]_vars => FastForgets'
  <2> USE DEF FastForgets, Incremental
  <2> SUFFICES ASSUME FastForgets, [Next]_vars PROVE FastForgets'
    OBVIOUS
  <2>1. plan' = plan /\ (limited' = limited \/ \E f \in Failure : GiveUp(f))
    BY DEF Next, vars, Skip, OutOfProviders, BreakSchema, TryAgain, GiveUp, Answer
  <2> QED BY <2>1 DEF GiveUp
<1>3. TypeOK /\ FastForgets /\ [Next]_vars =>
          \/ UNCHANGED vars
          \/ /\ limited \subseteq limited'
             /\ asked' > asked \/ produced' # produced => Providers[turn] \notin limited
  <2> SUFFICES ASSUME TypeOK, FastForgets, Next
               PROVE  /\ limited \subseteq limited'
                      /\ asked' > asked \/ produced' # produced =>
                             Providers[turn] \notin limited
    BY DEF vars
  <2>0. asked \in Nat
    BY DEF TypeOK
  <2>1. CASE Skip \/ OutOfProviders
    BY <2>0, <2>1 DEF Skip, OutOfProviders
  <2>2. CASE BreakSchema
    BY <2>2 DEF BreakSchema, Request, Skipped, FastForgets
  <2>3. CASE \E f \in Failure : TryAgain(f) \/ GiveUp(f)
    BY <2>3 DEF TryAgain, GiveUp, Request, Skipped, FastForgets
  <2>4. CASE \E files \in Answers : Answer(files)
    BY <2>4 DEF Answer, Skipped, FastForgets
  <2> QED BY <2>1, <2>2, <2>3, <2>4 DEF Next
<1> QED BY <1>1, <1>2, <1>3, TypeCorrect, PTL DEF Spec, LimitedLeftAlone

\* Providers are asked no more than the limits of the loops and their own rate
\* limits allow.
THEOREM ProvidersAreSpared == Spec => ProvidersSpared
BY RequestsAreBounded, LimitsAreKept, PTL DEF ProvidersSpared
=============================================================================
