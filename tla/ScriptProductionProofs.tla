------------------------ MODULE ScriptProductionProofs ------------------------
(***************************************************************************)
(* What the chain of fallbacks lets through, for any replies, providers,   *)
(* retries and sequences of voice requests.                                *)
(***************************************************************************)
EXTENDS ScriptProduction, SequenceTheorems, FiniteSetTheorems, WellFoundedInduction, TLAPS

-----------------------------------------------------------------------------
(* Recursive functions.  The library's induction theorems are about        *)
(* operators; this one is about sets, from the well-foundedness of finite  *)
(* sets: the initial segments outside S would have a smallest one.         *)

\* Induction over the numbers of a set.
LEMMA SetInduction ==
  ASSUME NEW S \in SUBSET Nat, 0 \in S, \A n \in S : n + 1 \in S
  PROVE  Nat \subseteq S
<1> DEFINE Outside == {0..n : n \in Nat \ S}
<1>1. SUFFICES ASSUME NEW n \in Nat \ S PROVE FALSE OBVIOUS
<1>2. Outside \subseteq FiniteSubsetsOf(Nat)
  <2> SUFFICES ASSUME NEW k \in Nat PROVE 0..k \in FiniteSubsetsOf(Nat) OBVIOUS
  <2>1. IsFiniteSet(0..k) BY FS_Interval
  <2> QED BY <2>1 DEF FiniteSubsetsOf
<1>3. Outside # {} BY <1>1
<1>4. PICK T \in Outside : \A U \in Outside : <<U, T>> \notin StrictSubsetOrdering(Nat)
  <2>1. IsWellFoundedOn(StrictSubsetOrdering(Nat), FiniteSubsetsOf(Nat))
    BY FS_StrictSubsetOrderingWellFounded
  <2> HIDE DEF Outside
  <2> QED BY <1>2, <1>3, <2>1, WFMin
<1>5. PICK k \in Nat \ S : T = 0..k BY <1>4
<1>6. k # 0 /\ k - 1 \in Nat \ S
  <2>1. k # 0 OBVIOUS
  <2> QED BY <2>1
<1>7. 0..(k - 1) \in Outside BY <1>6
<1>8. 0..(k - 1) \subseteq 0..k /\ k \notin 0..(k - 1) /\ k \in 0..k BY <1>6
<1>9. <<0..(k - 1), 0..k>> \in StrictSubsetOrdering(Nat) BY <1>8 DEF StrictSubsetOrdering
<1> QED BY <1>4, <1>5, <1>7, <1>9

Stepwise(f, x0, step, n) == f[0] = x0 /\ \A i \in 1..n : f[i] = step[i][f[i - 1]]

\* A function can be defined step by step.
LEMMA Recursion ==
  ASSUME NEW X, NEW x0 \in X, NEW step \in [Nat -> [X -> X]], NEW n \in Nat
  PROVE  \E f \in [0..n -> X] : Stepwise(f, x0, step, n)
<1> DEFINE P(m, f) == f[0] = x0 /\ \A i \in 1..m : f[i] = step[i][f[i - 1]]
           S == {m \in Nat : \E f \in [0..m -> X] : P(m, f)}
<1>1. 0 \in S
  <2> DEFINE g == [i \in 0..0 |-> x0]
  <2>1. g \in [0..0 -> X] /\ P(0, g) OBVIOUS
  <2> HIDE DEF g, P
  <2> QED BY <2>1
<1>2. ASSUME NEW m \in S PROVE m + 1 \in S
  <2>1. PICK f \in [0..m -> X] : P(m, f) OBVIOUS
  <2> DEFINE g == [i \in 0..(m + 1) |-> IF i = m + 1 THEN step[m + 1][f[m]] ELSE f[i]]
  <2>2. g \in [0..(m + 1) -> X] OBVIOUS
  <2>3. ASSUME NEW i \in 1..(m + 1) PROVE g[i] = step[i][g[i - 1]] BY <2>1
  <2>4. P(m + 1, g) BY <2>1, <2>3
  <2> HIDE DEF g, P
  <2> QED BY <2>2, <2>4
<1> HIDE DEF S
<1>3. Nat \subseteq S BY <1>1, <1>2, SetInduction DEF S
<1> QED BY <1>3 DEF S, Stepwise

\* What Without returns: a sequence of what it keeps, not longer than what it is given.
LEMMA WithoutProperties ==
  ASSUME NEW s \in Seq(Sentences), NEW out
  PROVE  /\ Without(s, out) \in Seq(Sentences)
         /\ Len(Without(s, out)) <= Len(s)
         /\ ToSet(Without(s, out)) \cap out = {}
<1> DEFINE n == Len(s)
           Keep(w, i) == IF s[i] \in out THEN w ELSE Append(w, s[i])
           X == {w \in Seq(Sentences) : \A j \in 1..Len(w) : w[j] \notin out}
           Body(f) == [i \in 0..n |-> IF i = 0 THEN << >> ELSE Keep(f[i - 1], i)]
           kept == CHOOSE f : f = Body(f)
<1>1. n \in Nat /\ \A i \in 1..n : s[i] \in Sentences OBVIOUS
<1>2. << >> \in X OBVIOUS
<1>3. ASSUME NEW w \in X, NEW i \in 1..n PROVE Keep(w, i) \in X /\ Len(Keep(w, i)) <= Len(w) + 1
  <2>0. w \in Seq(Sentences) /\ Len(w) \in Nat /\ \A j \in 1..Len(w) : w[j] \notin out OBVIOUS
  <2>1. CASE s[i] \in out BY <2>0, <2>1
  <2>2. CASE s[i] \notin out
    <3> DEFINE a == Append(w, s[i])
    <3>1. a \in Seq(Sentences) /\ Len(a) = Len(w) + 1 /\ a[Len(w) + 1] = s[i]
      BY <1>1, <2>0, AppendProperties
    <3>2. \A j \in 1..Len(w) : a[j] = w[j] BY <1>1, <2>0, AppendProperties
    <3>3. Keep(w, i) = a BY <2>2
    <3> HIDE DEF a, Keep
    <3>4. \A j \in 1..Len(a) : a[j] \notin out
      <4> SUFFICES ASSUME NEW j \in 1..Len(a) PROVE a[j] \notin out OBVIOUS
      <4>1. CASE j = Len(w) + 1 BY <2>2, <3>1, <4>1
      <4>2. CASE j # Len(w) + 1
        <5>1. j \in 1..Len(w) BY <2>0, <3>1, <4>2
        <5> QED BY <2>0, <3>2, <5>1
      <4> QED BY <4>1, <4>2
    <3> QED BY <2>0, <3>1, <3>3, <3>4
  <2> QED BY <2>1, <2>2
<1>4. \E f : f = Body(f)
  <2> DEFINE step == [i \in Nat |-> [w \in X |-> IF i \in 1..n THEN Keep(w, i) ELSE w]]
  <2>1. step \in [Nat -> [X -> X]]
    <3> HIDE DEF X, Keep, n
    <3> QED BY <1>3
  <2>5. \A i \in 1..n, w \in X : step[i][w] = Keep(w, i)
    <3> HIDE DEF X, Keep
    <3> QED BY <1>1
  <2>2. PICK f \in [0..n -> X] : f[0] = << >> /\ \A i \in 1..n : f[i] = step[i][f[i - 1]]
    <3>1. n \in Nat BY <1>1
    <3> HIDE DEF X, step, n
    <3>2. \E f \in [0..n -> X] : Stepwise(f, << >>, step, n) BY <1>2, <2>1, <3>1, Recursion
    <3> QED BY <3>2 DEF Stepwise
  <2>3. \A i \in 1..n : f[i] = Keep(f[i - 1], i)
    <3> HIDE DEF X, step, Keep, n
    <3> QED BY <1>1, <2>2, <2>5
  <2>4. f = Body(f)
    <3>1. \A i \in 0..n : f[i] = Body(f)[i]
      <4> HIDE DEF n, X, Keep, step
      <4> QED BY <1>1, <2>2, <2>3
    <3> HIDE DEF X, n, Keep, step
    <3> QED BY <2>2, <3>1
  <2> HIDE DEF Body
  <2> QED BY <2>4
<1>5. kept = Body(kept)
  <2> HIDE DEF Body
  <2> QED BY <1>4
<1>6. kept[0] = << >> /\ \A i \in 1..n : kept[i] = Keep(kept[i - 1], i)
  <2>1. n \in Nat BY <1>1
  <2> HIDE DEF kept, n, Keep
  <2> QED BY <2>1, <1>5
<1> DEFINE S == {i \in Nat : i <= n => kept[i] \in X /\ Len(kept[i]) <= i}
<1>7. 0 \in S
  <2>1. Len(<< >>) <= 0 OBVIOUS
  <2> HIDE DEF kept, n, X
  <2> QED BY <1>2, <1>6, <2>1
<1>8. ASSUME NEW i \in S PROVE i + 1 \in S
  <2>0. i \in Nat OBVIOUS
  <2>1. SUFFICES ASSUME i + 1 <= n PROVE kept[i + 1] \in X /\ Len(kept[i + 1]) <= i + 1
    <3> HIDE DEF kept, n, X
    <3> QED BY <2>0
  <2>2. kept[i] \in X /\ Len(kept[i]) <= i /\ i + 1 \in 1..n
    <3> HIDE DEF kept, n, X
    <3> QED BY <1>1, <2>0, <2>1
  <2>3. kept[i + 1] = Keep(kept[i], i + 1)
    <3> HIDE DEF kept, n, X, Keep
    <3> QED BY <1>6, <2>0, <2>2
  <2>4. \A w \in X : Len(w) \in Nat OBVIOUS
  <2> HIDE DEF kept, Keep, X, S, n
  <2>5. kept[i + 1] \in X /\ Len(kept[i + 1]) <= Len(kept[i]) + 1 BY <1>3, <2>2, <2>3
  <2> QED BY <2>0, <2>2, <2>4, <2>5
<1>9. n \in S
  <2> HIDE DEF S
  <2>1. S \in SUBSET Nat BY DEF S
  <2>2. Nat \subseteq S BY <1>7, <1>8, <2>1, SetInduction
  <2> QED BY <1>1, <2>2
<1>10. kept[n] \in X /\ Len(kept[n]) <= n
  <2> HIDE DEF kept, X, n
  <2> QED BY <1>1, <1>9
<1>11. Without(s, out) = kept[n] BY DEF Without
<1>12. \A w \in X : ToSet(w) \cap out = {} BY DEF ToSet
<1> HIDE DEF kept, n
<1> QED BY <1>10, <1>11, <1>12 DEF n

-----------------------------------------------------------------------------
(* The provider chain.  While a call is under way the providers before the *)
(* one asked have given up, those after it were not asked, and its own     *)
(* requests are the tries counted; a failed call has asked the last one.   *)

Wrapped == {<<"groq", "gemini">>, <<"groq">>, <<"gemini">>, <<"gemini", "groq">>,
            <<"ollama">>, <<"mock">>}

Links(ch) == Len(ch)

CallType == [status : {"idle", "asking", "failed"}, who : 1..2, tries : Nat,
             sent : [1..2 -> Nat], again : BOOLEAN]

Waits(p) == IF p = "groq" THEN MaxWaits ELSE IF p = "gemini" THEN 2 ELSE 0

GaveUp(p, n) ==
  /\ n > 0 /\ n <= IF p = "groq" THEN MaxWaits + 1 ELSE 3
  /\ p = "gemini" => n = 3

Tracked(ch, c) ==
  /\ ch \in Wrapped /\ c \in CallType /\ c.who <= Links(ch)
  /\ c.status # "idle" =>
       \A i \in 1..2 : /\ i < c.who => GaveUp(ch[i], c.sent[i])
                       /\ i > c.who => c.sent[i] = 0
  /\ c.status = "asking" => c.sent[c.who] = c.tries /\ c.tries <= Waits(ch[c.who])
  /\ c.status = "failed" => c.who = Links(ch) /\ GaveUp(ch[c.who], c.sent[c.who])

CallInv == Tracked(chain, call)

\* Whatever keys are configured, the factory wraps one provider or two different ones.
LEMMA ChainsWrapped == Chains \subseteq Wrapped
<1> SUFFICES ASSUME NEW name \in {"groq", "gemini", "ollama", "mock"}, NEW g \in BOOLEAN,
                    NEW m \in BOOLEAN, name = "gemini" => m
             PROVE  CreateProvider(name, g, m) \in Wrapped
  BY DEF Chains
<1>1. CASE name = "groq" BY <1>1 DEF CreateProvider, Wrapped
<1>2. CASE name = "gemini" BY <1>2 DEF CreateProvider, Wrapped
<1>3. CASE name = "ollama" BY <1>3 DEF CreateProvider, Wrapped
<1>4. CASE name = "mock" BY <1>4 DEF CreateProvider, Wrapped
<1> QED BY <1>1, <1>2, <1>3, <1>4

\* A chain has one or two providers.
LEMMA WrappedLength ==
  ASSUME NEW ch \in Wrapped
  PROVE  /\ Links(ch) \in 1..2
         /\ \A i \in DOMAIN ch : i \in 1..2 /\ i <= Links(ch)
<1>1. Len(ch) = 1 \/ Len(ch) = 2 BY DEF Wrapped
<1>2. ASSUME NEW i \in DOMAIN ch PROVE i \in 1..2 BY DEF Wrapped
<1>3. ASSUME NEW i \in DOMAIN ch PROVE i <= Len(ch) BY DEF Wrapped
<1>4. Links(ch) = 1 \/ Links(ch) = 2 BY <1>1, Zenon DEF Links
<1>5. Links(ch) \in 1..2 BY <1>4
<1>6. \A i \in DOMAIN ch : i <= Links(ch) BY <1>3, Zenon DEF Links
<1> QED BY <1>2, <1>5, <1>6

\* Between calls, and at the start of a call, nothing has been asked.
LEMMA FreshCall ==
  ASSUME NEW ch \in Wrapped, NEW c \in {Idle, Asked}
  PROVE  Tracked(ch, c)
<1>1. Links(ch) \in 1..2 BY WrappedLength
<1>2. <<0, 0>> \in [1..2 -> Nat] OBVIOUS
<1>3. /\ Idle \in CallType /\ Idle.who = 1 /\ Idle.tries = 0 /\ Idle.sent = <<0, 0>>
      /\ Idle.status = "idle"
  BY <1>2 DEF Idle, CallType
<1>4. /\ Asked \in CallType /\ Asked.who = 1 /\ Asked.tries = 0 /\ Asked.sent = <<0, 0>>
      /\ Asked.status = "asking"
  <2>1. Asked \in CallType BY <1>3 DEF Asked, CallType
  <2> QED BY <2>1 DEF Asked, Idle
<1>5. c \in CallType /\ c.who = 1 /\ c.tries = 0 /\ c.sent = <<0, 0>> /\ c.status # "failed"
  BY <1>3, <1>4
<1>6. \A i \in 1..2 : i > 1 => c.sent[i] = 0 BY <1>5
<1>7. 0 <= Waits(ch[1]) BY ProductionAssumption DEF Waits
<1>8. c.who <= Links(ch) BY <1>1, <1>5
<1>9. \A i \in 1..2 : ~(i < c.who) BY <1>1, <1>5
<1>10. c.sent[c.who] = c.tries /\ c.tries <= Waits(ch[c.who]) BY <1>5, <1>7
<1>11. \A i \in 1..2 : i > c.who => c.sent[i] = 0 BY <1>5, <1>6
<1> QED BY <1>5, <1>8, <1>9, <1>10, <1>11 DEF Tracked

\* Every step keeps the books of the chain right.
LEMMA CallStep == CallInv /\ [Next]_vars => CallInv'
<1> SUFFICES ASSUME CallInv, [Next]_vars PROVE CallInv' OBVIOUS
<1> USE ProductionAssumption
<1>0. /\ chain \in Wrapped /\ call \in CallType /\ call.who \in 1..2 /\ call.tries \in Nat
      /\ call.sent \in [1..2 -> Nat]
      /\ \A i \in 1..2 : call.sent[i] \in Nat
  BY WrappedLength DEF CallInv, Tracked, CallType
<1>9. Links(chain) \in 1..2 /\ call.who <= Links(chain) BY <1>0, WrappedLength DEF CallInv, Tracked
<1>1. ASSUME call' = call, chain' = chain PROVE CallInv' BY <1>1 DEF CallInv
<1>2. ASSUME RateLimited PROVE CallInv'
  <2>1. /\ chain' = chain /\ call' = [call EXCEPT !.tries = @ + 1, !.sent[call.who] = @ + 1]
        /\ call.status = "asking" /\ Provider = "groq" /\ call.tries < MaxWaits
    BY <1>2 DEF RateLimited
  <2>2. call' \in CallType
    <3> DEFINE sent == [call.sent EXCEPT ![call.who] = @ + 1]
    <3>1. call' = [call EXCEPT !.tries = @ + 1, !.sent = sent] BY <2>1
    <3>2. sent \in [1..2 -> Nat] /\ call.tries + 1 \in Nat BY <1>0
    <3> HIDE DEF sent
    <3> QED BY <1>0, <3>1, <3>2 DEF CallType
  <2>3. /\ call'.who = call.who /\ call'.tries = call.tries + 1 /\ call'.status = "asking"
        /\ call'.sent[call.who] = call.sent[call.who] + 1
        /\ \A i \in 1..2 : i # call.who => call'.sent[i] = call.sent[i]
    BY <1>0, <2>1 DEF CallType
  <2>4. Provider' = Provider BY <2>1, <2>3 DEF Provider
  <2>5. call'.tries <= Waits(Provider') BY <1>0, <2>1, <2>3, <2>4 DEF Waits
  <2>7. \A i \in 1..2 : /\ i < call.who => GaveUp(chain[i], call'.sent[i])
                        /\ i > call.who => call'.sent[i] = 0
    BY <1>0, <2>1, <2>3 DEF CallInv, Tracked, Provider
  <2> QED BY <1>0, <2>1, <2>2, <2>3, <2>4, <2>5, <2>7 DEF CallInv, Tracked, Provider
<1>3. ASSUME NEW again \in BOOLEAN, Refused(again) PROVE CallInv'
  <2>1. chain' = chain /\ call.status = "asking" /\ Provider # "mock" BY <1>3 DEF Refused
  <2>2. PICK sent \in [1..2 -> Nat] :
               /\ sent = [call.sent EXCEPT ![call.who] = @ + 1]
               /\ sent[call.who] = call.sent[call.who] + 1
               /\ \A i \in 1..2 : i # call.who => sent[i] = call.sent[i]
    <3> DEFINE s == [call.sent EXCEPT ![call.who] = @ + 1]
    <3>1. /\ s \in [1..2 -> Nat] /\ s[call.who] = call.sent[call.who] + 1
          /\ \A i \in 1..2 : i # call.who => s[i] = call.sent[i]
      BY <1>0
    <3> QED BY <3>1
  <2>3. call.sent[call.who] = call.tries /\ call.tries <= Waits(Provider) BY <2>1 DEF CallInv, Tracked, Provider
  <2>4. \A i \in 1..2 : /\ i < call.who => GaveUp(chain[i], sent[i])
                        /\ i > call.who => sent[i] = 0
    BY <1>0, <2>1, <2>2 DEF CallInv, Tracked, Provider
  <2>5. CASE Provider = "gemini" /\ call.tries < 2
    <3>1. call' = [call EXCEPT !.tries = @ + 1, !.sent = sent] BY <1>3, <2>2, <2>5 DEF Refused
    <3>2. /\ call' \in CallType /\ call'.who = call.who /\ call'.tries = call.tries + 1
          /\ call'.status = "asking" /\ call'.sent = sent
      <4>1. call.tries + 1 \in Nat BY <1>0
      <4> QED BY <1>0, <2>1, <2>2, <3>1, <4>1 DEF CallType
    <3>3. Provider' = Provider BY <2>1, <3>2 DEF Provider
    <3>4. call'.tries <= Waits(Provider') BY <1>0, <2>5, <3>2, <3>3 DEF Waits
    <3> QED BY <1>0, <2>1, <2>2, <2>3, <2>4, <3>2, <3>3, <3>4 DEF CallInv, Tracked, Provider
  <2>6. CASE ~(Provider = "gemini" /\ call.tries < 2)
    <3>1. GaveUp(Provider, sent[call.who])
      BY <1>0, <2>2, <2>3, <2>6 DEF GaveUp, Waits
    <3>2. CASE call.who < Len(chain)
      <4>1. call' = [call EXCEPT !.who = @ + 1, !.tries = 0, !.sent = sent]
        BY <1>3, <2>2, <2>6, <3>2 DEF Refused
      <4>8. call.who < Links(chain) BY <3>2, Zenon DEF Links
      <4>9. call.who = 1 BY <1>0, <1>9, <4>8
      <4>2. /\ call' \in CallType /\ call'.who = 2 /\ call'.tries = 0
            /\ call'.status = "asking" /\ call'.sent = sent
        <5>1. call.who + 1 \in 1..2 BY <4>9
        <5>2. call' \in CallType BY <1>0, <2>2, <4>1, <5>1 DEF CallType
        <5>3. /\ call'.who = call.who + 1 /\ call'.tries = 0 /\ call'.status = call.status
              /\ call'.sent = sent
          BY <1>0, <4>1 DEF CallType
        <5> QED BY <2>1, <4>9, <5>2, <5>3
      <4>3. sent[2] = 0
        <5>1. 2 \in 1..2 /\ 2 > call.who BY <4>9
        <5> QED BY <2>4, <5>1
      <4>4. GaveUp(chain[1], sent[1]) BY <3>1, <4>9 DEF Provider
      <4>5. \A i \in 1..2 : /\ i < 2 => GaveUp(chain[i], sent[i])
                            /\ i > 2 => sent[i] = 0
        BY <4>4
      <4>6. 0 <= Waits(chain[2]) BY DEF Waits
      <4>7. 2 <= Links(chain) BY <1>9, <4>8, <4>9
      <4> QED BY <1>0, <2>1, <4>2, <4>3, <4>5, <4>6, <4>7 DEF CallInv, Tracked
    <3>3. CASE ~(call.who < Len(chain))
      <4>1. call' = [call EXCEPT !.status = "failed", !.sent = sent, !.again = again]
        BY <1>3, <2>2, <2>6, <3>3 DEF Refused
      <4>2. /\ call' \in CallType /\ call'.who = call.who /\ call'.status = "failed"
            /\ call'.sent = sent
        BY <1>0, <2>2, <4>1 DEF CallType
      <4>9. ~(call.who < Links(chain)) BY <3>3, Zenon DEF Links
      <4>3. call.who = Links(chain) BY <1>0, <1>9, <4>9
      <4>4. GaveUp(chain'[call'.who], call'.sent[call'.who]) BY <2>1, <3>1, <4>2 DEF Provider
      <4>5. \A i \in 1..2 : /\ i < call'.who => GaveUp(chain'[i], call'.sent[i])
                            /\ i > call'.who => call'.sent[i] = 0
        <5>1. call'.who = call.who /\ call'.sent = sent /\ chain' = chain BY <2>1, <4>2
        <5> QED BY <2>4, <5>1
      <4>6. call'.who = Links(chain') /\ call'.who <= Links(chain') BY <1>0, <2>1, <4>2, <4>3
      <4> QED BY <1>0, <2>1, <4>2, <4>4, <4>5, <4>6 DEF CallInv, Tracked
    <3> QED BY <3>2, <3>3
  <2> QED BY <2>5, <2>6
<1>4. CASE UNCHANGED vars BY <1>1, <1>4 DEF vars
<1>5. CASE \/ StartLong \/ StartShort \/ SeoGate \/ BatchVoice \/ DeleteVoice \/ BeginRender
           \/ EndRender \/ AttemptFailed \/ CleanFailed \/ ExpansionFailed
           \/ SaveVoice \/ RowsLost
  <2>1. chain' = chain /\ (call' = call \/ call' \in {Idle, Asked})
    BY <1>5 DEF StartLong, StartShort, SeoGate, BatchVoice, AskVoice, DeleteVoice, BeginRender,
                EndRender, AttemptFailed, CleanFailed, ExpansionFailed, SaveScript, SaveVoice,
                RowsLost
  <2> QED BY <1>0, <1>1, <2>1, FreshCall DEF CallInv
<1>6. ASSUME \/ \E r \in Drafts : Draft(r)
             \/ \E r \in Expansions : Expand(r)
             \/ \E e \in Evaluations : Score(e)
             \/ \E c \in Cleanings : Clean(c)
             \/ \E e \in Engines : GenerateVoice(e) \/ RegenerateVoice(e)
      PROVE  CallInv'
  <2>1. chain' = chain /\ call' \in {Idle, Asked}
    BY <1>6 DEF Draft, Expand, SaveScript, Score, Clean, GenerateVoice, RegenerateVoice, AskVoice
  <2> QED BY <1>0, <2>1, FreshCall DEF CallInv
<1>7. ASSUME NEW k \in {"sentences", "single", "none"}, NEW g \in BOOLEAN, NEW p \in BOOLEAN,
             Speak(k, g, p)
      PROVE  CallInv'
  BY <1>1, <1>7 DEF Speak
<1> QED BY <1>2, <1>3, <1>4, <1>5, <1>6, <1>7 DEF Next

(* A call through the chain fails only after every provider gave up: the   *)
(* two-element fallback list of the factory and the retries inside the     *)
(* Groq and Gemini clients, whatever each provider answers and for every   *)
(* number of waits.                                                        *)
THEOREM GivesUp == Spec => []GivesUpLast
<1>1. Init => CallInv BY ChainsWrapped, FreshCall DEF Init, CallInv
<1>2. CallInv => GivesUpLast
  <2> SUFFICES ASSUME CallInv, call.status = "failed", NEW i \in DOMAIN chain
               PROVE  GaveUp(chain[i], call.sent[i])
    BY DEF GivesUpLast, GaveUp
  <2>1. i \in 1..2 /\ i <= Links(chain) /\ Links(chain) \in Nat
    BY WrappedLength DEF CallInv, Tracked
  <2>2. CASE i = call.who BY <2>2 DEF CallInv, Tracked, Provider
  <2>3. CASE i # call.who BY <2>1, <2>3 DEF CallInv, Tracked, Provider
  <2> QED BY <2>2, <2>3
<1> QED BY <1>1, <1>2, CallStep, PTL DEF Spec

-----------------------------------------------------------------------------
(* What a script is.  Readable: its sentences are sentences and its hook,  *)
(* title and call to action are honest.  An unparsed reply has no tags,    *)
(* the topic's title as its title and the topic as its description.        *)

Honest(s) ==
  s.json =>
    /\ s.cta # NoCta => s.lines # <<>> /\ Last(s.lines) = s.cta
    /\ s.items # 0 => /\ s.hook \in 2..9 => s.hook <= s.items
                      /\ s.hook = 0 /\ s.promise \in 2..9 => s.promise <= s.items

Unparsed(s) ==
  /\ s.tags = 0 /\ s.desc = Topic
  /\ ~s.title.bait /\ ~s.title.keyword

Readable(s) ==
  /\ s.json \in BOOLEAN /\ s.lines \in Seq(Sentences) /\ Honest(s)
  /\ ~s.json => Unparsed(s)

ScriptInv ==
  /\ stage = "expand" => Readable(draft)
  /\ script # None \/ report = "passed" \/ stage \in {"score", "seo", "clean", "speak", "spoken",
                                                "voiced"}
       => Readable(script)
  /\ stage = "seo" => report = "passed"

\* The call to action is moved to the end, whatever the reply's sentences are.
LEMMA CtaLastProperties ==
  ASSUME NEW lines \in Seq(Sentences), NEW cta \in Sentences \cup {NoCta}
  PROVE  /\ CtaLast(lines, cta) \in Seq(Sentences)
         /\ cta # NoCta => CtaLast(lines, cta) # <<>> /\ Last(CtaLast(lines, cta)) = cta
<1>1. CASE cta = NoCta \/ (lines # <<>> /\ Last(lines) = cta) BY <1>1 DEF CtaLast
<1>2. CASE ~(cta = NoCta \/ (lines # <<>> /\ Last(lines) = cta))
  <2>1. CtaLast(lines, cta) = Append(Without(lines, {cta}), cta) BY <1>2 DEF CtaLast
  <2>2. PICK w \in Seq(Sentences) : w = Without(lines, {cta}) BY WithoutProperties
  <2>3. cta \in Sentences BY <1>2
  <2>4. /\ Append(w, cta) \in Seq(Sentences) /\ Append(w, cta) # <<>>
        /\ Last(Append(w, cta)) = cta
    BY <2>3 DEF Last
  <2> QED BY <2>1, <2>2, <2>4
<1> QED BY <1>1, <1>2

\* A promise from two to nine that the body does not deliver is rewritten in the hook and
\* the title.
LEMMA HonestCountsProperties ==
  ASSUME NEW hook \in Nat, NEW promise \in Nat, NEW items \in Nat, items # 0,
         NEW counts, counts = HonestCounts(hook, promise, items)
  PROVE  /\ counts.hook \in 2..9 => counts.hook <= items
         /\ counts.hook = 0 /\ counts.promise \in 2..9 => counts.promise <= items
<1> DEFINE promised == PromisedCount(hook, promise)
           fixed(n) == IF n \in 2..10 THEN items ELSE n
<1>1. hook \in 2..9 => promised = hook BY DEF PromisedCount
<1>2. hook = 0 /\ promise \in 2..9 => promised = promise BY DEF PromisedCount
<1>3. promised \in Nat BY DEF PromisedCount
<1>4. CASE items < promised
  <2>1. counts = [hook |-> fixed(hook), promise |-> fixed(promise)] BY <1>4 DEF HonestCounts
  <2>2. counts.hook = fixed(hook) /\ counts.promise = fixed(promise) BY <2>1
  <2> HIDE DEF promised
  <2> QED BY <2>2
<1>5. CASE ~(items < promised)
  <2>1. counts.hook = hook /\ counts.promise = promise BY <1>5 DEF HonestCounts
  <2> HIDE DEF promised
  <2> QED BY <1>1, <1>2, <1>3, <1>5, <2>1
<1> QED BY <1>4, <1>5

\* Whatever the reply, what _parse_response returns is readable.
LEMMA ParsedReadable ==
  ASSUME NEW r \in Drafts \cup Expansions
  PROVE  Readable(Parsed(r))
<1>1. r.json \in BOOLEAN /\ r.lines \in Seq(Sentences) BY RepliesAssumption
<1>2. CASE ~r.json BY <1>1, <1>2 DEF Parsed, Readable, Honest, Unparsed
<1>3. CASE r.json
  <2>1. /\ r.cta.line \in Sentences \cup {NoCta}
        /\ r.hook \in Nat /\ r.promise \in Nat /\ r.items \in Nat
    BY <1>3, RepliesAssumption
  <2>2. /\ Parsed(r).json = TRUE /\ Parsed(r).lines = CtaLast(r.lines, r.cta.line)
        /\ Parsed(r).cta = r.cta.line /\ Parsed(r).items = r.items
        /\ Parsed(r).hook = HonestCounts(r.hook, r.promise, r.items).hook
        /\ Parsed(r).promise = HonestCounts(r.hook, r.promise, r.items).promise
    BY <1>3 DEF Parsed
  <2>3. /\ CtaLast(r.lines, r.cta.line) \in Seq(Sentences)
        /\ r.cta.line # NoCta => /\ CtaLast(r.lines, r.cta.line) # <<>>
                                 /\ Last(CtaLast(r.lines, r.cta.line)) = r.cta.line
    BY <1>1, <2>1, CtaLastProperties
  <2>4. r.items # 0 => /\ Parsed(r).hook \in 2..9 => Parsed(r).hook <= r.items
                       /\ Parsed(r).hook = 0 /\ Parsed(r).promise \in 2..9 =>
                            Parsed(r).promise <= r.items
    BY <2>1, <2>2, HonestCountsProperties
  <2>5. Honest(Parsed(r)) BY <2>2, <2>3, <2>4, Zenon DEF Honest
  <2> QED BY <2>2, <2>3, <2>5 DEF Readable
<1> QED BY <1>1, <1>2, <1>3

\* Every step keeps scripts readable and honest, and unparsed ones marked.
LEMMA ScriptStep == ScriptInv /\ [Next]_vars => ScriptInv'
<1> SUFFICES ASSUME ScriptInv, [Next]_vars PROVE ScriptInv' OBVIOUS
<1>1. ASSUME UNCHANGED <<stage, draft, script, report>> PROVE ScriptInv'
  BY <1>1 DEF ScriptInv
<1>2. CASE UNCHANGED vars BY <1>1, <1>2 DEF vars
<1>3. CASE RateLimited \/ (\E again \in BOOLEAN : Refused(again)) \/ DeleteVoice
           \/ BeginRender \/ EndRender
  BY <1>1, <1>3 DEF RateLimited, Refused, DeleteVoice, BeginRender, EndRender, runVars
<1>4. CASE StartLong BY <1>4 DEF StartLong, ScriptInv
<1>5. CASE StartShort BY <1>5 DEF StartShort, ScriptInv
<1>6. ASSUME NEW r \in Drafts, Draft(r) PROVE ScriptInv'
  <2>1. Readable(Parsed(r)) BY ParsedReadable
  <2>2. CASE Parsed(r).words < TargetWords
    BY <1>6, <2>1, <2>2 DEF Draft, Asking, ScriptInv
  <2>3. CASE ~(Parsed(r).words < TargetWords)
    BY <1>6, <2>1, <2>3 DEF Draft, SaveScript, ScriptInv
  <2> QED BY <2>2, <2>3
<1>7. ASSUME NEW r \in Expansions, Expand(r) PROVE ScriptInv'
  <2>1. Readable(Parsed(r)) BY ParsedReadable
  <2>2. Readable(draft) BY <1>7 DEF Expand, Asking, ScriptInv
  <2>3. Readable(Longer(draft, Parsed(r))) BY <2>1, <2>2 DEF Longer
  <2> QED BY <1>7, <2>3 DEF Expand, SaveScript, ScriptInv
<1>8. CASE ExpansionFailed
  <2>1. Readable(draft) BY <1>8 DEF ExpansionFailed, Failed, ScriptInv
  <2> QED BY <1>8, <2>1 DEF ExpansionFailed, SaveScript, ScriptInv
<1>9. CASE AttemptFailed BY <1>9 DEF AttemptFailed, runVars, ScriptInv
<1>10. ASSUME NEW e \in Evaluations, Score(e) PROVE ScriptInv'
  <2>1. Readable(script) BY <1>10 DEF Score, Asking, ScriptInv
  <2>2. script' = script /\ draft' = draft /\ stage' \in {"seo", "failed"}
        /\ (stage' = "seo" => report' = "passed")
    BY <1>10 DEF Score
  <2> QED BY <2>1, <2>2 DEF ScriptInv
<1>11. CASE SeoGate
  <2>1. Readable(script) BY <1>11 DEF SeoGate, ScriptInv
  <2> QED BY <1>11, <2>1 DEF SeoGate, ScriptInv
<1>12. ASSUME NEW c \in Cleanings, Clean(c) PROVE ScriptInv'
  BY <1>12 DEF Clean, Asking, runVars, ScriptInv
<1>13. CASE CleanFailed BY <1>13 DEF CleanFailed, Failed, runVars, ScriptInv
<1>14. ASSUME NEW k \in {"sentences", "single", "none"}, NEW g \in BOOLEAN, NEW p \in BOOLEAN,
              Speak(k, g, p) \/ SaveVoice \/ RowsLost
       PROVE  ScriptInv'
  <2>1. /\ stage \in {"speak", "spoken"} /\ stage' \in {"spoken", "voiced", "failed"}
        /\ UNCHANGED <<draft, script, report>>
    BY <1>14 DEF Speak, SaveVoice, RowsLost, runVars
  <2>2. Readable(script) BY <2>1 DEF ScriptInv
  <2> QED BY <2>1, <2>2 DEF ScriptInv
<1>15. ASSUME NEW e \in Engines, GenerateVoice(e) \/ RegenerateVoice(e) PROVE ScriptInv'
  BY <1>15 DEF GenerateVoice, RegenerateVoice, AskVoice, runVars, ScriptInv
<1>16. CASE BatchVoice BY <1>16 DEF BatchVoice, AskVoice, runVars, ScriptInv
<1> QED
  BY <1>2, <1>3, <1>4, <1>5, <1>6, <1>7, <1>8, <1>9, <1>10, <1>11, <1>12, <1>13, <1>14,
     <1>15, <1>16 DEF Next

(* What _finalise_script and the description writer promise of a reply     *)
(* that parsed survives the expansion pass, the retries and every voice    *)
(* request.                                                                *)
THEOREM ScriptsHonest == Spec => []ScriptHonest
<1>1. Init => ScriptInv BY DEF Init, ScriptInv
<1>2. ScriptInv => ScriptHonest BY DEF ScriptInv, ScriptHonest, Readable, Honest
<1> QED BY <1>1, <1>2, ScriptStep, PTL DEF Spec

\* What a script without tags, in an unremarkable title, gets at most: 43 points and what
\* the topic's own hashtags are worth.
UnparsedBest == 43 + HashtagScore(Topic.marks)

LEMMA UnparsedScore ==
  ASSUME NEW s, Unparsed(s)
  PROVE  SeoScore(s) <= UnparsedBest
<1>1. TitleScore(s.title) <= 18 /\ TitleScore(s.title) \in Int BY DEF Unparsed, TitleScore
<1>2. DescriptionScore(s.desc) <= 25 /\ DescriptionScore(s.desc) \in Int
  BY DEF DescriptionScore
<1>3. HashtagScore(s.desc.marks) = HashtagScore(Topic.marks) BY DEF Unparsed
<1>4. TagsScore(s.tags) = 0 BY DEF Unparsed, TagsScore
<1>5. HashtagScore(Topic.marks) \in Int BY DEF HashtagScore
<1> HIDE DEF TitleScore, DescriptionScore, HashtagScore, TagsScore
<1> QED BY <1>1, <1>2, <1>3, <1>4, <1>5 DEF SeoScore, UnparsedBest

(* A reply that could not be parsed passes the quality gate when its       *)
(* evaluation cannot be parsed either, and is then stopped by the SEO      *)
(* gate when that gate asks for more than such a script can get: 69 points *)
(* for any topic, 59 (the setting's default is 60) for a topic with at     *)
(* most six hashtags.                                                      *)
THEOREM UnparsedStopped ==
  ASSUME UnparsedBest < MinSeo
  PROVE  Spec => GateStopsUnparsed
<1>1. ScriptInv /\ [Next]_vars =>
        [stage = "seo" /\ stage' = "clean" => script.json /\ report = "passed"]_vars
  <2> SUFFICES ASSUME ScriptInv, Next, stage = "seo", stage' = "clean", ~script.json
               PROVE  FALSE
    BY DEF ScriptInv
  <2>1. SeoGate
    BY DEF Next, RateLimited, Refused, StartLong, StartShort, Draft, Expand, ExpansionFailed,
           AttemptFailed, Score, Clean, CleanFailed, Speak, GenerateVoice, RegenerateVoice,
           SaveVoice, RowsLost, BatchVoice, DeleteVoice, BeginRender, EndRender, Asking, Failed,
           Resting, AskVoice
  <2>2. SeoScore(script) >= MinSeo BY <2>1 DEF SeoGate
  <2>3. SeoScore(script) <= UnparsedBest BY <2>1, UnparsedScore DEF SeoGate, ScriptInv, Readable
  <2>4. SeoScore(script) \in Int BY DEF SeoScore, TitleScore, DescriptionScore, HashtagScore, TagsScore
  <2>5. MinSeo \in Int /\ UnparsedBest \in Int BY GatesAssumption DEF UnparsedBest, HashtagScore
  <2> QED BY <2>2, <2>3, <2>4, <2>5
<1>2. Init => ScriptInv BY DEF Init, ScriptInv
<1> QED BY <1>1, <1>2, ScriptStep, PTL DEF Spec, GateStopsUnparsed

-----------------------------------------------------------------------------
(* What is spoken.                                                         *)

Spoken(words, s) ==
  /\ ToSet(words) \cap Leaks = {}
  /\ s.lines # <<>> => 10 * Len(words) <= 13 * Len(s.lines)

NarrationInv == stage \in {"speak", "spoken", "voiced"} => Spoken(narration, script)

\* Whether the model's cleaned text is used or not, no instruction is left in it, and it is
\* at most 30% longer than a script that has any sentence.
LEMMA NarrationSpoken ==
  ASSUME NEW s, s.lines \in Seq(Sentences), NEW c \in Seq(Sentences)
  PROVE  Spoken(Narration(s.lines, c), s) /\ Spoken(BasicClean(s.lines), s)
<1> DEFINE basic == Without(s.lines, Leaks)
           short == Without(c, Leaks)
<1>1. /\ ToSet(basic) \cap Leaks = {} /\ basic \in Seq(Sentences)
      /\ Len(basic) <= Len(s.lines)
  BY WithoutProperties
<1>2. /\ ToSet(short) \cap Leaks = {} /\ short \in Seq(Sentences) /\ Len(short) <= Len(c)
  BY WithoutProperties
<1>3. BasicClean(s.lines) = basic /\ Unleaked(c) = short BY DEF BasicClean, Unleaked
<1>4. /\ Len(basic) \in Nat /\ Len(short) \in Nat /\ Len(s.lines) \in Nat /\ Len(c) \in Nat
  BY <1>1, <1>2
<1> HIDE DEF basic, short
<1>5. Spoken(basic, s)
  <2>1. 10 * Len(basic) <= 13 * Len(s.lines) BY <1>1, <1>4
  <2> QED BY <1>1, <2>1 DEF Spoken
<1>6. CASE c = <<>> \/ (s.lines # <<>> /\ 10 * Len(c) > 13 * Len(s.lines))
  BY <1>3, <1>5, <1>6 DEF Narration
<1>7. CASE ~(c = <<>> \/ (s.lines # <<>> /\ 10 * Len(c) > 13 * Len(s.lines)))
  <2>1. Narration(s.lines, c) = short BY <1>3, <1>7 DEF Narration
  <2>2. s.lines # <<>> => 10 * Len(short) <= 13 * Len(s.lines) BY <1>2, <1>4, <1>7
  <2> QED BY <1>2, <1>3, <1>5, <2>1, <2>2 DEF Spoken
<1> QED BY <1>6, <1>7

\* Every step keeps the narration what may be spoken of the script.
LEMMA NarrationStep == ScriptInv /\ NarrationInv /\ [Next]_vars => NarrationInv'
<1> SUFFICES ASSUME ScriptInv, NarrationInv, [Next]_vars PROVE NarrationInv' OBVIOUS
<1>1. ASSUME stage' \notin {"speak", "spoken", "voiced"} PROVE NarrationInv' BY <1>1 DEF NarrationInv
<1>2. ASSUME UNCHANGED <<stage, script, narration>> PROVE NarrationInv'
  BY <1>2 DEF NarrationInv, Spoken
<1>3. CASE UNCHANGED vars BY <1>2, <1>3 DEF vars
<1>4. CASE \/ RateLimited \/ (\E again \in BOOLEAN : Refused(again))
           \/ DeleteVoice \/ BeginRender \/ EndRender
  BY <1>2, <1>4
     DEF RateLimited, Refused, DeleteVoice, BeginRender, EndRender, runVars, voiceVars
<1>5. ASSUME NEW c \in Cleanings, Clean(c) PROVE NarrationInv'
  <2>1. script.lines \in Seq(Sentences) /\ script' = script
    BY <1>5 DEF Clean, Asking, runVars, ScriptInv, Readable
  <2>2. c \in Seq(Sentences) BY RepliesAssumption
  <2>3. Spoken(narration', script')
    <3>1. narration' = Narration(script.lines, c) BY <1>5 DEF Clean
    <3> QED BY <2>1, <2>2, <3>1, NarrationSpoken
  <2> QED BY <2>3 DEF NarrationInv
<1>6. CASE CleanFailed
  <2>1. script.lines \in Seq(Sentences) /\ script' = script
    BY <1>6 DEF CleanFailed, Failed, runVars, ScriptInv, Readable
  <2>2. Spoken(narration', script')
    <3>1. narration' = BasicClean(script.lines) BY <1>6 DEF CleanFailed
    <3>2. <<>> \in Seq(Sentences) OBVIOUS
    <3> QED BY <2>1, <3>1, <3>2, NarrationSpoken
  <2> QED BY <2>2 DEF NarrationInv
<1>7. ASSUME NEW k \in {"sentences", "single", "none"}, NEW g \in BOOLEAN, NEW p \in BOOLEAN,
             Speak(k, g, p) \/ SaveVoice \/ RowsLost
      PROVE  NarrationInv'
  <2>1. stage \in {"speak", "spoken"} /\ UNCHANGED <<script, narration>>
    BY <1>7 DEF Speak, SaveVoice, RowsLost, runVars, voiceVars
  <2> QED BY <2>1 DEF NarrationInv, Spoken
<1>8. ASSUME \/ StartLong \/ StartShort \/ ExpansionFailed \/ AttemptFailed \/ SeoGate \/ BatchVoice
             \/ \E r \in Drafts : Draft(r)
             \/ \E r \in Expansions : Expand(r)
             \/ \E e \in Evaluations : Score(e)
             \/ \E e \in Engines : GenerateVoice(e) \/ RegenerateVoice(e)
      PROVE  NarrationInv'
  <2>1. stage' \notin {"speak", "spoken", "voiced"}
    BY <1>8 DEF StartLong, StartShort, ExpansionFailed, AttemptFailed, SeoGate, BatchVoice, Draft,
                Expand, Score, GenerateVoice, RegenerateVoice, AskVoice, SaveScript
  <2> QED BY <1>1, <2>1
<1> QED BY <1>3, <1>4, <1>5, <1>6, <1>7, <1>8 DEF Next

(* What the voice agent's two safety nets promise, whichever of them spoke *)
(* and however often the voice API is asked.                               *)
THEOREM NarrationsHonest == Spec => []NarrationHonest
<1>1. Init => ScriptInv /\ NarrationInv BY DEF Init, ScriptInv, NarrationInv
<1>2. NarrationInv => NarrationHonest BY DEF NarrationInv, NarrationHonest, Spoken
<1> QED BY <1>1, <1>2, ScriptStep, NarrationStep, PTL DEF Spec

-----------------------------------------------------------------------------
(* The film.  A render under way has read a take no older than the last    *)
(* with rows, unless a new one was spoken since; in between a take and its *)
(* rows, nothing that was there before it can count.                       *)

Films ==
  [row : {"none", "generating", "complete"}, take : Nat, cut : Nat, raced : BOOLEAN]

FilmInv ==
  /\ film \in Films
  /\ takes \in Nat /\ saved \in Nat /\ saved <= takes
  /\ film.take <= takes
  /\ film.cut # 0 => film.row = "generating" /\ (film.cut = takes \/ film.raced)
  /\ film.cut <= takes
  /\ film.row = "complete" => film.take >= saved \/ film.raced

\* Every step keeps what is known of the film's take.
LEMMA FilmStep == FilmInv /\ [Next]_vars => FilmInv'
<1> SUFFICES ASSUME FilmInv, [Next]_vars PROVE FilmInv' OBVIOUS
<1>1. ASSUME UNCHANGED <<takes, saved, film>> PROVE FilmInv' BY <1>1 DEF FilmInv
<1>2. CASE UNCHANGED vars BY <1>1, <1>2 DEF vars
<1>3. CASE BeginRender
  <2>1. UNCHANGED <<takes, saved>> /\ film' = [film EXCEPT !.cut = takes, !.raced = FALSE]
        /\ film.row = "generating"
    BY <1>3 DEF BeginRender
  <2>2. film' \in Films /\ film'.row = "generating" /\ film'.take = film.take /\ film'.cut = takes
    BY <2>1 DEF FilmInv, Films
  <2> QED BY <2>1, <2>2 DEF FilmInv
<1>4. CASE EndRender
  <2>1. /\ UNCHANGED <<takes, saved>> /\ film.cut # 0
        /\ film' = [film EXCEPT !.row = "complete", !.take = film.cut, !.cut = 0]
    BY <1>4 DEF EndRender
  <2>2. /\ film' \in Films /\ film'.row = "complete" /\ film'.take = film.cut /\ film'.cut = 0
        /\ film'.raced = film.raced
    BY <2>1 DEF FilmInv, Films
  <2> QED BY <2>1, <2>2 DEF FilmInv, Films
<1>5. ASSUME NEW k \in {"sentences", "single", "none"}, NEW g \in BOOLEAN, NEW p \in BOOLEAN,
             Speak(k, g, p)
      PROVE  FilmInv'
  <2>1. takes' = takes + 1 /\ saved' = saved
        /\ film' = [film EXCEPT !.raced = @ \/ film.cut # 0]
    BY <1>5 DEF Speak
  <2> DEFINE raced == film.raced \/ film.cut # 0
  <2>2. raced \in BOOLEAN BY DEF FilmInv, Films
  <2>3. film' = [film EXCEPT !.raced = raced] BY <2>1
  <2>4. film.cut # 0 => raced OBVIOUS
  <2>5. film.raced => raced OBVIOUS
  <2> HIDE DEF raced
  <2>6. /\ film' \in Films /\ film'.row = film.row /\ film'.take = film.take
        /\ film'.cut = film.cut /\ film'.raced = raced
    BY <2>2, <2>3 DEF FilmInv, Films
  <2> QED BY <2>1, <2>4, <2>5, <2>6 DEF FilmInv, Films
<1>6. CASE SaveVoice
  <2>1. /\ takes' = takes /\ saved' = takes
        /\ film' = [film EXCEPT !.row = "generating", !.raced = (film.cut # 0)]
    BY <1>6 DEF SaveVoice, UpsertVideo
  <2> DEFINE raced == film.cut # 0
  <2>2. raced \in BOOLEAN /\ (film.cut # 0 => raced) OBVIOUS
  <2>3. film' = [film EXCEPT !.row = "generating", !.raced = raced] BY <2>1
  <2> HIDE DEF raced
  <2>4. /\ film' \in Films /\ film'.row = "generating" /\ film'.take = film.take
        /\ film'.cut = film.cut /\ film'.raced = raced
    BY <2>2, <2>3 DEF FilmInv, Films
  <2> QED BY <2>1, <2>2, <2>4 DEF FilmInv, Films
<1>7. ASSUME \/ RateLimited \/ StartLong \/ StartShort \/ ExpansionFailed \/ AttemptFailed
             \/ SeoGate \/ RowsLost \/ BatchVoice \/ DeleteVoice \/ CleanFailed
             \/ \E again \in BOOLEAN : Refused(again)
             \/ \E r \in Drafts : Draft(r)
             \/ \E r \in Expansions : Expand(r)
             \/ \E e \in Evaluations : Score(e)
             \/ \E c \in Cleanings : Clean(c)
             \/ \E e \in Engines : GenerateVoice(e) \/ RegenerateVoice(e)
      PROVE  FilmInv'
  <2>1. UNCHANGED <<takes, saved, film>>
    BY <1>7 DEF RateLimited, StartLong, StartShort, ExpansionFailed, AttemptFailed, SeoGate,
                RowsLost, BatchVoice, DeleteVoice, CleanFailed, Refused, Draft, Expand, Score,
                Clean, GenerateVoice, RegenerateVoice, AskVoice, voiceVars
  <2> QED BY <1>1, <2>1
<1> QED BY <1>2, <1>3, <1>4, <1>5, <1>6, <1>7 DEF Next

(* A film is never marked COMPLETE with a take older than the last one     *)
(* that has its rows, unless the two overlapped: writing the rows sends a  *)
(* film back to GENERATING, for any number of takes, lost rows or not.     *)
THEOREM FilmsFresh == Spec => []CompleteShowsSaved
<1>1. Init => FilmInv BY DEF Init, FilmInv, Films, NoFilm
<1>2. FilmInv => CompleteShowsSaved BY DEF FilmInv, Films, CompleteShowsSaved
<1> QED BY <1>1, <1>2, FilmStep, PTL DEF Spec
=============================================================================
