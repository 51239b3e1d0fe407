--------------------------- MODULE AgentLoopProofs ---------------------------
(* Theorems about AgentLoop, for all values of its constants. *)
EXTENDS AgentLoop, SequenceTheorems, WellFoundedInduction, TLAPS

-----------------------------------------------------------------------------
(* What trimming does to the messages *)

\* PairsAreWhole and the conclusion of LastResultIsShown, of any messages.
Whole(s) ==
  /\ s # <<>> /\ s[1].kind = "system"
  /\ \A i \in 2..Len(s) :
       /\ s[i].kind = "call" =>
            /\ i < Len(s)
            /\ s[i + 1].kind = "result" /\ s[i + 1].of = s[i].of
       /\ s[i].kind = "result" /\ i > 2 =>
            s[i - 1].kind = "call" /\ s[i - 1].of = s[i].of

Shows(s, n) ==
  /\ Len(s) >= 3
  /\ s[Len(s)].kind = "result" /\ s[Len(s)].of = n
  /\ s[Len(s) - 1].kind = "call" /\ s[Len(s) - 1].of = n

\* trimConversationMessages stops, after some messages behind the first, at
\* three messages or before.
LEMMA TrimmingStops ==
  ASSUME NEW s \in Seq(Message)
  PROVE  \E k \in 0..Len(s) : /\ Trimmed(s) = Without(s, k)
                              /\ k = 0 \/ Len(s) - k >= 3
<1>. DEFINE Stops == {k \in 0..Len(s) : Enough(s, k)}
            Least(k) == Enough(s, k) /\ \A j \in 0..(k - 1) : ~Enough(s, j)
<1>1. Len(s) \in Nat
  BY LenProperties
<1>2. Len(s) \in Stops
  BY <1>1 DEF Enough
<1>3. PICK k \in Stops : \A j \in Stops : ~(<<j, k>> \in OpToRel(<, Nat))
  <2>1. Stops \subseteq Nat /\ Stops # {}
    BY <1>1, <1>2
  <2>2. IsWellFoundedOn(OpToRel(<, Nat), Nat)
    BY NatLessThanWellFounded
  <2>. QED BY <2>1, <2>2, WFMin
<1>4. k \in 0..Len(s) /\ Least(k)
  <2>1. ASSUME NEW j \in 0..(k - 1) PROVE ~Enough(s, j)
    <3>1. j \in 0..Len(s) /\ k \in Nat /\ j \in Nat /\ j < k
      BY <1>1
    <3>2. <<j, k>> \in OpToRel(<, Nat)
      BY <3>1 DEF OpToRel
    <3>3. j \notin Stops
      BY <1>3, <3>2
    <3>. HIDE DEF Stops
    <3>. QED BY <3>1, <3>3 DEF Stops
  <2>. QED BY <1>3, <2>1
<1>5. PICK c \in 0..Len(s) : Least(c) /\ Trimmed(s) = Without(s, c)
  <2>. DEFINE c == CHOOSE i \in 0..Len(s) : Least(i)
  <2>1. c \in 0..Len(s) /\ Least(c)
    BY <1>4
  <2>2. Trimmed(s) = Without(s, c)
    BY DEF Trimmed
  <2>. QED BY <2>1, <2>2
<1>6. c = 0 \/ Len(s) - c >= 3
  <2>1. CASE c > 0
    <3>1. ~Enough(s, c - 1)
      BY <1>1, <1>5, <2>1
    <3>2. ~(Len(s) - (c - 1) <= 3)
      BY <3>1 DEF Enough
    <3>. QED BY <1>1, <3>2
  <2>. QED BY <1>1, <2>1
<1>. QED BY <1>5, <1>6

\* The messages taken are the second and those after it.
LEMMA WithoutElements ==
  ASSUME NEW s \in Seq(Message), NEW k \in 0..Len(s)
  PROVE  /\ Without(s, k) \in Seq(Message)
         /\ Len(Without(s, k)) = Len(s) - k
         /\ \A i \in 1..(Len(s) - k) :
              Without(s, k)[i] = IF i = 1 THEN s[1] ELSE s[i + k]
<1>1. Len(s) \in Nat /\ s \in [1..Len(s) -> Message]
  BY LenProperties
<1>2. Without(s, k) \in [1..(Len(s) - k) -> Message]
  BY <1>1 DEF Without
<1>3. Len(s) - k \in Nat
  BY <1>1
<1>4. Without(s, k) \in Seq(Message)
  BY <1>2, <1>3
<1>5. DOMAIN Without(s, k) = 1..(Len(s) - k)
  BY DEF Without
<1>6. Len(Without(s, k)) = Len(s) - k
  BY <1>3, <1>4, <1>5, LenProperties
<1>. QED BY <1>1, <1>4, <1>6 DEF Without

\* Trimming keeps pairs whole and the last one where it is.
LEMMA TrimmedIsWhole ==
  ASSUME NEW s \in Seq(Message), NEW n, Whole(s), Shows(s, n)
  PROVE  Trimmed(s) \in Seq(Message) /\ Whole(Trimmed(s)) /\ Shows(Trimmed(s), n)
<1>1. PICK k \in 0..Len(s) : Trimmed(s) = Without(s, k) /\ (k = 0 \/ Len(s) - k >= 3)
  BY TrimmingStops
<1>. DEFINE w == Without(s, k)
<1>2. Len(s) \in Nat /\ Len(s) - k >= 3
  BY <1>1, LenProperties DEF Shows
<1>3. /\ w \in Seq(Message) /\ Len(w) = Len(s) - k
      /\ \A i \in 1..(Len(s) - k) : w[i] = IF i = 1 THEN s[1] ELSE s[i + k]
  BY WithoutElements
<1>. HIDE DEF w
<1>4. w # <<>> /\ w[1].kind = "system"
  BY <1>2, <1>3 DEF Whole
<1>5. ASSUME NEW i \in 2..Len(w)
      PROVE  /\ w[i].kind = "call" =>
                  /\ i < Len(w)
                  /\ w[i + 1].kind = "result" /\ w[i + 1].of = w[i].of
             /\ w[i].kind = "result" /\ i > 2 =>
                  w[i - 1].kind = "call" /\ w[i - 1].of = w[i].of
  <2>1. w[i] = s[i + k] /\ i + k \in 2..Len(s)
    BY <1>2, <1>3
  <2>2. CASE w[i].kind = "call"
    <3>1. i + k < Len(s) /\ s[i + k + 1].kind = "result" /\ s[i + k + 1].of = s[i + k].of
      BY <2>1, <2>2 DEF Whole
    <3>2. i + 1 \in 1..(Len(s) - k) /\ w[i + 1] = s[i + 1 + k]
      BY <1>2, <1>3, <3>1
    <3>3. i + 1 + k = i + k + 1
      BY <1>2
    <3>. QED BY <1>2, <1>3, <2>1, <2>2, <3>1, <3>2, <3>3
  <2>3. CASE w[i].kind = "result" /\ i > 2
    <3>1. s[i + k - 1].kind = "call" /\ s[i + k - 1].of = s[i + k].of
      <4>1. ASSUME NEW h \in 2..Len(s), s[h].kind = "result", h > 2
            PROVE  s[h - 1].kind = "call" /\ s[h - 1].of = s[h].of
        BY <4>1 DEF Whole
      <4>2. i + k > 2 /\ s[i + k].kind = "result"
        BY <1>2, <2>1, <2>3
      <4>. QED BY <2>1, <4>1, <4>2
    <3>2. w[i - 1] = s[i - 1 + k]
      BY <1>2, <1>3, <2>3
    <3>3. i - 1 + k = i + k - 1
      BY <1>2
    <3>. QED BY <2>1, <2>3, <3>1, <3>2, <3>3
  <2>. QED BY <2>2, <2>3
<1>6. Shows(w, n)
  <2>1. w[Len(w)] = s[Len(s)]
    BY <1>2, <1>3
  <2>2. w[Len(w) - 1] = s[Len(s) - 1]
    BY <1>2, <1>3
  <2>. QED BY <1>2, <1>3, <2>1, <2>2 DEF Shows
<1>. QED BY <1>1, <1>3, <1>4, <1>5, <1>6 DEF w, Whole

\* A call and its result at the end keep pairs whole.
LEMMA ShownIsWhole ==
  ASSUME messages \in Seq(Message), Len(steps) \in Nat, thought \in Nat, Whole(messages)
  PROVE  Shown \in Seq(Message) /\ Whole(Shown) /\ Shows(Shown, Len(steps) + 1)
<1>. DEFINE n == Len(steps) + 1
            c == [kind |-> "call", of |-> n, size |-> thought]
            r == [kind |-> "result", of |-> n, size |-> 0]
            m == Append(messages, c)
<1>1. n \in Nat /\ c \in Message /\ r \in Message
  BY DEF Message
<1>2. Len(messages) \in Nat /\ Len(messages) >= 1
  BY LenProperties, EmptySeq DEF Whole
<1>3. /\ m \in Seq(Message) /\ Len(m) = Len(messages) + 1
      /\ m[Len(messages) + 1] = c
      /\ \A i \in 1..Len(messages) : m[i] = messages[i]
  BY <1>1, AppendProperties
<1>4. /\ Shown \in Seq(Message) /\ Len(Shown) = Len(m) + 1
      /\ Shown[Len(m) + 1] = r
      /\ \A i \in 1..Len(m) : Shown[i] = m[i]
  BY <1>1, <1>3, AppendProperties DEF Shown
<1>5. /\ Len(Shown) = Len(messages) + 2
      /\ Shown[Len(messages) + 1] = c /\ Shown[Len(messages) + 2] = r
      /\ \A i \in 1..Len(messages) : Shown[i] = messages[i]
  BY <1>2, <1>3, <1>4
<1>6. Shows(Shown, n)
  <2>1. Len(Shown) >= 3 /\ Len(Shown) - 1 = Len(messages) + 1
    BY <1>2, <1>5
  <2>. QED BY <1>5, <2>1 DEF Shows
<1>7. ASSUME NEW i \in 2..Len(Shown)
      PROVE  /\ Shown[i].kind = "call" =>
                  /\ i < Len(Shown)
                  /\ Shown[i + 1].kind = "result" /\ Shown[i + 1].of = Shown[i].of
             /\ Shown[i].kind = "result" /\ i > 2 =>
                  Shown[i - 1].kind = "call" /\ Shown[i - 1].of = Shown[i].of
  <2>1. CASE i <= Len(messages)
    <3>1. i \in 2..Len(messages) /\ Shown[i] = messages[i] /\ i - 1 \in 1..Len(messages)
      BY <1>2, <1>5, <2>1
    <3>2. Shown[i - 1] = messages[i - 1]
      BY <1>5, <3>1
    <3>3. messages[i].kind = "call" => i + 1 \in 1..Len(messages) /\ Shown[i + 1] = messages[i + 1]
      BY <1>2, <1>5, <3>1 DEF Whole
    <3>. QED BY <1>2, <1>5, <3>1, <3>2, <3>3 DEF Whole
  <2>2. CASE i = Len(messages) + 1
    <3>1. i + 1 = Len(messages) + 2 /\ i < Len(Shown)
      BY <1>2, <1>5, <2>2
    <3>. QED BY <1>5, <2>2, <3>1
  <2>3. CASE i = Len(messages) + 2
    <3>1. i - 1 = Len(messages) + 1
      BY <1>2, <2>3
    <3>. QED BY <1>5, <2>3, <3>1
  <2>. QED BY <1>2, <1>5, <2>1, <2>2, <2>3
<1>8. Shown # <<>> /\ Shown[1].kind = "system"
  BY <1>2, <1>5 DEF Whole
<1>. QED BY <1>4, <1>6, <1>7, <1>8 DEF Whole

LEMMA OpeningIsWhole == Opening \in Seq(Message) /\ Whole(Opening)
<1>. DEFINE n == Len(History) + 2
            e(i) == IF i = 1 THEN Plain("system", SystemSize)
                    ELSE IF i = n THEN Plain("question", QuestionSize)
                    ELSE Plain("history", History[i - 1])
<1>1. Len(History) \in Nat /\ \A i \in 1..Len(History) : History[i] \in Nat
  BY SizesAssumption, LenProperties, ElementOfSeq
<1>2. ASSUME NEW i \in 1..n PROVE e(i) \in Message
  <2>1. i # 1 /\ i # n => History[i - 1] \in Nat
    BY <1>1
  <2>. QED BY <2>1, SizesAssumption DEF Plain, Message
<1>3. Opening = [i \in 1..n |-> e(i)]
  BY DEF Opening
<1>4. n \in Nat
  BY <1>1
<1>5. Opening \in Seq(Message)
  <2>1. [i \in 1..n |-> e(i)] \in [1..n -> Message]
    BY <1>2
  <2>. QED BY <1>3, <1>4, <2>1
<1>6. Len(Opening) = n
  BY <1>3, <1>4, <1>5, LenProperties
<1>7. ASSUME NEW i \in 1..n PROVE Opening[i].kind \notin {"call", "result"}
  BY <1>3, <1>7 DEF Plain
<1>8. Opening # <<>> /\ Opening[1].kind = "system"
  BY <1>1, <1>3, <1>5, <1>6, EmptySeq DEF Plain
<1>. QED BY <1>1, <1>5, <1>6, <1>7, <1>8 DEF Whole

-----------------------------------------------------------------------------
(* What recording a step does to the steps *)

\* While the loop runs, a call's step comes last and is no answer.
LEMMA CallRecorded ==
  ASSUME TypeOK, Numbered, StepsInOrder, EndsWithAnswer, pc \in {"deciding", "acting"},
         stepNumber < MaxSteps,
         NEW action \in {"search", "call_tool", "unknown"},
         NEW R, R = Append(steps, Record(action, "succeeded"))
  PROVE  /\ R \in Seq(Step) /\ Len(R) = Len(steps) + 1 /\ Len(steps) \in Nat
         /\ R[Len(R)].action = action
         /\ \A i \in 1..Len(R) :
              /\ R[i].no <= stepNumber + 1
              /\ R[i].action # "answer" /\ R[i].status = "succeeded"
         /\ \A i, j \in 1..Len(R) : i < j => R[i].no <= R[j].no
<1>. DEFINE r == Record(action, "succeeded")
<1>1. r \in Step /\ r.no = stepNumber + 1 /\ r.action = action /\ r.status = "succeeded"
  BY DEF Record, Step, TypeOK
<1>2. steps \in Seq(Step) /\ Len(steps) \in Nat
  BY LenProperties DEF TypeOK
<1>3. /\ R \in Seq(Step) /\ Len(R) = Len(steps) + 1
      /\ R[Len(steps) + 1] = r
      /\ \A i \in 1..Len(steps) : R[i] = steps[i]
  BY <1>1, <1>2, AppendProperties
<1>4. ASSUME NEW i \in 1..Len(steps)
      PROVE  /\ steps[i].no <= stepNumber + 1 /\ steps[i].action # "answer"
             /\ steps[i].status = "succeeded" /\ steps[i] \in Step
  <2>1. steps[i] \in Step
    BY <1>2, ElementOfSeq
  <2>2. steps[i].no \in Nat /\ steps[i].status \in {"succeeded", "failed"} /\ stepNumber \in Nat
    BY <2>1 DEF Step, TypeOK
  <2>3. steps[i].action # "answer" /\ steps[i].status # "failed"
    BY DEF EndsWithAnswer
  <2>4. steps[i].no <= stepNumber + 1
    BY DEF Numbered
  <2>. QED BY <2>1, <2>2, <2>3, <2>4
<1>5. ASSUME NEW i \in 1..Len(R)
      PROVE  R[i].no <= stepNumber + 1 /\ R[i].action # "answer" /\ R[i].status = "succeeded"
  <2>1. CASE i \in 1..Len(steps)
    BY <1>3, <1>4, <2>1
  <2>2. CASE i = Len(steps) + 1
    BY <1>1, <1>3, <2>2 DEF TypeOK
  <2>. QED BY <1>2, <1>3, <2>1, <2>2
<1>6. ASSUME NEW i \in 1..Len(R), NEW j \in 1..Len(R), i < j PROVE R[i].no <= R[j].no
  <2>1. CASE j \in 1..Len(steps)
    <3>1. i \in 1..Len(steps)
      BY <1>2, <1>6, <2>1
    <3>. QED BY <1>3, <1>6, <2>1, <3>1 DEF StepsInOrder
  <2>2. CASE j = Len(steps) + 1
    BY <1>1, <1>3, <1>5, <2>2
  <2>. QED BY <1>2, <1>3, <2>1, <2>2
<1>. QED BY <1>1, <1>2, <1>3, <1>5, <1>6

\* A final step of a greater number than all that is recorded keeps the order.
LEMMA FinalRecorded ==
  ASSUME NEW R \in Seq(Step), NEW f \in Step, f.action = "answer",
         NEW F, F = Append(R, f),
         \A i \in 1..Len(R) :
           R[i].no < f.no /\ R[i].action # "answer" /\ R[i].status = "succeeded",
         \A i, j \in 1..Len(R) : i < j => R[i].no <= R[j].no
  PROVE  /\ F \in Seq(Step) /\ Len(F) = Len(R) + 1 /\ F # <<>>
         /\ F[Len(F)].action \in Final
         /\ \A i \in 1..Len(F) :
              /\ F[i].action = "answer" => i = Len(F)
              /\ F[i].status = "failed" => F[i].action = "answer"
         /\ \A i, j \in 1..Len(F) :
              i < j => /\ F[i].no <= F[j].no
                       /\ F[j].action = "answer" => F[i].no < F[j].no
<1>1. /\ F \in Seq(Step) /\ Len(F) = Len(R) + 1 /\ F # <<>>
      /\ F[Len(R) + 1] = f
      /\ \A i \in 1..Len(R) : F[i] = R[i]
  BY AppendProperties
<1>2. Len(R) \in Nat /\ f.no \in Nat
  BY LenProperties DEF Step
<1>3. ASSUME NEW i \in 1..Len(R) PROVE R[i].no \in Nat
  <2>1. R[i] \in Step
    BY <1>2, ElementOfSeq
  <2>. QED BY <2>1 DEF Step
<1>4. ASSUME NEW i \in 1..Len(F)
      PROVE  /\ F[i].action = "answer" => i = Len(F)
             /\ F[i].status = "failed" => F[i].action = "answer"
  BY <1>1, <1>2
<1>5. ASSUME NEW i \in 1..Len(F), NEW j \in 1..Len(F), i < j
      PROVE  /\ F[i].no <= F[j].no
             /\ F[j].action = "answer" => F[i].no < F[j].no
  <2>1. i \in 1..Len(R) /\ F[i] = R[i]
    BY <1>1, <1>2, <1>5
  <2>2. CASE j \in 1..Len(R)
    BY <1>1, <1>5, <2>1, <2>2
  <2>3. CASE j = Len(R) + 1
    BY <1>1, <1>2, <1>3, <2>1, <2>3
  <2>. QED BY <1>1, <1>2, <2>2, <2>3
<1>. QED BY <1>1, <1>4, <1>5 DEF Final

\* A loop that ends with its last decision ends with the final step, which gets
\* a number no step has.
LEMMA Concluded ==
  ASSUME TypeOK, Numbered, StepsInOrder, EndsWithAnswer, pc \in {"deciding", "acting"},
         stepNumber < MaxSteps,
         NEW action \in {"search", "call_tool", "unknown"},
         NEW R, R = Append(steps, Record(action, "succeeded")),
         NEW F, F = Conclude(R)
  PROVE  /\ F \in Seq(Step) /\ Len(F) >= Len(R) /\ F # <<>>
         /\ F[Len(F)].action \in Final
         /\ \A i \in 1..Len(F) :
              /\ F[i].action = "answer" => i = Len(F)
              /\ F[i].status = "failed" => F[i].action = "answer"
         /\ \A i, j \in 1..Len(F) :
              i < j => /\ F[i].no <= F[j].no
                       /\ F[j].action = "answer" => F[i].no < F[j].no
<1>1. /\ R \in Seq(Step) /\ Len(R) = Len(steps) + 1 /\ Len(steps) \in Nat
      /\ R[Len(R)].action = action
      /\ \A i \in 1..Len(R) :
           /\ R[i].no <= stepNumber + 1
           /\ R[i].action # "answer" /\ R[i].status = "succeeded"
      /\ \A i, j \in 1..Len(R) : i < j => R[i].no <= R[j].no
  BY CallRecorded
<1>2. CASE action = "unknown"
  <2>1. F = R /\ R # <<>>
    BY <1>1, <1>2, EmptySeq DEF Conclude
  <2>2. R[Len(R)].action \in Final
    BY <1>1, <1>2 DEF Final
  <2>3. ASSUME NEW i \in 1..Len(R)
        PROVE  R[i].action # "answer" /\ R[i].status # "failed"
    BY <1>1
  <2>4. \A i, j \in 1..Len(R) :
          i < j => /\ R[i].no <= R[j].no
                   /\ R[j].action = "answer" => R[i].no < R[j].no
    BY <1>1, <2>3
  <2>5. R \in Seq(Step) /\ Len(R) >= Len(R)
    BY <1>1
  <2>. HIDE <1>1
  <2>. QED BY <2>1, <2>2, <2>3, <2>4, <2>5
<1>3. CASE action # "unknown"
  <2>. DEFINE f == Forced(R)
  <2>1. f \in Step /\ f.action = "answer" /\ f.no = Len(R) + 1
    BY <1>1 DEF Forced, Step
  <2>2. F = Append(R, f)
    BY <1>1, <1>3 DEF Conclude
  <2>3. ASSUME NEW i \in 1..Len(R)
        PROVE  R[i].no < f.no /\ R[i].action # "answer" /\ R[i].status = "succeeded"
    <3>1. R[i] \in Step
      BY <1>1, ElementOfSeq
    <3>2. R[i].no \in Nat
      BY <3>1 DEF Step
    <3>3. stepNumber \in Nat /\ Len(steps) >= stepNumber
      BY DEF TypeOK, Numbered
    <3>. QED BY <1>1, <2>1, <3>2, <3>3
  <2>4. R \in Seq(Step) /\ \A i, j \in 1..Len(R) : i < j => R[i].no <= R[j].no
    BY <1>1
  <2>5. Len(R) + 1 >= Len(R)
    BY <1>1
  <2>. HIDE DEF f
  <2>6. /\ F \in Seq(Step) /\ Len(F) = Len(R) + 1 /\ F # <<>>
        /\ F[Len(F)].action \in Final
        /\ \A i \in 1..Len(F) :
             /\ F[i].action = "answer" => i = Len(F)
             /\ F[i].status = "failed" => F[i].action = "answer"
        /\ \A i, j \in 1..Len(F) :
             i < j => /\ F[i].no <= F[j].no
                      /\ F[j].action = "answer" => F[i].no < F[j].no
    BY <2>1, <2>2, <2>3, <2>4, FinalRecorded
  <2>. QED BY <2>5, <2>6
<1>. QED BY <1>2, <1>3

-----------------------------------------------------------------------------
(* The invariant *)

\* IInv in the terms of the lemmas above.
LEMMA WholeAndShown ==
  /\ PairsAreWhole <=> Whole(messages)
  /\ LastResultIsShown <=>
       (pc \in {"deciding", "acting"} /\ steps # <<>> => Shows(messages, Len(steps)))
BY DEF PairsAreWhole, LastResultIsShown, Whole, Shows

LEMMA InitialInvariant == Init => IInv
<1>. SUFFICES ASSUME Init PROVE IInv
  OBVIOUS
<1>1. messages \in Seq(Message) /\ Whole(messages)
  BY OpeningIsWhole DEF Init
<1>2. steps = <<>> /\ toolCalls = <<>> /\ pending = <<>> /\ pc = "deciding"
  BY DEF Init
<1>3. Len(steps) = 0 /\ Len(toolCalls) = 0
  BY <1>2
<1>4. TypeOK
  <2>1. steps \in Seq(Step) /\ toolCalls \in Seq(ToolCall) /\ pending \in Seq(Call)
    BY <1>2
  <2>2. stepNumber \in 0..MaxSteps /\ attempt \in 1..Models /\ rounds \in 0..MaxRounds
    BY LimitsAssumption DEF Init
  <2>. QED BY <1>1, <2>1, <2>2 DEF Init, TypeOK
<1>5. PairsAreWhole /\ LastResultIsShown
  BY <1>1, <1>2, WholeAndShown
<1>6. ActsOnCalls
  BY <1>2 DEF ActsOnCalls
<1>7. Numbered
  BY <1>3, LimitsAssumption DEF Init, Numbered
<1>8. ToolIdsGrow /\ EndsWithAnswer /\ StepsInOrder
  BY <1>2, <1>3 DEF ToolIdsGrow, EndsWithAnswer, StepsInOrder
<1>. QED BY <1>4, <1>5, <1>6, <1>7, <1>8 DEF IInv

\* A call that has been made keeps the invariant, whatever tool calls are.
LEMMA CallKeeps ==
  ASSUME IInv, pc = "acting",
         NEW action \in {"search", "call_tool", "unknown"}, Observe(action),
         UNCHANGED <<debug, attempt, thought, answer>>,
         rounds' \in 0..MaxRounds,
         toolCalls' \in Seq(ToolCall),
         \A i \in 1..Len(toolCalls') : toolCalls'[i].no <= Len(steps),
         \A i, j \in 1..Len(toolCalls') : i < j => toolCalls'[i].no < toolCalls'[j].no
  PROVE  IInv'
<1>. DEFINE R == Append(steps, Record(action, "succeeded"))
<1>1. TypeOK /\ Numbered /\ StepsInOrder /\ EndsWithAnswer /\ stepNumber < MaxSteps
  BY DEF IInv, Numbered
<1>2. /\ R \in Seq(Step) /\ Len(R) = Len(steps) + 1 /\ Len(steps) \in Nat
      /\ R[Len(R)].action = action
      /\ \A i \in 1..Len(R) :
           /\ R[i].no <= stepNumber + 1
           /\ R[i].action # "answer" /\ R[i].status = "succeeded"
      /\ \A i, j \in 1..Len(R) : i < j => R[i].no <= R[j].no
  BY <1>1, CallRecorded
<1>3. Shown \in Seq(Message) /\ Whole(Shown) /\ Shows(Shown, Len(steps) + 1)
  BY <1>1, <1>2, ShownIsWhole, WholeAndShown DEF IInv, TypeOK
<1>4. Trimmed(Shown) \in Seq(Message) /\ Whole(Trimmed(Shown))
      /\ Shows(Trimmed(Shown), Len(steps) + 1)
  BY <1>3, TrimmedIsWhole
<1>5. /\ pending \in Seq(Call) /\ pending # <<>> /\ Len(pending) \in Nat
      /\ pending' = Tail(pending) /\ Tail(pending) \in Seq(Call)
      /\ Len(Tail(pending)) = Len(pending) - 1
  BY HeadTailProperties, LenProperties DEF IInv, TypeOK, ActsOnCalls, Observe
<1>6. /\ debug' \in BOOLEAN /\ attempt' \in 1..Models /\ thought' \in Nat
      /\ answer' \in {"none", "text", "empty", "apology", "debug"}
      /\ stepNumber \in Nat /\ MaxSteps \in Nat
  BY <1>1, LimitsAssumption DEF TypeOK
<1>7. CASE Len(pending) > 1
  <2>1. /\ messages' = Shown /\ steps' = R /\ pc' = "acting" /\ stepNumber' = stepNumber
    <3>1. Len(pending) # 1
      BY <1>5, <1>7
    <3>. QED BY <3>1 DEF Observe
  <2>. HIDE DEF R
  <2>2. TypeOK'
    BY <1>1, <1>2, <1>3, <1>5, <1>6, <2>1 DEF TypeOK
  <2>3. ActsOnCalls'
    <3>1. Len(pending') # 0
      BY <1>5, <1>7
    <3>2. pending' # <<>>
      BY <3>1, EmptySeq
    <3>. QED BY <2>1, <3>2 DEF ActsOnCalls
  <2>4. Numbered'
    BY <1>1, <1>2, <1>6, <2>1 DEF Numbered
  <2>5. ToolIdsGrow'
    <3>1. ASSUME NEW i \in 1..Len(toolCalls') PROVE toolCalls'[i].no < Len(R)
      <4>1. toolCalls'[i] \in ToolCall
        BY ElementOfSeq
      <4>. QED BY <1>2, <4>1 DEF ToolCall
    <3>. QED BY <2>1, <3>1 DEF ToolIdsGrow
  <2>6. PairsAreWhole'
    BY <1>3, <2>1 DEF PairsAreWhole, Whole
  <2>7. LastResultIsShown'
    BY <1>2, <1>3, <2>1 DEF LastResultIsShown, Shows
  <2>8. EndsWithAnswer'
    BY <1>2, <2>1 DEF EndsWithAnswer
  <2>9. StepsInOrder'
    BY <1>2, <2>1 DEF StepsInOrder
  <2>. QED BY <2>2, <2>3, <2>4, <2>5, <2>6, <2>7, <2>8, <2>9 DEF IInv
<1>8. CASE Len(pending) = 1
  <2>1. /\ messages' = Trimmed(Shown) /\ stepNumber' = stepNumber + 1
        /\ \/ stepNumber' < MaxSteps /\ pc' = "deciding" /\ steps' = R
           \/ stepNumber' = MaxSteps /\ pc' = "answering" /\ steps' = Conclude(R)
    BY <1>5, <1>8 DEF Observe
  <2>2. ActsOnCalls'
    BY <1>5, <1>8, <2>1, EmptySeq DEF ActsOnCalls
  <2>3. PairsAreWhole'
    BY <1>4, <2>1 DEF PairsAreWhole, Whole
  <2>4. /\ Conclude(R) \in Seq(Step) /\ Len(Conclude(R)) >= Len(R) /\ Conclude(R) # <<>>
        /\ Conclude(R)[Len(Conclude(R))].action \in Final
        /\ \A i \in 1..Len(Conclude(R)) :
             /\ Conclude(R)[i].action = "answer" => i = Len(Conclude(R))
             /\ Conclude(R)[i].status = "failed" => Conclude(R)[i].action = "answer"
        /\ \A i, j \in 1..Len(Conclude(R)) :
             i < j => /\ Conclude(R)[i].no <= Conclude(R)[j].no
                      /\ Conclude(R)[j].action = "answer" => Conclude(R)[i].no < Conclude(R)[j].no
    BY <1>1, Concluded
  <2>. DEFINE C == Conclude(R)
  <2>5. Len(C) \in Nat
    BY <2>4, LenProperties
  <2>. HIDE DEF R, C
  <2>6. TypeOK'
    <3>1. steps' \in Seq(Step) /\ stepNumber' \in 0..MaxSteps
      BY <1>2, <1>6, <2>1, <2>4 DEF C
    <3>. QED BY <1>4, <1>5, <1>6, <2>1, <3>1 DEF TypeOK
  <2>7. CASE stepNumber' < MaxSteps /\ pc' = "deciding" /\ steps' = R
    <3>1. Numbered'
      <4>1. Len(R) >= stepNumber'
        BY <1>1, <1>2, <1>6, <2>1 DEF Numbered
      <4>2. ASSUME NEW i \in 1..Len(R)
            PROVE  R[i].no <= stepNumber' /\ R[i].no <= stepNumber' + 1
        <5>1. R[i] \in Step
          BY <1>2, ElementOfSeq
        <5>2. R[i].no \in Nat
          BY <5>1 DEF Step
        <5>. QED BY <1>2, <1>6, <2>1, <5>2
      <4>. QED BY <2>7, <4>1, <4>2 DEF Numbered
    <3>2. ToolIdsGrow'
      <4>1. ASSUME NEW i \in 1..Len(toolCalls') PROVE toolCalls'[i].no < Len(R)
        <5>1. toolCalls'[i] \in ToolCall
          BY ElementOfSeq
        <5>. QED BY <1>2, <5>1 DEF ToolCall
      <4>. QED BY <2>7, <4>1 DEF ToolIdsGrow
    <3>3. LastResultIsShown'
      BY <1>2, <1>4, <2>1, <2>7 DEF LastResultIsShown, Shows
    <3>4. EndsWithAnswer'
      BY <1>2, <2>7 DEF EndsWithAnswer
    <3>5. StepsInOrder'
      BY <1>2, <2>7 DEF StepsInOrder
    <3>. QED BY <2>2, <2>3, <2>6, <3>1, <3>2, <3>3, <3>4, <3>5 DEF IInv
  <2>8. CASE stepNumber' = MaxSteps /\ pc' = "answering" /\ steps' = C
    <3>1. Numbered'
      BY <1>1, <1>2, <1>6, <2>1, <2>4, <2>5, <2>8 DEF Numbered, C
    <3>2. ToolIdsGrow'
      <4>1. ASSUME NEW i \in 1..Len(toolCalls') PROVE toolCalls'[i].no < Len(C)
        <5>1. toolCalls'[i] \in ToolCall
          BY ElementOfSeq
        <5>2. Len(C) >= Len(R)
          BY <2>4 DEF C
        <5>. QED BY <1>2, <2>5, <5>1, <5>2 DEF ToolCall
      <4>. QED BY <2>8, <4>1 DEF ToolIdsGrow
    <3>3. LastResultIsShown'
      BY <2>8 DEF LastResultIsShown
    <3>4. EndsWithAnswer'
      BY <2>4, <2>8 DEF EndsWithAnswer, C
    <3>5. StepsInOrder'
      BY <2>4, <2>8 DEF StepsInOrder, C
    <3>. QED BY <2>2, <2>3, <2>6, <3>1, <3>2, <3>3, <3>4, <3>5 DEF IInv
  <2>. QED BY <2>1, <2>7, <2>8 DEF C
<1>. QED BY <1>5, <1>7, <1>8, EmptySeq

\* A decision that ends the loop keeps it.
LEMMA AnswerKeeps ==
  ASSUME IInv, pc = "deciding", NEW status \in {"succeeded", "failed"},
         steps' = Append(steps, Record("answer", status)),
         pc' \in {"answering", "returned"}, attempt' \in 1..Models,
         answer' \in {"none", "text", "empty", "apology", "debug"},
         UNCHANGED <<debug, stepNumber, thought, pending, rounds, messages, toolCalls>>
  PROVE  IInv'
<1>. DEFINE f == Record("answer", status)
<1>1. /\ steps \in Seq(Step) /\ Len(steps) \in Nat /\ stepNumber \in Nat
      /\ toolCalls \in Seq(ToolCall)
  BY LenProperties DEF IInv, TypeOK
<1>2. f \in Step /\ f.action = "answer" /\ f.no = stepNumber + 1
  BY <1>1 DEF Record, Step
<1>3. ASSUME NEW i \in 1..Len(steps)
      PROVE  steps[i].no < f.no /\ steps[i].action # "answer" /\ steps[i].status = "succeeded"
  <2>1. steps[i] \in Step
    BY <1>1, ElementOfSeq
  <2>2. steps[i].no \in Nat /\ steps[i].status \in {"succeeded", "failed"}
    BY <2>1 DEF Step
  <2>3. steps[i].no <= stepNumber
    BY DEF IInv, Numbered
  <2>4. steps[i].action # "answer" /\ steps[i].status # "failed"
    BY DEF IInv, EndsWithAnswer
  <2>. QED BY <1>1, <1>2, <2>2, <2>3, <2>4
<1>4. \A i, j \in 1..Len(steps) : i < j => steps[i].no <= steps[j].no
  BY DEF IInv, StepsInOrder
<1>. HIDE DEF f
<1>5. steps' = Append(steps, f)
  BY DEF f
<1>6. /\ steps' \in Seq(Step) /\ Len(steps') = Len(steps) + 1 /\ steps' # <<>>
      /\ steps'[Len(steps')].action \in Final
      /\ \A i \in 1..Len(steps') :
           /\ steps'[i].action = "answer" => i = Len(steps')
           /\ steps'[i].status = "failed" => steps'[i].action = "answer"
      /\ \A i, j \in 1..Len(steps') :
           i < j => /\ steps'[i].no <= steps'[j].no
                    /\ steps'[j].action = "answer" => steps'[i].no < steps'[j].no
  BY <1>1, <1>2, <1>3, <1>4, <1>5, FinalRecorded
<1>7. TypeOK'
  BY <1>6 DEF IInv, TypeOK
<1>8. ActsOnCalls'
  BY DEF IInv, ActsOnCalls
<1>9. Numbered'
  <2>1. Len(steps') >= stepNumber'
    BY <1>1, <1>6 DEF IInv, Numbered
  <2>. QED BY <2>1 DEF Numbered
<1>10. ToolIdsGrow'
  <2>1. ASSUME NEW i \in 1..Len(toolCalls) PROVE toolCalls[i].no < Len(steps')
    <3>1. toolCalls[i] \in ToolCall
      BY <1>1, ElementOfSeq
    <3>2. toolCalls[i].no \in Nat
      BY <3>1 DEF ToolCall
    <3>3. toolCalls[i].no < Len(steps)
      BY DEF IInv, ToolIdsGrow
    <3>. QED BY <1>1, <1>6, <3>2, <3>3
  <2>. QED BY <2>1 DEF IInv, ToolIdsGrow
<1>11. PairsAreWhole'
  BY DEF IInv, PairsAreWhole
<1>12. LastResultIsShown'
  BY DEF LastResultIsShown
<1>13. EndsWithAnswer' /\ StepsInOrder'
  BY <1>6 DEF EndsWithAnswer, StepsInOrder
<1>. QED BY <1>7, <1>8, <1>9, <1>10, <1>11, <1>12, <1>13 DEF IInv

\* So does a step that neither shows nor records anything.
LEMMA QuietKeeps ==
  ASSUME IInv, TypeOK', ActsOnCalls',
         UNCHANGED <<stepNumber, messages, steps, toolCalls>>,
         \/ pc' = pc
         \/ pc = "deciding" /\ pc' = "acting"
         \/ pc = "acting" /\ pc' = "thrown"
         \/ pc = "answering" /\ pc' = "returned"
  PROVE  IInv'
<1>1. Numbered'
  <2>1. Len(steps) >= stepNumber
    BY DEF IInv, Numbered
  <2>2. ASSUME pc' \in {"deciding", "acting"}
        PROVE  stepNumber < MaxSteps /\ \A i \in 1..Len(steps) : steps[i].no <= stepNumber + 1
    BY <2>2 DEF IInv, Numbered
  <2>3. ASSUME pc' = "deciding" PROVE \A i \in 1..Len(steps) : steps[i].no <= stepNumber
    BY <2>3 DEF IInv, Numbered
  <2>. QED BY <2>1, <2>2, <2>3 DEF Numbered
<1>2. ToolIdsGrow' /\ PairsAreWhole' /\ StepsInOrder'
  BY DEF IInv, ToolIdsGrow, PairsAreWhole, StepsInOrder
<1>3. LastResultIsShown'
  BY DEF IInv, LastResultIsShown
<1>4. EndsWithAnswer'
  BY DEF IInv, EndsWithAnswer
<1>. QED BY <1>1, <1>2, <1>3, <1>4 DEF IInv

\* A tool call takes the position of its step, which no call has.
LEMMA CallToolKeeps == IInv /\ CallTool => IInv'
<1>. SUFFICES ASSUME IInv, CallTool PROVE IInv'
  OBVIOUS
<1>1. PICK status \in {"succeeded", "failed"} :
        toolCalls' = Append(toolCalls, [name |-> Current.name, no |-> Len(steps), status |-> status])
  BY DEF CallTool, ToolId
<1>. DEFINE c == [name |-> Current.name, no |-> Len(steps), status |-> status]
<1>2. /\ toolCalls \in Seq(ToolCall) /\ Len(toolCalls) \in Nat /\ Len(steps) \in Nat
      /\ pending \in Seq(Call) /\ pending # <<>>
  BY LenProperties DEF IInv, TypeOK, ActsOnCalls, CallTool
<1>3. Current \in Call /\ Current.kind = "call_tool"
  BY <1>2, HeadTailProperties DEF Current, CallTool
<1>4. c \in ToolCall
  BY <1>2, <1>3 DEF Call, ToolCall
<1>5. ASSUME NEW i \in 1..Len(toolCalls)
      PROVE  toolCalls[i].no \in Nat /\ toolCalls[i].no < Len(steps)
  <2>1. toolCalls[i] \in ToolCall
    BY <1>2, ElementOfSeq
  <2>. QED BY <2>1 DEF IInv, ToolIdsGrow, ToolCall
<1>6. /\ toolCalls' \in Seq(ToolCall) /\ Len(toolCalls') = Len(toolCalls) + 1
      /\ toolCalls'[Len(toolCalls) + 1] = c
      /\ \A i \in 1..Len(toolCalls) : toolCalls'[i] = toolCalls[i]
  BY <1>1, <1>2, <1>4, AppendProperties
<1>7. \A i \in 1..Len(toolCalls') : toolCalls'[i].no <= Len(steps)
  BY <1>2, <1>5, <1>6
<1>8. ASSUME NEW i \in 1..Len(toolCalls'), NEW j \in 1..Len(toolCalls'), i < j
      PROVE  toolCalls'[i].no < toolCalls'[j].no
  <2>1. i \in 1..Len(toolCalls)
    BY <1>2, <1>6, <1>8
  <2>2. CASE j \in 1..Len(toolCalls)
    BY <1>6, <1>8, <2>1, <2>2 DEF IInv, ToolIdsGrow
  <2>3. CASE j = Len(toolCalls) + 1
    BY <1>5, <1>6, <2>1, <2>3
  <2>. QED BY <1>2, <1>6, <2>2, <2>3
<1>9. /\ pc = "acting" /\ Observe("call_tool") /\ rounds' \in 0..MaxRounds
      /\ UNCHANGED <<debug, attempt, thought, answer>>
  BY DEF CallTool, IInv, TypeOK
<1>. QED BY <1>6, <1>7, <1>8, <1>9, CallKeeps

LEMMA StepKeeps == IInv /\ [Next]_vars => IInv'
<1>. SUFFICES ASSUME IInv, [Next]_vars PROVE IInv'
  OBVIOUS
<1>. USE LimitsAssumption
<1>0. /\ debug \in BOOLEAN /\ attempt \in 1..Models /\ rounds \in 0..MaxRounds
      /\ answer \in {"none", "text", "empty", "apology", "debug"}
      /\ 1 \in 1..Models
      /\ \A i \in 1..Len(toolCalls) : toolCalls[i].no <= Len(steps)
      /\ \A i, j \in 1..Len(toolCalls) : i < j => toolCalls[i].no < toolCalls[j].no
      /\ toolCalls \in Seq(ToolCall)
  <2>1. toolCalls \in Seq(ToolCall) /\ Len(toolCalls) \in Nat /\ Len(steps) \in Nat
    BY LenProperties DEF IInv, TypeOK
  <2>2. ASSUME NEW i \in 1..Len(toolCalls) PROVE toolCalls[i].no <= Len(steps)
    <3>1. toolCalls[i] \in ToolCall
      BY <2>1, ElementOfSeq
    <3>2. toolCalls[i].no \in Nat /\ toolCalls[i].no < Len(steps)
      BY <3>1 DEF ToolCall, IInv, ToolIdsGrow
    <3>. QED BY <2>1, <3>2
  <2>. QED BY <2>1, <2>2 DEF IInv, TypeOK, ToolIdsGrow
<1>1. CASE DebugAnswer
  BY <1>0, <1>1, AnswerKeeps DEF DebugAnswer
<1>2. CASE ModelFails
  <2>1. TypeOK' /\ ActsOnCalls'
    BY <1>2 DEF ModelFails, IInv, TypeOK, ActsOnCalls
  <2>. QED BY <1>2, <2>1, QuietKeeps DEF ModelFails
<1>3. CASE DecisionFails
  BY <1>0, <1>3, AnswerKeeps DEF DecisionFails
<1>4. CASE DecideToAnswer
  BY <1>0, <1>4, AnswerKeeps DEF DecideToAnswer
<1>5. CASE DecideToAct
  <2>1. PICK n \in 1..MaxCalls : pending' \in [1..n -> Call]
    BY <1>5 DEF DecideToAct, Decision
  <2>2. pending' \in Seq(Call) /\ pending' # <<>>
    <3>1. n \in Nat /\ n > 0
      BY <2>1
    <3>2. pending' \in Seq(Call)
      BY <2>1, <3>1
    <3>3. Len(pending') = n
      BY <2>1, <3>1, <3>2, LenProperties
    <3>. QED BY <3>1, <3>2, <3>3, EmptySeq
  <2>3. thought' \in Nat
    BY <1>5, SizesAssumption DEF DecideToAct
  <2>4. TypeOK' /\ ActsOnCalls'
    BY <1>0, <1>5, <2>2, <2>3 DEF DecideToAct, IInv, TypeOK, ActsOnCalls
  <2>. QED BY <1>5, <2>4, QuietKeeps DEF DecideToAct
<1>6. CASE SkipSearch
  BY <1>0, <1>6, CallKeeps DEF SkipSearch
<1>7. CASE Search
  <2>1. rounds' \in 0..MaxRounds
    BY <1>0, <1>7 DEF Search
  <2>. QED BY <1>0, <1>7, <2>1, CallKeeps DEF Search
<1>8. CASE SearchThrows
  <2>1. TypeOK' /\ ActsOnCalls'
    BY <1>0, <1>8 DEF SearchThrows, IInv, TypeOK, ActsOnCalls
  <2>. QED BY <1>8, <2>1, QuietKeeps DEF SearchThrows
<1>9. CASE CallTool
  BY <1>9, CallToolKeeps
<1>10. CASE RefuseUnknown
  BY <1>0, <1>10, CallKeeps DEF RefuseUnknown
<1>11. CASE Answer
  <2>1. TypeOK' /\ ActsOnCalls'
    BY <1>11 DEF Answer, IInv, TypeOK, ActsOnCalls
  <2>. QED BY <1>11, <2>1, QuietKeeps DEF Answer
<1>12. CASE Apologise
  <2>1. TypeOK' /\ ActsOnCalls'
    BY <1>12 DEF Apologise, IInv, TypeOK, ActsOnCalls
  <2>. QED BY <1>12, <2>1, QuietKeeps DEF Apologise
<1>13. CASE UNCHANGED vars
  <2>1. TypeOK' /\ ActsOnCalls'
    BY <1>13 DEF vars, IInv, TypeOK, ActsOnCalls
  <2>. QED BY <1>13, <2>1, QuietKeeps DEF vars
<1>. QED BY <1>1, <1>2, <1>3, <1>4, <1>5, <1>6, <1>7, <1>8, <1>9, <1>10, <1>11, <1>12,
            <1>13 DEF Next

\* The inductive invariant of the loop: what its counters, its messages, its
\* steps and the ids of its tool calls have to do with each other, whatever
\* models, tools and the retrieval backend do (agent-loop.ts:395-561).
THEOREM InductiveInvariant == Spec => []IInv
BY InitialInvariant, StepKeeps, PTL DEF Spec

\* In particular the limits on decisions and on searches hold, and a failed model
\* never leaves the list (agent-loop.ts:395, :499).
THEOREM TypeCorrect == Spec => []TypeOK
<1>1. IInv => TypeOK
  BY DEF IInv
<1>. QED BY <1>1, InductiveInvariant, PTL

\* No two tool calls of a run share an id (agent-loop.ts:283).
THEOREM ToolCallIds == Spec => []ToolIdsDiffer
<1>1. IInv => ToolIdsDiffer
  <2>. SUFFICES ASSUME IInv, NEW i \in 1..Len(toolCalls), NEW j \in 1..Len(toolCalls), i # j
                PROVE  toolCalls[i].no # toolCalls[j].no
    BY DEF ToolIdsDiffer
  <2>1. toolCalls \in Seq(ToolCall) /\ Len(toolCalls) \in Nat
    BY LenProperties DEF IInv, TypeOK
  <2>2. toolCalls[i] \in ToolCall /\ toolCalls[j] \in ToolCall
    BY <2>1, ElementOfSeq
  <2>3. toolCalls[i].no \in Nat /\ toolCalls[j].no \in Nat
    BY <2>2 DEF ToolCall
  <2>4. i < j => toolCalls[i].no < toolCalls[j].no
    BY DEF IInv, ToolIdsGrow
  <2>5. j < i => toolCalls[j].no < toolCalls[i].no
    BY DEF IInv, ToolIdsGrow
  <2>. QED BY <2>1, <2>3, <2>4, <2>5
<1>. QED BY <1>1, InductiveInvariant, PTL

\* Trimming, whatever the budget and the sizes, takes messages from the front
\* only: a call keeps its result (agent-loop.ts:328-333).
THEOREM MessagesArePaired == Spec => []PairsAreWhole
<1>1. IInv => PairsAreWhole
  BY DEF IInv
<1>. QED BY <1>1, InductiveInvariant, PTL

\* It never takes what the model has not yet seen (agent-loop.ts:330).
THEOREM NothingUnseenIsTrimmed == Spec => []LastResultIsShown
<1>1. IInv => LastResultIsShown
  BY DEF IInv
<1>. QED BY <1>1, InductiveInvariant, PTL

\* Every run that is answered ends its record with one final step, also when the
\* loop is exhausted or the models fail (agent-loop.ts:414-488, :549-561).
THEOREM OneFinalStep == Spec => []EndsWithAnswer
<1>1. IInv => EndsWithAnswer
  BY DEF IInv
<1>. QED BY <1>1, InductiveInvariant, PTL

\* The numbers of the steps never go down, and the final step's is its own
\* (agent-loop.ts:148, :554).
THEOREM NumbersGrow == Spec => []StepsInOrder
<1>1. IInv => StepsInOrder
  BY DEF IInv
<1>. QED BY <1>1, InductiveInvariant, PTL
=============================================================================
