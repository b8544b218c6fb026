--------------------------- MODULE ServicesProofs ---------------------------
(***************************************************************************)
(* Proofs about the services that share no state with each other: the      *)
(* agent's invocation, the rate limiter, the validator of drafts, the runs *)
(* of the drafts it lets through, and the properties of the two pure ones  *)
(* for every input.                                                        *)
(***************************************************************************)
EXTENDS MCServices, IngestionProofs, FiniteSetTheorems

-----------------------------------------------------------------------------
(* The agent, for any tools, any bound on the rounds and any number of calls *)
(* in a response                                                             *)

Results == [name : config.tools \cap config.shipped, result : {"value", "error"}]

AgentTyped ==
    /\ config \in Configs
    /\ phase \in {"start", "resolve", "ask", "tools", "completed", "failed"}
    /\ round \in 0 .. MaxToolRounds /\ calls \in 0 .. MaxToolRounds + 1
    /\ completed \in Seq(Results) /\ pending \in Seq(Tools) /\ asked \in Seq(Tools)

\* What the model asked for is what it has been shown the result of, followed by
\* what is still to be called.
ConversationAdds ==
    /\ Len(asked) = Len(completed) + Len(pending)
    /\ \A i \in 1 .. Len(completed) : asked[i] = completed[i].name
    /\ \A i \in 1 .. Len(pending) : asked[Len(completed) + i] = pending[i]

\* Where the invocation stands, phase by phase.
PhaseIsSound ==
    /\ phase \in {"start", "resolve"} =>
         completed = <<>> /\ pending = <<>> /\ asked = <<>> /\ round = 0 /\ calls = 0
    /\ phase \in {"resolve", "ask", "tools", "completed"} /\ Grounds => searched
    /\ phase \in {"ask", "tools", "completed"} => config.tools \subseteq config.shipped
    /\ phase = "ask" => calls = round
    /\ phase = "tools" => calls = round + 1 /\ round < MaxToolRounds /\ pending # <<>>
    /\ phase \in {"ask", "completed"} => pending = <<>>

AInv == AgentTyped /\ PhaseIsSound /\ (phase # "failed" => ConversationAdds)

LEMMA InitAInv == AgentInit => AInv
<1> SUFFICES ASSUME AgentInit PROVE AInv
  OBVIOUS
<1>1. AgentTyped
  BY AgentAssumption DEF AgentInit, AgentTyped
<1>2. PhaseIsSound /\ ConversationAdds
  BY DEF AgentInit, PhaseIsSound, ConversationAdds
<1> QED  BY <1>1, <1>2 DEF AInv

LEMMA NextAInv == ASSUME AInv, [AgentNext]_agentVars PROVE AInv'
<1> USE AgentAssumption
<1>1. AgentTyped /\ PhaseIsSound /\ (phase # "failed" => ConversationAdds)
  BY DEF AInv
<1>2. CASE Ground
  <2>1. AgentTyped'
    BY <1>1, <1>2 DEF Ground, AgentTyped, Results
  <2>2. PhaseIsSound' /\ ConversationAdds'
    BY <1>1, <1>2 DEF Ground, PhaseIsSound, ConversationAdds, Grounds
  <2> QED  BY <2>1, <2>2 DEF AInv
<1>3. CASE ResolveTools
  <2>1. AgentTyped'
    BY <1>1, <1>3 DEF ResolveTools, AgentTyped, Results
  <2>2. PhaseIsSound' /\ ConversationAdds'
    BY <1>1, <1>3 DEF ResolveTools, PhaseIsSound, ConversationAdds, Grounds
  <2> QED  BY <2>1, <2>2 DEF AInv
<1>4. CASE ModelRefuses \/ ModelAnswers
  <2>1. AgentTyped'
    <3>1. calls = round /\ calls' = calls + 1 /\ round \in 0 .. MaxToolRounds
      BY <1>1, <1>4 DEF ModelRefuses, ModelAnswers, AgentTyped, PhaseIsSound
    <3>2. calls' \in 0 .. MaxToolRounds + 1
      BY <3>1
    <3> QED  BY <1>1, <1>4, <3>2 DEF ModelRefuses, ModelAnswers, AgentTyped, Results
  <2>2. PhaseIsSound' /\ ConversationAdds'
    BY <1>1, <1>4 DEF ModelRefuses, ModelAnswers, PhaseIsSound, ConversationAdds, Grounds
  <2> QED  BY <2>1, <2>2 DEF AInv
<1>5. CASE ModelAsks
  <2>1. /\ phase = "ask" /\ calls = round /\ calls' = calls + 1 /\ pending = <<>> /\ ConversationAdds
        /\ UNCHANGED <<config, invocation, searched, round, completed>>
    BY <1>1, <1>5 DEF ModelAsks, PhaseIsSound
  <2>2. CASE round = MaxToolRounds
    <3>1. phase' = "failed" /\ UNCHANGED <<pending, asked>>
      BY <1>5, <2>2 DEF ModelAsks
    <3>2. AgentTyped'
      BY <1>1, <2>1, <3>1 DEF AgentTyped, Results
    <3>3. PhaseIsSound'
      BY <3>1 DEF PhaseIsSound
    <3> QED  BY <3>1, <3>2, <3>3 DEF AInv
  <2>3. CASE round # MaxToolRounds
    <3>1. PICK batch \in BoundedSeq(Tools, MaxBatch) \ {<<>>} :
              phase' = "tools" /\ pending' = batch /\ asked' = asked \o batch
      BY <1>5, <2>3 DEF ModelAsks
    <3>2. batch \in Seq(Tools) /\ batch # <<>>
      <4>1. PICK m \in 0 .. MaxBatch : batch \in [1 .. m -> Tools]
        BY <3>1 DEF BoundedSeq, SeqOf
      <4> QED  BY <3>1, <4>1
    <3>3. round \in 0 .. MaxToolRounds /\ round < MaxToolRounds /\ calls' = round + 1
      BY <1>1, <2>1, <2>3 DEF AgentTyped
    <3>4. AgentTyped'
      BY <1>1, <2>1, <3>1, <3>2, <3>3 DEF AgentTyped, Results
    <3>5. PhaseIsSound'
      BY <1>1, <2>1, <3>1, <3>2, <3>3 DEF PhaseIsSound, Grounds
    <3>6. ConversationAdds'
      <4>1. Len(asked) = Len(completed) /\ Len(completed) \in Nat /\ asked \in Seq(Tools)
        BY <1>1, <2>1 DEF ConversationAdds, AgentTyped
      <4>2. /\ Len(asked') = Len(asked) + Len(batch) /\ Len(batch) \in Nat
            /\ \A i \in 1 .. Len(asked) + Len(batch) :
                 asked'[i] = IF i <= Len(asked) THEN asked[i] ELSE batch[i - Len(asked)]
        <5>1. /\ Len(asked \o batch) = Len(asked) + Len(batch)
              /\ \A i \in 1 .. Len(asked) + Len(batch) :
                   (asked \o batch)[i] = IF i <= Len(asked) THEN asked[i] ELSE batch[i - Len(asked)]
          BY <3>2, <4>1, ConcatProperties, Zenon
        <5>2. Len(batch) \in Nat
          BY <3>2
        <5> QED  BY <3>1, <5>1, <5>2, Zenon
      <4>3. \A i \in 1 .. Len(completed) : asked'[i] = completed[i].name
        BY <2>1, <4>1, <4>2 DEF ConversationAdds
      <4>4. ASSUME NEW i \in 1 .. Len(batch)  PROVE asked'[Len(completed) + i] = batch[i]
        <5> DEFINE k == Len(asked) + i
        <5>1. k \in 1 .. Len(asked) + Len(batch) /\ ~ (k <= Len(asked)) /\ k - Len(asked) = i
          BY <4>1, <4>2
        <5>2. k = Len(completed) + i
          BY <4>1
        <5> HIDE DEF k
        <5> QED  BY <4>2, <5>1, <5>2
      <4> QED  BY <2>1, <3>1, <4>1, <4>2, <4>3, <4>4 DEF ConversationAdds
    <3> QED  BY <3>4, <3>5, <3>6 DEF AInv
  <2> QED  BY <2>2, <2>3
<1>6. CASE CallTool
  <2>1. /\ phase = "tools" /\ calls = round + 1 /\ round < MaxToolRounds /\ pending # <<>>
        /\ pending \in Seq(Tools) /\ completed \in Seq(Results) /\ asked \in Seq(Tools)
        /\ ConversationAdds /\ config.tools \subseteq config.shipped
        /\ UNCHANGED <<config, invocation, searched, asked, calls>>
        /\ round \in 0 .. MaxToolRounds
    BY <1>1, <1>6 DEF CallTool, PhaseIsSound, AgentTyped
  <2>2. CASE Head(pending) \notin config.tools
    <3>1. phase' = "failed" /\ UNCHANGED <<round, completed, pending>>
      BY <1>6, <2>2 DEF CallTool
    <3>2. AgentTyped'
      BY <1>1, <2>1, <3>1 DEF AgentTyped, Results
    <3>3. PhaseIsSound'
      BY <3>1 DEF PhaseIsSound
    <3> QED  BY <3>1, <3>2, <3>3 DEF AInv
  <2>3. CASE Head(pending) \in config.tools
    <3>1. PICK result \in {"value", "error"} :
              /\ completed' = Append(completed, [name |-> Head(pending), result |-> result])
              /\ pending' = Tail(pending)
              /\ IF pending' = <<>> THEN phase' = "ask" /\ round' = round + 1
                 ELSE UNCHANGED <<phase, round>>
      BY <1>6, <2>3 DEF CallTool, AfterCall
    <3> DEFINE r == [name |-> Head(pending), result |-> result]
    <3>2. r \in Results /\ r.name = Head(pending) /\ Results' = Results
      BY <2>1, <2>3 DEF Results
    <3> HIDE DEF r
    <3>3. /\ completed' \in Seq(Results) /\ Len(completed') = Len(completed) + 1
          /\ completed'[Len(completed) + 1] = r
          /\ \A i \in 1 .. Len(completed) : completed'[i] = completed[i]
          /\ pending' \in Seq(Tools) /\ Len(pending) = Len(pending') + 1
          /\ \A i \in 1 .. Len(pending') : pending'[i] = pending[i + 1]
          /\ Head(pending) = pending[1] /\ Len(completed) \in Nat /\ Len(pending') \in Nat
      BY <2>1, <3>1, <3>2 DEF r
    <3>4. AgentTyped'
      BY <1>1, <2>1, <3>1, <3>2, <3>3 DEF AgentTyped
    <3>5. PhaseIsSound'
      BY <1>1, <2>1, <3>1 DEF PhaseIsSound, Grounds
    <3>6. ConversationAdds'
      <4>1. /\ Len(asked) = Len(completed) + Len(pending)
            /\ \A i \in 1 .. Len(completed) : asked[i] = completed[i].name
            /\ \A i \in 1 .. Len(pending) : asked[Len(completed) + i] = pending[i]
        BY <2>1 DEF ConversationAdds
      <4>2. \A i \in 1 .. Len(completed') : asked[i] = completed'[i].name
        <5>1. ASSUME NEW i \in 1 .. Len(completed)  PROVE asked[i] = completed'[i].name
          BY <3>3, <4>1
        <5>2. asked[Len(completed) + 1] = completed'[Len(completed) + 1].name
          <6>1. 1 \in 1 .. Len(pending)
            BY <3>3
          <6> QED  BY <3>2, <3>3, <4>1, <6>1
        <5>3. ASSUME NEW i \in 1 .. Len(completed')
              PROVE  i \in 1 .. Len(completed) \/ i = Len(completed) + 1
          BY <3>3
        <5> QED  BY <5>1, <5>2, <5>3
      <4>3. \A i \in 1 .. Len(pending') : asked[Len(completed') + i] = pending'[i]
        <5> TAKE i \in 1 .. Len(pending')
        <5>1. i + 1 \in 1 .. Len(pending) /\ Len(completed') + i = Len(completed) + (i + 1)
          BY <3>3
        <5> QED  BY <3>3, <4>1, <5>1
      <4>4. Len(asked) = Len(completed') + Len(pending')
        BY <3>3, <4>1
      <4> QED  BY <2>1, <4>2, <4>3, <4>4 DEF ConversationAdds
    <3> QED  BY <3>4, <3>5, <3>6 DEF AInv
  <2> QED  BY <2>2, <2>3
<1>7. CASE LoseInvocation
  <2>1. AgentTyped'
    BY <1>1, <1>7 DEF LoseInvocation, AgentTyped
  <2>2. PhaseIsSound' /\ ConversationAdds'
    BY <1>7 DEF LoseInvocation, PhaseIsSound, ConversationAdds
  <2> QED  BY <2>1, <2>2 DEF AInv
<1>8. CASE UNCHANGED agentVars
  BY <1>1, <1>8 DEF agentVars, AInv, AgentTyped, Results, PhaseIsSound, ConversationAdds, Grounds
<1> QED  BY <1>2, <1>3, <1>4, <1>5, <1>6, <1>7, <1>8 DEF AgentNext

\* An agent asked to be grounded never answers ungrounded; whenever the model is
\* called it is shown the result of every call it asked for, in order; only tools
\* chosen and shipped run; and it is called at most once more than there are
\* rounds (AIAgentRunner.run, the adapter's tool loop).
THEOREM AgentStaysSound == AgentSpec => []AgentIsSound
<1>1. AgentSpec => []AInv
  BY InitAInv, NextAInv, PTL DEF AgentSpec
<1>2. ASSUME AInv  PROVE AgentIsSound
  <2>1. AgentTyped /\ PhaseIsSound /\ (phase # "failed" => ConversationAdds)
    BY <1>2 DEF AInv
  <2>2. AnswersAreGrounded
    BY <2>1 DEF AnswersAreGrounded, PhaseIsSound
  <2>3. ASSUME phase \in {"ask", "completed"}
        PROVE  asked = [i \in DOMAIN completed |-> completed[i].name]
    <3>1. /\ asked \in Seq(Tools) /\ completed \in Seq(Results) /\ pending = <<>>
          /\ Len(asked) = Len(completed)
          /\ \A i \in 1 .. Len(completed) : asked[i] = completed[i].name
      BY <2>1, <2>3 DEF PhaseIsSound, ConversationAdds, AgentTyped
    <3>2. DOMAIN asked = DOMAIN completed /\ DOMAIN completed = 1 .. Len(completed)
      BY <3>1
    <3>3. asked = [i \in DOMAIN asked |-> asked[i]]
      BY <3>1
    <3> QED  BY <3>1, <3>2, <3>3
  <2>4. ToSet(completed) \subseteq Results
    BY <2>1 DEF ToSet, AgentTyped
  <2>5. CallsAreBounded
    BY <2>1, AgentAssumption DEF CallsAreBounded, AgentTyped, PhaseIsSound
  <2> QED  BY <2>2, <2>3, <2>4, <2>5 DEF AgentIsSound, ConversationIsWhole, Results
<1> QED  BY <1>1, <1>2, PTL

-----------------------------------------------------------------------------
(* The rate limiter, for any policy whose window the sweep keeps *)

\* Times of hits in the order they came.
InOrder(g) == \A i, j \in 1 .. Len(g) : i <= j => g[i] <= g[j]

\* x is what is left of g when some of its hits that are not after t are gone.
LeftOf(x, g, t) ==
    \E d \in 0 .. Len(g) : x = SubSeq(g, d + 1, Len(g)) /\ (d > 0 => g[d] <= t)

Times(h, k) == IF k \in DOMAIN h THEN h[k] ELSE <<>>

\* Between a hit and the one MaxHits after it a window passes.
Spaced(g) == \A i \in 1 .. Len(g) : i + MaxHits <= Len(g) => g[i] + Window <= g[i + MaxHits]

KeyIsSound(h, g, promise, t) ==
    /\ g \in Seq(Nat) /\ InOrder(g) /\ Spaced(g) /\ \A i \in 1 .. Len(g) : g[i] <= t
    /\ LeftOf(h, g, t - Window)
    /\ promise \in Nat /\ (promise # 0 => Len(Later(h, promise - Window)) < MaxHits)

SoundLimiter(s, t) ==
    /\ DOMAIN s.granted = Keys /\ DOMAIN s.promised = Keys
    /\ \A k \in Keys : KeyIsSound(Times(s.hits, k), s.granted[k], s.promised[k], t)

LInv == clock \in 0 .. MaxClock /\ SoundLimiter(Limiter, clock)

\* The loop stops, at the only place where it can.
LEMMA AgedStops ==
    ASSUME NEW g \in Seq(Int), NEW c \in Int
    PROVE  LET a == Aged(g, c)
           IN  /\ a \in 0 .. Len(g) /\ \A i \in 1 .. a : g[i] <= c
               /\ a = Len(g) \/ g[a + 1] > c
<1> DEFINE S == {n \in 1 .. Len(g) : g[n] > c}
           P(n) == (\A i \in 1 .. n : g[i] <= c) /\ (n = Len(g) \/ g[n + 1] > c)
<1>0. Len(g) \in Nat /\ \A i \in 1 .. Len(g) : g[i] \in Int
  OBVIOUS
<1>1. \E n \in 0 .. Len(g) : P(n)
  <2>1. CASE S = {}
    <3>1. P(Len(g))
      BY <1>0, <2>1
    <3> QED  BY <1>0, <3>1
  <2>2. CASE S # {}
    <3>1. S \subseteq Nat
      BY <1>0
    <3>2. PICK m \in S : \A q \in S : ~ (<<q, m>> \in OpToRel(<, Nat))
      BY <2>2, <3>1, NatLessThanWellFounded, WFMin
    <3>3. \A q \in S : ~ (q < m)
      BY <3>1, <3>2 DEF OpToRel
    <3>4. m - 1 \in 0 .. Len(g)
      BY <1>0
    <3>5. P(m - 1)
      BY <1>0, <3>3
    <3> QED  BY <3>4, <3>5
  <2> QED  BY <2>1, <2>2
<1> QED  BY <1>1 DEF Aged

LEMMA SuffixIs ==
    ASSUME NEW S, NEW g \in Seq(S), NEW a \in 0 .. Len(g)
    PROVE  LET x == SubSeq(g, a + 1, Len(g))
           IN  /\ x \in Seq(S) /\ Len(x) = Len(g) - a
               /\ \A i \in 1 .. Len(x) : x[i] = g[i + a]
<1>1. CASE a = Len(g)
  <2>1. SubSeq(g, a + 1, Len(g)) = <<>>
    BY <1>1, SubSeqProperties
  <2> QED  BY <1>1, <2>1
<1>2. CASE a < Len(g)
  <2>1. a + 1 \in 1 .. Len(g) + 1 /\ Len(g) \in a + 1 - 1 .. Len(g)
    OBVIOUS
  <2> QED  BY <2>1, SubSeqProperties
<1> QED  BY <1>1, <1>2

LEMMA LaterIs ==
    ASSUME NEW g \in Seq(Nat), InOrder(g), NEW c \in Int
    PROVE  \E a \in 0 .. Len(g) :
             /\ Later(g, c) = SubSeq(g, a + 1, Len(g))
             /\ \A i \in 1 .. Len(g) : g[i] <= c <=> i <= a
<1> DEFINE a == Aged(g, c)
<1>1. /\ a \in 0 .. Len(g) /\ \A i \in 1 .. a : g[i] <= c
      /\ a = Len(g) \/ g[a + 1] > c
  BY AgedStops
<1>2. Later(g, c) = SubSeq(g, a + 1, Len(g))
  BY DEF Later
<1> HIDE DEF a
<1>3. ASSUME NEW i \in 1 .. Len(g), g[i] <= c, ~ (i <= a)  PROVE FALSE
  <2>1. a + 1 <= i /\ a + 1 \in 1 .. Len(g) /\ g[a + 1] > c
    BY <1>1, <1>3
  <2>2. g[a + 1] <= g[i]
    BY <2>1, <1>3 DEF InOrder
  <2>3. g[i] \in Nat /\ g[a + 1] \in Nat
    BY <2>1
  <2> QED  BY <1>3, <2>1, <2>2, <2>3
<1> QED  BY <1>1, <1>2, <1>3

\* What is left of a suffix is what is left of the whole.
LEMMA LaterOfLeft ==
    ASSUME NEW g \in Seq(Nat), InOrder(g), NEW x, NEW c \in Int, LeftOf(x, g, c)
    PROVE  /\ x \in Seq(Nat) /\ InOrder(x)
           /\ Later(x, c) = Later(g, c) /\ LeftOf(Later(x, c), g, c)
<1>1. PICK d \in 0 .. Len(g) : x = SubSeq(g, d + 1, Len(g)) /\ (d > 0 => g[d] <= c)
  BY DEF LeftOf
<1>2. /\ x \in Seq(Nat) /\ Len(x) = Len(g) - d
      /\ \A i \in 1 .. Len(x) : x[i] = g[i + d]
  <2>1. Len(g) \in Nat /\ d + 1 \in 1 .. Len(g) + 1
    OBVIOUS
  <2>2. /\ x \in Seq(Nat)
        /\ Len(x) = (IF d + 1 <= Len(g) THEN Len(g) - (d + 1) + 1 ELSE 0)
        /\ \A i \in 1 .. Len(g) - (d + 1) + 1 : x[i] = g[d + 1 + i - 1]
    BY <1>1, <2>1, SubSeqProperties
  <2>3. Len(x) = Len(g) - d
    BY <2>1, <2>2
  <2>4. ASSUME NEW i \in 1 .. Len(x)  PROVE x[i] = g[i + d]
    <3>1. i \in 1 .. Len(g) - (d + 1) + 1 /\ d + 1 + i - 1 = i + d
      BY <2>1, <2>3
    <3> QED  BY <2>2, <3>1
  <2> QED  BY <2>2, <2>3, <2>4
<1>3. InOrder(x)
  BY <1>1, <1>2 DEF InOrder
<1>4. PICK a \in 0 .. Len(g) :
        /\ Later(g, c) = SubSeq(g, a + 1, Len(g))
        /\ \A i \in 1 .. Len(g) : g[i] <= c <=> i <= a
  BY LaterIs
<1>5. PICK b \in 0 .. Len(x) :
        /\ Later(x, c) = SubSeq(x, b + 1, Len(x))
        /\ \A i \in 1 .. Len(x) : x[i] <= c <=> i <= b
  BY <1>2, <1>3, LaterIs
<1>6. d <= a
  BY <1>1, <1>4
<1>7. b = a - d
  <2>1. ASSUME b < a - d  PROVE FALSE
    <3>1. b + 1 \in 1 .. Len(x) /\ b + 1 + d \in 1 .. Len(g)
      BY <1>2, <2>1
    <3>2. x[b + 1] = g[b + 1 + d]
      BY <1>2, <3>1
    <3>3. g[b + 1 + d] <= c
      BY <1>4, <2>1, <3>1
    <3> QED  BY <1>5, <3>1, <3>2, <3>3
  <2>2. ASSUME b > a - d  PROVE FALSE
    <3>1. b \in 1 .. Len(x) /\ x[b] = g[b + d] /\ b + d \in 1 .. Len(g)
      BY <1>1, <1>2, <1>4, <1>5, <1>6, <2>2
    <3>2. g[b + d] <= c
      BY <1>5, <3>1
    <3>3. b + d <= a
      BY <1>4, <3>1, <3>2
    <3> QED  BY <2>2, <3>3
  <2> QED  BY <1>1, <1>4, <1>5, <2>1, <2>2
<1>8. Later(x, c) = Later(g, c)
  <2> DEFINE y == SubSeq(x, b + 1, Len(x))
             z == SubSeq(g, a + 1, Len(g))
  <2>1. y \in Seq(Nat) /\ Len(y) = Len(x) - b /\ \A i \in 1 .. Len(y) : y[i] = x[i + b]
    BY <1>2, SuffixIs
  <2>2. z \in Seq(Nat) /\ Len(z) = Len(g) - a /\ \A i \in 1 .. Len(z) : z[i] = g[i + a]
    BY SuffixIs
  <2> HIDE DEF y, z
  <2>3. Len(y) = Len(z)
    BY <1>1, <1>2, <1>7, <2>1, <2>2
  <2>4. \A i \in 1 .. Len(y) : y[i] = z[i]
    <3> TAKE i \in 1 .. Len(y)
    <3>1. i + b \in 1 .. Len(x) /\ y[i] = x[i + b]
      BY <1>5, <2>1
    <3>2. x[i + b] = g[i + b + d] /\ i + b + d = i + a
      BY <1>1, <1>2, <1>4, <1>5, <1>7, <3>1
    <3>3. z[i] = g[i + a]
      BY <2>2, <2>3
    <3> QED  BY <3>1, <3>2, <3>3
  <2>5. y = z
    BY <2>1, <2>2, <2>3, <2>4, SeqEqual
  <2> QED  BY <1>4, <1>5, <2>5 DEF y, z
<1>9. LeftOf(Later(g, c), g, c)
  <2>1. a > 0 => g[a] <= c
    BY <1>4
  <2> QED  BY <1>4, <2>1 DEF LeftOf
<1> QED  BY <1>2, <1>3, <1>8, <1>9
\* What a key's hits and its history must agree on for each of the steps below.
LEMMA FewLeft ==
    ASSUME NEW x, NEW g, NEW p, NEW c \in Nat, KeyIsSound(x, g, p, c)
    PROVE  LET y == Later(x, c - Window)
           IN  /\ y \in Seq(Nat) /\ InOrder(y) /\ Len(y) <= MaxHits
               /\ LeftOf(y, g, c - Window)
<1> DEFINE y == Later(x, c - Window)
<1>0. /\ MaxHits \in Nat \ {0} /\ Window \in Nat \ {0} /\ c - Window \in Int
      /\ g \in Seq(Nat) /\ InOrder(g) /\ LeftOf(x, g, c - Window)
  BY LimiterAssumption DEF KeyIsSound
<1>1. /\ y = Later(g, c - Window) /\ LeftOf(y, g, c - Window)
  BY <1>0, LaterOfLeft
<1> HIDE DEF y
<1>2. PICK a \in 0 .. Len(g) :
        /\ y = SubSeq(g, a + 1, Len(g))
        /\ \A i \in 1 .. Len(g) : g[i] <= c - Window <=> i <= a
  BY <1>0, <1>1, LaterIs
<1>3. y \in Seq(Nat) /\ Len(y) = Len(g) - a /\ \A i \in 1 .. Len(y) : y[i] = g[i + a]
  BY <1>0, <1>2, SuffixIs
<1>4. InOrder(y)
  <2> SUFFICES ASSUME NEW i \in 1 .. Len(y), NEW j \in 1 .. Len(y), i <= j
               PROVE  y[i] <= y[j]
    BY DEF InOrder
  <2>1. i + a \in 1 .. Len(g) /\ j + a \in 1 .. Len(g) /\ i + a <= j + a
    BY <1>3
  <2> QED  BY <1>0, <1>3, <2>1 DEF InOrder
<1>5. ASSUME ~ (Len(y) <= MaxHits)  PROVE FALSE
  <2>1. /\ a + 1 \in 1 .. Len(g) /\ a + 1 + MaxHits \in 1 .. Len(g) /\ ~ (a + 1 <= a)
    BY <1>0, <1>3, <1>5
  <2>2. g[a + 1] + Window <= g[a + 1 + MaxHits] /\ g[a + 1 + MaxHits] <= c
    BY <2>1 DEF KeyIsSound, Spaced
  <2>3. ~ (g[a + 1] <= c - Window)
    BY <1>2, <2>1
  <2>4. g[a + 1] \in Nat /\ g[a + 1 + MaxHits] \in Nat
    BY <1>0, <2>1
  <2> QED  BY <1>0, <2>2, <2>3, <2>4
<1> QED  BY <1>1, <1>3, <1>4, <1>5 DEF y

\* A longer wait leaves no more.
LEMMA LaterShrinks ==
    ASSUME NEW x \in Seq(Nat), InOrder(x), NEW c \in Int, NEW e \in Int, c <= e
    PROVE  /\ Len(Later(x, c)) \in Nat /\ Len(Later(x, e)) \in Nat
           /\ Len(Later(x, e)) <= Len(Later(x, c))
           /\ Len(Later(x, e)) <= Len(x)
           /\ Len(x) > 0 /\ x[1] <= e => Len(Later(x, e)) < Len(x)
<1>1. PICK a \in 0 .. Len(x) :
        /\ Later(x, c) = SubSeq(x, a + 1, Len(x))
        /\ \A i \in 1 .. Len(x) : x[i] <= c <=> i <= a
  BY LaterIs
<1>2. PICK b \in 0 .. Len(x) :
        /\ Later(x, e) = SubSeq(x, b + 1, Len(x))
        /\ \A i \in 1 .. Len(x) : x[i] <= e <=> i <= b
  BY LaterIs
<1>3. Len(Later(x, c)) = Len(x) - a /\ Len(Later(x, e)) = Len(x) - b
  BY <1>1, <1>2, SuffixIs
<1>4. a <= b
  <2>1. CASE a = 0
    BY <2>1
  <2>2. CASE a > 0
    <3>1. a \in 1 .. Len(x) /\ x[a] <= c /\ x[a] \in Nat
      BY <1>1, <2>2
    <3>2. x[a] <= e
      BY <3>1
    <3> QED  BY <1>2, <3>1, <3>2
  <2> QED  BY <2>1, <2>2
<1>5. Len(x) > 0 /\ x[1] <= e => b >= 1
  BY <1>2
<1> QED  BY <1>3, <1>4, <1>5

LEMMA KeyHit ==
    ASSUME NEW x, NEW g, NEW p, NEW c \in Nat, KeyIsSound(x, g, p, c),
           Len(Later(x, c - Window)) < MaxHits
    PROVE  KeyIsSound(Append(Later(x, c - Window), c), Append(g, c), 0, c)
<1> DEFINE y == Later(x, c - Window)
           z == Append(g, c)
<1>0. /\ MaxHits \in Nat \ {0} /\ Window \in Nat \ {0} /\ c - Window \in Int
      /\ g \in Seq(Nat) /\ InOrder(g) /\ Spaced(g) /\ \A i \in 1 .. Len(g) : g[i] <= c
      /\ LeftOf(x, g, c - Window)
  BY LimiterAssumption DEF KeyIsSound
<1>1. y = Later(g, c - Window) /\ Len(y) < MaxHits
  BY <1>0, LaterOfLeft
<1> HIDE DEF y
<1>2. PICK a \in 0 .. Len(g) :
        /\ y = SubSeq(g, a + 1, Len(g))
        /\ \A i \in 1 .. Len(g) : g[i] <= c - Window <=> i <= a
  BY <1>0, <1>1, LaterIs
<1>3. y \in Seq(Nat) /\ Len(y) = Len(g) - a /\ \A i \in 1 .. Len(y) : y[i] = g[i + a]
  BY <1>0, <1>2, SuffixIs
<1>4. /\ z \in Seq(Nat) /\ Len(z) = Len(g) + 1 /\ z[Len(g) + 1] = c
      /\ \A i \in 1 .. Len(g) : z[i] = g[i]
  BY <1>0
<1>5. Len(y) < MaxHits /\ Len(y) \in Nat /\ Len(g) \in Nat /\ MaxHits \in Nat /\ MaxHits > 0
      /\ Len(z) = Len(g) + 1
  BY <1>0, <1>1, <1>3, <1>4
<1> HIDE DEF z
<1>6. ASSUME NEW i \in 1 .. Len(z)  PROVE z[i] <= c
  <2>1. i \in 1 .. Len(g) \/ i = Len(g) + 1
    BY <1>4, <1>5
  <2>2. CASE i \in 1 .. Len(g)
    BY <1>0, <1>4, <2>2
  <2>3. CASE i = Len(g) + 1
    BY <1>4, <2>3
  <2> QED  BY <2>1, <2>2, <2>3
<1>7. InOrder(z)
  <2> SUFFICES ASSUME NEW i \in 1 .. Len(z), NEW j \in 1 .. Len(z), i <= j
               PROVE  z[i] <= z[j]
    BY DEF InOrder
  <2>1. CASE j = Len(z)
    BY <1>4, <1>6, <2>1
  <2>2. CASE j < Len(z)
    <3>1. i \in 1 .. Len(g) /\ j \in 1 .. Len(g)
      BY <1>4, <2>2
    <3> QED  BY <1>0, <1>4, <3>1 DEF InOrder
  <2> QED  BY <2>1, <2>2
<1>8. Spaced(z)
  <2> SUFFICES ASSUME NEW i \in 1 .. Len(z), i + MaxHits <= Len(z)
               PROVE  z[i] + Window <= z[i + MaxHits]
    BY DEF Spaced
  <2>0. i \in 1 .. Len(g)
    BY <1>4, <1>5
  <2>1. z[i] = g[i] /\ g[i] \in Nat
    <3>1. g \in Seq(Nat)
      BY <1>0
    <3> QED  BY <1>4, <2>0, <3>1
  <2>2. CASE i + MaxHits = Len(z)
    <3>1. i <= a
      BY <1>3, <1>4, <1>5, <2>0, <2>2
    <3>2. g[i] <= c - Window
      BY <1>2, <2>0, <3>1
    <3>3. z[i + MaxHits] = c
      BY <1>4, <2>2
    <3>4. Window \in Nat
      BY <1>0
    <3> QED  BY <2>1, <3>2, <3>3, <3>4
  <2>3. CASE i + MaxHits # Len(z)
    <3>1. i + MaxHits \in 1 .. Len(g) /\ i + MaxHits <= Len(g)
      BY <1>5, <2>0, <2>3
    <3>2. z[i + MaxHits] = g[i + MaxHits]
      BY <1>4, <3>1
    <3>3. g[i] + Window <= g[i + MaxHits]
      BY <1>0, <2>0, <3>1 DEF Spaced
    <3> QED  BY <2>1, <3>2, <3>3
  <2> QED  BY <2>2, <2>3
<1>9. LeftOf(Append(y, c), z, c - Window)
  <2> DEFINE u == Append(y, c)
             v == SubSeq(z, a + 1, Len(z))
  <2>1. a \in 0 .. Len(z)
    BY <1>4
  <2>2. v \in Seq(Nat) /\ Len(v) = Len(z) - a /\ \A i \in 1 .. Len(v) : v[i] = z[i + a]
    BY <1>4, <2>1, SuffixIs
  <2>3. /\ u \in Seq(Nat) /\ Len(u) = Len(y) + 1 /\ u[Len(y) + 1] = c
        /\ \A i \in 1 .. Len(y) : u[i] = y[i]
    BY <1>3
  <2> HIDE DEF u, v
  <2>4. Len(u) = Len(v)
    BY <1>3, <1>4, <2>2, <2>3
  <2>5. ASSUME NEW i \in 1 .. Len(u)  PROVE u[i] = v[i]
    <3>1. v[i] = z[i + a]
      BY <2>2, <2>4
    <3>2. CASE i = Len(y) + 1
      <4>1. i + a = Len(g) + 1
        BY <1>3, <3>2
      <4> QED  BY <1>4, <2>3, <3>1, <3>2, <4>1
    <3>3. CASE i # Len(y) + 1
      <4>1. i \in 1 .. Len(y) /\ i + a \in 1 .. Len(g)
        BY <1>3, <2>3, <3>3
      <4> QED  BY <1>3, <1>4, <2>3, <3>1, <4>1
    <3> QED  BY <3>2, <3>3
  <2>6. u = v
    BY <2>2, <2>3, <2>4, <2>5, SeqEqual
  <2>7. a > 0 => z[a] <= c - Window
    BY <1>2, <1>4
  <2> QED  BY <2>1, <2>6, <2>7 DEF LeftOf, u, v
<1> QED  BY <1>4, <1>6, <1>7, <1>8, <1>9 DEF KeyIsSound, y, z

\* A number of whole seconds, rounded down, and one more is more than the number.
LEMMA RoundedUp ==
    ASSUME NEW w \in Int, NEW t \in Nat \ {0}, NEW r \in Int, r >= w \div t + 1
    PROVE  w < r * t
<1>1. w \div t \in Int /\ t \in Int /\ t > 0
  OBVIOUS
<1>2. w < (w \div t + 1) * t
  BY SMTT(60)
<1> DEFINE q == w \div t + 1
<1>3. q \in Int /\ q <= r /\ w < q * t
  BY <1>1, <1>2
<1> HIDE DEF q
<1>4. q * t <= r * t /\ q * t \in Int /\ r * t \in Int
  BY <1>1, <1>3, SMTT(60)
<1> QED  BY <1>3, <1>4

LEMMA KeyRefused ==
    ASSUME NEW x, NEW g, NEW p, NEW c \in Nat, KeyIsSound(x, g, p, c),
           ~ (Len(Later(x, c - Window)) < MaxHits),
           NEW q \in Nat, Later(x, c - Window)[1] + Window <= q
    PROVE  KeyIsSound(Later(x, c - Window), g, q, c)
<1> DEFINE y == Later(x, c - Window)
<1>0. /\ MaxHits \in Nat \ {0} /\ Window \in Nat \ {0} /\ q - Window \in Int
  BY LimiterAssumption
<1>1. y \in Seq(Nat) /\ InOrder(y) /\ Len(y) <= MaxHits /\ LeftOf(y, g, c - Window)
  BY FewLeft
<1>2. Len(y) = MaxHits /\ y[1] + Window <= q /\ y[1] \in Nat
  BY <1>0, <1>1
<1> HIDE DEF y
<1>3. Len(Later(y, q - Window)) < MaxHits
  BY <1>0, <1>1, <1>2, LaterShrinks
<1> QED  BY <1>1, <1>3 DEF KeyIsSound, y

\* A key the sweep drops has nothing left in any window.
LEMMA KeySwept ==
    ASSUME NEW x, NEW g, NEW p, NEW c \in Nat, KeyIsSound(x, g, p, c),
           x = <<>> \/ x[Len(x)] <= c - Retention
    PROVE  KeyIsSound(<<>>, g, p, c)
<1>0. /\ MaxHits \in Nat \ {0} /\ Window \in Nat \ {0} /\ Retention \in Nat /\ Window <= Retention
      /\ g \in Seq(Nat) /\ LeftOf(x, g, c - Window) /\ p \in Nat
  BY LimiterAssumption DEF KeyIsSound
<1>1. PICK d \in 0 .. Len(g) : x = SubSeq(g, d + 1, Len(g)) /\ (d > 0 => g[d] <= c - Window)
  BY <1>0 DEF LeftOf
<1>2. x \in Seq(Nat) /\ Len(x) = Len(g) - d /\ \A i \in 1 .. Len(x) : x[i] = g[i + d]
  BY <1>0, <1>1, SuffixIs
<1>3. Len(g) > 0 => g[Len(g)] <= c - Window
  <2>1. CASE x = <<>>
    <3>1. Len(x) = 0 /\ d = Len(g)
      BY <1>0, <1>2, <2>1
    <3> QED  BY <1>1, <3>1
  <2>2. CASE x # <<>>
    <3>1. Len(x) \in 1 .. Len(x) /\ Len(x) + d = Len(g)
      BY <1>0, <1>2, <2>2
    <3>2. PICK n \in 1 .. Len(x) : n = Len(x)
      BY <3>1
    <3>3. x[n] = g[n + d] /\ n + d = Len(g)
      <4>1. x[n] = g[n + d]
        BY <1>2, <3>2
      <4>2. n + d = Len(g)
        BY <1>2, <3>1, <3>2
      <4> QED  BY <4>1, <4>2
    <3>6. x[n] \in Nat
      BY <1>2, <3>2
    <3>4. x[n] <= c - Retention
      BY <2>2, <3>2
    <3>5. g[Len(g)] = x[n]
      BY <3>3
    <3> QED  BY <1>0, <3>4, <3>5, <3>6
  <2> QED  BY <2>1, <2>2
<1>4. <<>> = SubSeq(g, Len(g) + 1, Len(g))
  BY <1>0
<1>5. LeftOf(<<>>, g, c - Window)
  <2>1. Len(g) \in 0 .. Len(g)
    BY <1>0
  <2> QED  BY <1>3, <1>4, <2>1 DEF LeftOf
<1>6. Len(Later(<<>>, p - Window)) <= 0
  <2>1. <<>> \in Seq(Nat) /\ InOrder(<<>>) /\ p - Window \in Int /\ Len(<<>>) = 0
    BY <1>0 DEF InOrder
  <2> DEFINE e == <<>>
  <2> HIDE DEF e
  <2>2. (e \in Seq(Nat) /\ InOrder(e)) => Len(Later(e, p - Window)) <= Len(e)
    BY <2>1, LaterShrinks
  <2> QED  BY <2>1, <2>2 DEF e
<1>7. Len(Later(<<>>, p - Window)) < MaxHits
  <2>1. <<>> \in Seq(Nat) /\ InOrder(<<>>) /\ p - Window \in Int
    BY <1>0 DEF InOrder
  <2>2. Len(Later(<<>>, p - Window)) \in Nat
    BY <2>1, LaterShrinks
  <2> QED  BY <1>0, <1>6, <2>2
<1> QED  BY <1>5, <1>7 DEF KeyIsSound

LEMMA KeyAges ==
    ASSUME NEW x, NEW g, NEW p, NEW c \in Nat, KeyIsSound(x, g, p, c)
    PROVE  KeyIsSound(x, g, p, c + 1)
<1>0. /\ Window \in Nat \ {0} /\ g \in Seq(Nat) /\ LeftOf(x, g, c - Window)
      /\ \A i \in 1 .. Len(g) : g[i] <= c
  BY LimiterAssumption DEF KeyIsSound
<1>1. PICK d \in 0 .. Len(g) : x = SubSeq(g, d + 1, Len(g)) /\ (d > 0 => g[d] <= c - Window)
  BY <1>0 DEF LeftOf
<1>2. d > 0 => g[d] <= (c + 1) - Window
  BY <1>0, <1>1
<1>3. LeftOf(x, g, (c + 1) - Window)
  BY <1>1, <1>2 DEF LeftOf
<1>4. \A i \in 1 .. Len(g) : g[i] <= c + 1
  BY <1>0
<1> QED  BY <1>3, <1>4 DEF KeyIsSound

\* What is recent of a key is what the loop leaves of its hits, held or not.
LEMMA RecentIs ==
    ASSUME NEW h, NEW k, clock \in Nat
    PROVE  Recent(h, k) = Later(Times(h, k), clock - Window)
<1>1. CASE k \in DOMAIN h
  BY <1>1 DEF Recent, Times
<1>2. CASE k \notin DOMAIN h
  <2>1. clock - Window \in Int /\ <<>> \in Seq(Int) /\ Len(<<>>) = 0
    BY LimiterAssumption
  <2> DEFINE e == <<>>
             a == Aged(e, clock - Window)
  <2> HIDE DEF e
  <2>2. e \in Seq(Int) /\ Len(e) = 0 /\ e = <<>>
    BY <2>1 DEF e
  <2>3. a \in 0 .. Len(e)
    BY <2>1, <2>2, AgedStops
  <2>4. Later(e, clock - Window) = SubSeq(e, a + 1, Len(e))
    BY DEF Later
  <2> HIDE DEF a
  <2>5. SubSeq(e, a + 1, Len(e)) \in Seq(Int) /\ Len(SubSeq(e, a + 1, Len(e))) = 0
    BY <2>2, <2>3, SuffixIs
  <2>6. Later(e, clock - Window) = <<>>
    BY <2>4, <2>5
  <2> QED  BY <1>2, <2>2, <2>6 DEF Recent, Times
<1> QED  BY <1>1, <1>2

LEMMA TimesWith ==
    ASSUME NEW h, NEW k, NEW x, NEW j
    PROVE  Times(With(h, k, x), j) = IF j = k THEN x ELSE Times(h, j)
BY DEF Times, With

LEMMA TimesSwept ==
    ASSUME NEW h, NEW j
    PROVE  \/ Times(Swept(h), j) = Times(h, j)
           \/ /\ Times(Swept(h), j) = <<>>
              /\ Times(h, j) = <<>> \/ Times(h, j)[Len(Times(h, j))] <= clock - Retention
<1>1. CASE j \notin DOMAIN h
  BY <1>1 DEF Times, Swept
<1>2. CASE j \in DOMAIN h /\ Stale(h[j])
  BY <1>2 DEF Times, Swept, Stale, Newest
<1>3. CASE j \in DOMAIN h /\ ~ Stale(h[j])
  BY <1>3 DEF Times, Swept
<1> QED  BY <1>1, <1>2, <1>3

LEMMA HitIsSound ==
    ASSUME clock \in Nat, NEW s, SoundLimiter(s, clock), NEW k \in Keys, ~ Refuses(s.hits, k)
    PROVE  SoundLimiter(Hit(s, k), clock)
<1> DEFINE x == Recent(s.hits, k)
           h == With(s.hits, k, Append(x, clock))
           u == Hit(s, k)
<1>0. DOMAIN s.granted = Keys /\ DOMAIN s.promised = Keys
  BY DEF SoundLimiter
<1>1. /\ u.granted = [s.granted EXCEPT ![k] = Append(@, clock)]
      /\ u.promised = [s.promised EXCEPT ![k] = 0]
      /\ u.hits = h \/ u.hits = Swept(h)
  BY DEF Hit
<1>2. DOMAIN u.granted = Keys /\ DOMAIN u.promised = Keys
  BY <1>0, <1>1
<1>3. x = Later(Times(s.hits, k), clock - Window) /\ MaxHits \in Nat
  BY RecentIs, LimiterAssumption
<1>4. KeyIsSound(Times(s.hits, k), s.granted[k], s.promised[k], clock)
  BY DEF SoundLimiter
<1>5. Len(x) < MaxHits
  <2>1. Len(x) \in Nat
    BY <1>3, <1>4, FewLeft
  <2> QED  BY <1>3, <2>1 DEF Refuses
<1>6. KeyIsSound(Append(x, clock), Append(s.granted[k], clock), 0, clock)
  BY <1>3, <1>4, <1>5, KeyHit
<1> HIDE DEF x, u
<1>7. ASSUME NEW j \in Keys
      PROVE  KeyIsSound(Times(h, j), u.granted[j], u.promised[j], clock)
  <2>1. CASE j = k
    <3>1. Times(h, j) = Append(x, clock)
      BY <2>1 DEF Times, With
    <3> HIDE DEF h
    <3>2. u.granted[k] = Append(s.granted[k], clock) /\ u.promised[k] = 0
      BY <1>0, <1>1
    <3> QED  BY <1>6, <2>1, <3>1, <3>2
  <2>2. CASE j # k
    <3>1. /\ Times(h, j) = Times(s.hits, j)
          /\ u.granted[j] = s.granted[j] /\ u.promised[j] = s.promised[j]
      BY <1>0, <1>1, <2>2, TimesWith
    <3> QED  BY <3>1 DEF SoundLimiter
  <2> QED  BY <2>1, <2>2
<1> HIDE DEF h
<1>8. ASSUME NEW j \in Keys
      PROVE  KeyIsSound(Times(u.hits, j), u.granted[j], u.promised[j], clock)
  BY <1>1, <1>7, TimesSwept, KeySwept
<1> QED  BY <1>2, <1>8 DEF SoundLimiter, u

LEMMA RefusalIsSound ==
    ASSUME clock \in Nat, NEW s, SoundLimiter(s, clock), NEW k \in Keys, Refuses(s.hits, k)
    PROVE  SoundLimiter(Refusal(s, k), clock)
<1> DEFINE x == Recent(s.hits, k)
           r == RetryAfter(s.hits, k)
           q == clock + r * TicksPerSecond
           u == Refusal(s, k)
<1>0. DOMAIN s.granted = Keys /\ DOMAIN s.promised = Keys
  BY DEF SoundLimiter
<1>1. /\ u.granted = s.granted /\ u.hits = With(s.hits, k, x)
      /\ u.promised = [s.promised EXCEPT ![k] = q]
  BY DEF Refusal
<1>2. /\ x = Later(Times(s.hits, k), clock - Window)
      /\ MaxHits \in Nat \ {0} /\ Window \in Nat \ {0} /\ TicksPerSecond \in Nat \ {0}
  BY RecentIs, LimiterAssumption
<1>3. KeyIsSound(Times(s.hits, k), s.granted[k], s.promised[k], clock)
  BY DEF SoundLimiter
<1>4. x \in Seq(Nat) /\ Len(x) \in Nat
  BY <1>2, <1>3, FewLeft
<1>5. ~ (Len(x) < MaxHits) /\ x[1] \in Nat
  <2>1. Len(x) >= MaxHits
    BY DEF Refuses
  <2> QED  BY <1>2, <1>4, <2>1
<1> DEFINE w == x[1] + Window - clock
<1>6. w \in Int /\ w \div TicksPerSecond + 1 \in Int
      /\ r = IF w \div TicksPerSecond + 1 > 1 THEN w \div TicksPerSecond + 1 ELSE 1
  BY <1>2, <1>5 DEF RetryAfter
<1>7. r \in Int /\ r >= w \div TicksPerSecond + 1 /\ r >= 1
  <2> HIDE DEF r
  <2> QED  BY <1>6
<1>8. w < r * TicksPerSecond
  <2> HIDE DEF r, w
  <2> QED  BY <1>2, <1>6, <1>7, RoundedUp
<1> HIDE DEF x, r, u
<1>9. q \in Nat /\ x[1] + Window <= q
  <2>1. r * TicksPerSecond \in Nat
    BY <1>2, <1>7, SMTT(30)
  <2> DEFINE n == r * TicksPerSecond
  <2>2. n \in Nat /\ w < n
    BY <1>8, <2>1
  <2> HIDE DEF n
  <2>3. clock + n \in Nat /\ x[1] + Window <= clock + n
    BY <1>2, <1>5, <2>2
  <2> QED  BY <2>3 DEF n
<1> HIDE DEF q, w
<1>10. KeyIsSound(x, s.granted[k], q, clock)
  BY <1>2, <1>3, <1>5, <1>9, KeyRefused
<1>11. ASSUME NEW j \in Keys
       PROVE  KeyIsSound(Times(u.hits, j), u.granted[j], u.promised[j], clock)
  <2>1. CASE j = k
    <3>1. Times(u.hits, j) = x /\ u.granted[j] = s.granted[k] /\ u.promised[j] = q
      BY <1>0, <1>1, <2>1, TimesWith
    <3> QED  BY <1>10, <3>1
  <2>2. CASE j # k
    <3>1. /\ Times(u.hits, j) = Times(s.hits, j)
          /\ u.granted[j] = s.granted[j] /\ u.promised[j] = s.promised[j]
      BY <1>0, <1>1, <2>2, TimesWith
    <3> QED  BY <3>1 DEF SoundLimiter
  <2> QED  BY <2>1, <2>2
<1>12. DOMAIN u.granted = Keys /\ DOMAIN u.promised = Keys
  BY <1>0, <1>1
<1> QED  BY <1>11, <1>12 DEF SoundLimiter, u

IsLimiter(s) == s = [hits |-> s.hits, checks |-> s.checks, granted |-> s.granted,
                     promised |-> s.promised]

LEMMA CheckIsSound ==
    ASSUME clock \in Nat, NEW s, IsLimiter(s), SoundLimiter(s, clock), NEW k \in Keys
    PROVE  IsLimiter(CheckKey(s, k)) /\ SoundLimiter(CheckKey(s, k), clock)
<1>1. CASE Refuses(s.hits, k)
  <2>1. IsLimiter(Refusal(s, k))
    BY DEF IsLimiter, Refusal
  <2> QED  BY <1>1, <2>1, RefusalIsSound DEF CheckKey
<1>2. CASE ~ Refuses(s.hits, k)
  <2>1. IsLimiter(Hit(s, k))
    BY DEF IsLimiter, Hit
  <2> QED  BY <1>2, <2>1, HitIsSound DEF CheckKey
<1> QED  BY <1>1, <1>2

LEMMA LimiterStarts ==
    LimiterInit => LInv
<1> SUFFICES ASSUME LimiterInit  PROVE LInv
  OBVIOUS
<1>1. clock = 0 /\ 0 \in 0 .. MaxClock /\ MaxHits \in Nat \ {0} /\ Window \in Nat \ {0}
  BY LimiterAssumption DEF LimiterInit
<1>2. \A k : Times(hits, k) = <<>>
  BY DEF LimiterInit, NoHits, Times
<1>3. \A k \in Keys : granted[k] = <<>> /\ promised[k] = 0
  BY DEF LimiterInit
<1> DEFINE e == <<>>
<1>4. e \in Seq(Nat) /\ Len(e) = 0
  OBVIOUS
<1>5. LeftOf(e, e, 0 - Window)
  <2>1. e = SubSeq(e, 0 + 1, Len(e))
    OBVIOUS
  <2> QED  BY <1>4, <2>1 DEF LeftOf
<1>6. KeyIsSound(e, e, 0, 0)
  <2> HIDE DEF e
  <2> QED  BY <1>4, <1>5 DEF KeyIsSound, InOrder, Spaced
<1> QED  BY <1>1, <1>2, <1>3, <1>6 DEF LInv, SoundLimiter, Limiter, LimiterInit

LEMMA LimiterSteps ==
    LInv /\ [LimiterNext]_limiterVars => LInv'
<1> SUFFICES ASSUME LInv, [LimiterNext]_limiterVars  PROVE LInv'
  OBVIOUS
<1>0. clock \in 0 .. MaxClock /\ MaxClock \in Nat /\ clock \in Nat /\ SoundLimiter(Limiter, clock)
  BY LimiterAssumption DEF LInv
<1>1. CASE UNCHANGED limiterVars
  BY <1>0, <1>1 DEF limiterVars, LInv, SoundLimiter, Limiter
<1>2. CASE PassTime
  <2>1. clock' = clock + 1 /\ clock' \in 0 .. MaxClock /\ Limiter' = Limiter
    BY <1>0, <1>2 DEF PassTime, Limiter
  <2>2. SoundLimiter(Limiter, clock + 1)
    BY <1>0, KeyAges DEF SoundLimiter
  <2>3. SoundLimiter(Limiter', clock')
    BY <2>1, <2>2
  <2> QED  BY <2>1, <2>3 DEF LInv, SoundLimiter
<1>3. ASSUME NEW a \in Addresses, NEW b \in Subjects \cup {NoSubject}, Request(a, b)
      PROVE  LInv'
  <2> DEFINE f == CheckKey(Limiter, a)
             g == IF b = NoSubject \/ Refuses(hits, a) THEN f ELSE CheckKey(f, b)
  <2>1. /\ hits' = g.hits /\ checks' = g.checks /\ granted' = g.granted
        /\ promised' = g.promised /\ clock' = clock
    BY <1>3 DEF Request
  <2>2. IsLimiter(f) /\ SoundLimiter(f, clock)
    <3>1. IsLimiter(Limiter) /\ a \in Keys
      BY DEF IsLimiter, Limiter, Keys
    <3> QED  BY <1>0, <3>1, CheckIsSound
  <2> HIDE DEF f
  <2>3. IsLimiter(g) /\ SoundLimiter(g, clock)
    <3>1. b # NoSubject => b \in Keys
      BY DEF Keys
    <3> QED  BY <1>0, <2>2, <3>1, CheckIsSound
  <2> HIDE DEF g
  <2>4. SoundLimiter(Limiter', clock')
    BY <2>1, <2>3 DEF SoundLimiter, Limiter
  <2> QED  BY <1>0, <2>1, <2>4 DEF LInv, SoundLimiter
<1> QED  BY <1>1, <1>2, <1>3 DEF LimiterNext

LEMMA LimiterIsSound == LimiterSpec => []LInv
BY LimiterStarts, LimiterSteps, PTL DEF LimiterSpec

\* Between them MaxHits consecutive hits span a window or fewer of them fall in it.
LEMMA FewInWindow ==
    ASSUME NEW g \in Seq(Nat), InOrder(g), Spaced(g), NEW t \in Nat
    PROVE  Cardinality({i \in DOMAIN g : g[i] \in t .. (t + Window - 1)}) <= MaxHits
<1> DEFINE S == {i \in DOMAIN g : g[i] \in t .. (t + Window - 1)}
<1>0. MaxHits \in Nat /\ MaxHits > 0 /\ Window \in Nat /\ Window > 0 /\ DOMAIN g = 1 .. Len(g)
  BY LimiterAssumption
<1>1. CASE S = {}
  <2> HIDE DEF S
  <2>1. Cardinality(S) = 0
    BY <1>1, FS_EmptySet
  <2> QED  BY <1>0, <2>1 DEF S
<1>2. CASE S # {}
  <2>1. S \subseteq Nat
    BY <1>0
  <2>2. PICK m \in S : \A j \in S : ~ (<<j, m>> \in OpToRel(<, Nat))
    BY <1>2, <2>1, NatLessThanWellFounded, WFMin
  <2>3. \A j \in S : m <= j
    <3> HIDE DEF S
    <3>1. \A j \in S : ~ (j < m)
      BY <2>1, <2>2 DEF OpToRel
    <3> QED  BY <2>1, <3>1
  <2>4. ASSUME NEW j \in S, j >= m + MaxHits  PROVE FALSE
    <3>1. m \in 1 .. Len(g) /\ j \in 1 .. Len(g) /\ g[m] \in Nat /\ g[j] \in Nat
      BY <1>0
    <3>2. m + MaxHits \in 1 .. Len(g) /\ m + MaxHits <= Len(g) /\ m + MaxHits <= j
      BY <1>0, <2>4, <3>1
    <3>3. g[m] + Window <= g[m + MaxHits] /\ g[m + MaxHits] <= g[j] /\ g[m + MaxHits] \in Nat
      BY <3>1, <3>2 DEF Spaced, InOrder
    <3>4. t <= g[m] /\ g[j] <= t + Window - 1
      OBVIOUS
    <3> QED  BY <1>0, <3>1, <3>3, <3>4
  <2>5. S \subseteq m .. (m + MaxHits - 1)
    BY <1>0, <2>1, <2>3, <2>4
  <2> DEFINE n == m + MaxHits - 1
  <2>6. m \in Int /\ n \in Int /\ m <= n
    BY <1>0, <2>1
  <2> HIDE DEF S
  <2>7. IsFiniteSet(m .. n) /\ Cardinality(m .. n) = MaxHits
    <3>1. n - m + 1 = MaxHits
      BY <1>0, <2>6
    <3> HIDE DEF n
    <3> QED  BY <2>6, <3>1, FS_Interval
  <2>8. Cardinality(S) <= Cardinality(m .. n)
    BY <2>5, <2>7, FS_Subset
  <2> QED  BY <2>7, <2>8 DEF S
<1> QED  BY <1>1, <1>2

\* No key is allowed more often than its policy says, in any window and for any
\* sweep interval, whatever mix of addresses and subjects the requests name.
THEOREM LimitHolds == LimiterSpec => []WithinLimit
<1>1. LInv => WithinLimit
  <2> SUFFICES ASSUME LInv, NEW k \in Keys, NEW t \in 0 .. clock
               PROVE  Cardinality({i \in DOMAIN granted[k] :
                                     granted[k][i] \in t .. (t + Window - 1)}) <= MaxHits
    BY DEF WithinLimit
  <2>1. KeyIsSound(Times(hits, k), granted[k], promised[k], clock)
    BY DEF LInv, SoundLimiter, Limiter
  <2>2. granted[k] \in Seq(Nat) /\ InOrder(granted[k]) /\ Spaced(granted[k]) /\ t \in Nat
    BY <2>1 DEF KeyIsSound
  <2> QED  BY <2>2, FewInWindow
<1> QED  BY <1>1, LimiterIsSound, PTL

\* The wait a refusal announces is enough, for every window and every length of tick.
THEOREM WaitHolds == LimiterSpec => []WaitIsEnough
<1>1. LInv => WaitIsEnough
  <2> SUFFICES ASSUME LInv, NEW k \in Keys, promised[k] # 0, promised[k] <= clock
               PROVE  ~ Refuses(hits, k)
    BY DEF WaitIsEnough
  <2> DEFINE x == Times(hits, k)
             y == Later(x, clock - Window)
             z == Later(x, promised[k] - Window)
  <2>0. MaxHits \in Nat /\ Window \in Nat /\ clock \in Nat
    BY LimiterAssumption DEF LInv
  <2>1. KeyIsSound(x, granted[k], promised[k], clock)
    BY DEF LInv, SoundLimiter, Limiter
  <2>2. promised[k] \in Nat /\ Len(z) < MaxHits
    BY <2>1 DEF KeyIsSound
  <2>3. x \in Seq(Nat) /\ InOrder(x)
    <3>1. /\ granted[k] \in Seq(Nat) /\ InOrder(granted[k]) /\ clock - Window \in Int
          /\ LeftOf(x, granted[k], clock - Window)
      BY <2>0, <2>1 DEF KeyIsSound
    <3> QED  BY <3>1, LaterOfLeft
  <2>4. /\ promised[k] - Window \in Int /\ clock - Window \in Int
        /\ promised[k] - Window <= clock - Window
    BY <2>0, <2>2
  <2> HIDE DEF x
  <2>5. Len(y) <= Len(z) /\ Len(y) \in Nat /\ Len(z) \in Nat
    BY <2>3, <2>4, LaterShrinks
  <2>6. Recent(hits, k) = y
    BY <2>0, RecentIs DEF x
  <2> HIDE DEF y, z
  <2> QED  BY <2>0, <2>2, <2>5, <2>6 DEF Refuses
<1> QED  BY <1>1, LimiterIsSound, PTL

-----------------------------------------------------------------------------
(* The validator, for drafts of any size over the built-in types *)

OutNames(d, n) == {h.name : h \in Outputs(d, n)}
InNames(d, n) == {h.name : h \in Inputs(d, n)}

LEMMA NamesOfTypes ==
    /\ TriggerManual.name = "trigger.manual" /\ TriggerWebhook.name = "trigger.webhook"
    /\ TriggerSchedule.name = "trigger.schedule" /\ CoreNoop.name = "core.noop"
    /\ CoreConstant.name = "core.constant" /\ CoreLog.name = "core.log"
    /\ CoreWait.name = "core.wait" /\ CoreCondition.name = "core.condition"
    /\ CoreMerge.name = "core.merge" /\ AiAgent.name = "ai.agent"
BY DEF TriggerManual, TriggerWebhook, TriggerSchedule, CoreNoop, CoreConstant, CoreLog, CoreWait,
       CoreCondition, CoreMerge, AiAgent, Type

\* A type's name finds it, and nothing else.
LEMMA FoundByName ==
    ASSUME NEW d, NEW n
    PROVE  \A t \in Catalogue : d.type[n] = t.name => Descriptors(d, n) = {t}
BY NamesOfTypes DEF Catalogue, Descriptors

\* The handles that the runners' reading and emitting is judged by.
LEMMA HandlesOfTypes ==
    ASSUME NEW d, NEW n, n \in Resolved(d)
    PROVE  /\ d.type[n] \in {"core.noop", "core.log"} =>
                /\ InNames(d, n) = {"main"}
                /\ \E h \in Inputs(d, n) : h.required
           /\ d.type[n] = "core.condition" => OutNames(d, n) = {"true", "false"}
           /\ d.type[n] \notin {"core.condition", "core.log"} => OutNames(d, n) = {"main"}
           /\ \A h \in Inputs(d, n) : h.single
           /\ \A h \in Inputs(d, n) : h.required => InNames(d, n) = {h.name}
<1>1. PICK t \in Catalogue : d.type[n] = t.name
  BY DEF Resolved, Descriptors
<1>2. Descriptors(d, n) = {t}
  BY <1>1, FoundByName
<1>3. Inputs(d, n) = t.inputs /\ Outputs(d, n) = t.outputs
  BY <1>2 DEF Inputs, Outputs
<1>4. CASE t \in {TriggerManual, TriggerWebhook, TriggerSchedule}
  <2>1. t.inputs = {} /\ t.outputs = {Output("main", JsonType)}
    BY <1>4 DEF TriggerManual, TriggerWebhook, TriggerSchedule, Type
  <2> QED  BY <1>1, <1>3, <1>4, <2>1, NamesOfTypes DEF InNames, OutNames, Output
<1>5. CASE t = CoreNoop
  <2>1. t.inputs = {Required("main", AnyType)} /\ t.outputs = {Output("main", AnyType)}
    BY <1>5 DEF CoreNoop, Type
  <2> QED  BY <1>1, <1>3, <1>5, <2>1, NamesOfTypes DEF InNames, OutNames, Output, Required
<1>6. CASE t = CoreConstant
  <2>1. t.inputs = {} /\ t.outputs = {Output("main", TextType)}
    BY <1>6 DEF CoreConstant, Type
  <2> QED  BY <1>1, <1>3, <1>6, <2>1, NamesOfTypes DEF InNames, OutNames, Output
<1>7. CASE t = CoreLog
  <2>1. t.inputs = {Required("main", TextType)} /\ t.outputs = {}
    BY <1>7 DEF CoreLog, Type
  <2> QED  BY <1>1, <1>3, <1>7, <2>1, NamesOfTypes DEF InNames, OutNames, Required
<1>8. CASE t = CoreWait
  <2>1. t.inputs = {Optional("main")} /\ t.outputs = {Output("main", AnyType)}
    BY <1>8 DEF CoreWait, Type
  <2> QED  BY <1>1, <1>3, <1>8, <2>1, NamesOfTypes DEF InNames, OutNames, Output, Optional
<1>9. CASE t = CoreCondition
  <2>1. t.inputs = {Optional("main")} /\ t.outputs = {Output("true", AnyType), Output("false", AnyType)}
    BY <1>9 DEF CoreCondition, Type
  <2> QED  BY <1>1, <1>3, <1>9, <2>1, NamesOfTypes DEF InNames, OutNames, Output, Optional
<1>10. CASE t = CoreMerge
  <2>1. t.inputs = {Optional("first"), Optional("second")} /\ t.outputs = {Output("main", AnyType)}
    BY <1>10 DEF CoreMerge, Type
  <2> QED  BY <1>1, <1>3, <1>10, <2>1, NamesOfTypes DEF InNames, OutNames, Output, Optional
<1>11. CASE t = AiAgent
  <2>1. t.inputs = {Optional("main")} /\ t.outputs = {Output("main", TextType)}
    BY <1>11 DEF AiAgent, Type
  <2> QED  BY <1>1, <1>3, <1>11, <2>1, NamesOfTypes DEF InNames, OutNames, Output, Optional
<1> QED  BY <1>4, <1>5, <1>6, <1>7, <1>8, <1>9, <1>10, <1>11 DEF Catalogue

\* What passing each stage of the validator means.
LEMMA ValidMeans ==
    ASSUME NEW d, IsDraft(d), IsValid(d)
    PROVE  /\ d.nodes = Resolved(d)
           /\ \A e \in d.edges : e.handle \in OutNames(d, e.source) /\ e.port \in InNames(d, e.target)
           /\ \A n \in d.nodes : \A h \in Inputs(d, n) :
                /\ ~ (h.single /\ TooMany(CountInto(d, n, h.name)))
                /\ ~ Unfed(h, CountInto(d, n, h.name))
           /\ Triggers(d) # {}
<1>1. \A c, n : Issue(c, n) \in ValidateGraph(d) => c = "UNREACHABLE_NODE"
  BY DEF IsValid, Issue, Warnings
<1>2. d.nodes = Resolved(d)
  BY <1>1 DEF ValidateGraph, Resolve, Issues, Resolved
<1>3. ASSUME NEW e \in d.edges
      PROVE  e.handle \in OutNames(d, e.source) /\ e.port \in InNames(d, e.target)
  <2>0. e.source \in Resolved(d) /\ e.target \in Resolved(d)
    BY <1>2 DEF IsDraft
  <2>1. CheckEdge(d, e) \subseteq ValidateGraph(d)
    BY DEF ValidateGraph, ValidateHandles
  <2>2. {h \in Outputs(d, e.source) : h.name = e.handle} # {}
    <3> SUFFICES ASSUME {h \in Outputs(d, e.source) : h.name = e.handle} = {}  PROVE FALSE
      OBVIOUS
    <3>1. Issue("UNKNOWN_HANDLE", e.source) \in CheckEdge(d, e)
      BY <2>0 DEF CheckEdge
    <3> QED  BY <1>1, <2>1, <3>1
  <2>3. {h \in Inputs(d, e.target) : h.name = e.port} # {}
    <3> SUFFICES ASSUME {h \in Inputs(d, e.target) : h.name = e.port} = {}  PROVE FALSE
      OBVIOUS
    <3>1. Issue("UNKNOWN_HANDLE", e.target) \in CheckEdge(d, e)
      BY <2>0 DEF CheckEdge
    <3> QED  BY <1>1, <2>1, <3>1
  <2> QED  BY <2>2, <2>3 DEF OutNames, InNames
<1>4. ASSUME NEW n \in d.nodes, NEW h \in Inputs(d, n)
      PROVE  /\ ~ (h.single /\ TooMany(CountInto(d, n, h.name)))
             /\ ~ Unfed(h, CountInto(d, n, h.name))
  <2>1. CheckInputs(d, n) \subseteq ValidateGraph(d)
    <3> DEFINE A == UNION {CheckEdge(d, e) : e \in d.edges}
               B == UNION {CheckInputs(d, m) : m \in d.nodes}
    <3>1. CheckInputs(d, n) \in {CheckInputs(d, m) : m \in d.nodes}
      OBVIOUS
    <3>2. CheckInputs(d, n) \subseteq B
      BY <3>1
    <3>3. ValidateHandles(d) = A \cup B
      BY DEF ValidateHandles
    <3> HIDE DEF A, B
    <3>4. ValidateHandles(d) \subseteq ValidateGraph(d)
      BY DEF ValidateGraph
    <3> QED  BY <3>2, <3>3, <3>4
  <2>2. ASSUME h.single, TooMany(CountInto(d, n, h.name))  PROVE FALSE
    <3>1. Issue("ARITY_VIOLATION", n) \in CheckInputs(d, n)
      BY <2>2 DEF CheckInputs
    <3> QED  BY <1>1, <2>1, <3>1
  <2>3. ASSUME Unfed(h, CountInto(d, n, h.name))  PROVE FALSE
    <3>1. Issue("REQUIRED_INPUT_MISSING", n) \in CheckInputs(d, n)
      BY <2>3 DEF CheckInputs
    <3> QED  BY <1>1, <2>1, <3>1
  <2> QED  BY <2>2, <2>3
<1>5. ASSUME Triggers(d) = {}  PROVE FALSE
  <2>1. Issue("NO_TRIGGER", 0) \in ValidateGraph(d)
    BY <1>5 DEF ValidateGraph, ValidateStructure, CheckTriggers
  <2> QED  BY <1>1, <2>1
<1> QED  BY <1>2, <1>3, <1>4, <1>5

\* What may be published has the shape the engine assumes, but for acyclicity: no
\* dangling edge, no two edges into one port, and one edge into a node that
\* requires an input.
THEOREM ValidIsSupported ==
    ASSUME NEW d, IsDraft(d), IsValid(d)
    PROVE  IsGraph(d) /\ SupportedFanIn(d) /\ RequiredIsFed(d)
<1>1. IsGraph(d)
  BY ValidMeans DEF IsDraft, IsGraph, Triggers
<1>2. IsFiniteSet(d.edges) /\ d.nodes = Resolved(d)
  BY ValidMeans DEF IsDraft
<1>3. ASSUME NEW n \in d.nodes, NEW port
      PROVE  LET S == {e \in Incoming(d, n) : e.port = port}
             IN  IsFiniteSet(S) /\ IsFiniteSet(Incoming(d, n)) /\ CountInto(d, n, port) = Cardinality(S)
  <2>1. Incoming(d, n) \subseteq d.edges /\ {e \in Incoming(d, n) : e.port = port} \subseteq d.edges
    BY DEF Incoming
  <2> QED  BY <1>2, <2>1, FS_Subset DEF CountInto
<1>4. ASSUME NEW e \in d.edges, NEW f \in d.edges, e.target = f.target, e.port = f.port, e # f
      PROVE  FALSE
  <2> DEFINE n == e.target
             S == {g \in Incoming(d, n) : g.port = e.port}
  <2>1. n \in d.nodes /\ e.port \in InNames(d, n)
    BY ValidMeans DEF IsDraft
  <2>2. PICK h \in Inputs(d, n) : h.name = e.port
    BY <2>1 DEF InNames
  <2>3. ~ TooMany(CountInto(d, n, e.port))
    BY <1>2, <2>1, <2>2, ValidMeans, HandlesOfTypes
  <2>4. e \in S /\ f \in S
    BY <1>4 DEF Incoming
  <2>5. IsFiniteSet(S) /\ CountInto(d, n, e.port) = Cardinality(S)
    BY <1>3, <2>1
  <2>6. {e, f} \subseteq S /\ IsFiniteSet({e, f}) /\ Cardinality({e, f}) = 2
    <3> DEFINE E == {e}
    <3>1. IsFiniteSet(E) /\ Cardinality(E) = 1 /\ f \notin E
      BY <1>4, FS_Singleton
    <3>3. E \cup {f} = {e, f}
      OBVIOUS
    <3> HIDE DEF E
    <3>2. IsFiniteSet(E \cup {f}) /\ Cardinality(E \cup {f}) = 2
      BY <3>1, FS_AddElement
    <3> QED  BY <2>4, <3>2, <3>3
  <2> HIDE DEF S
  <2>7. Cardinality(S) >= 2 /\ Cardinality(S) \in Nat
    BY <2>5, <2>6, FS_Subset, FS_CardinalityType
  <2> QED  BY <2>3, <2>5, <2>7 DEF TooMany
<1>5. ASSUME NEW n \in d.nodes, NEW h \in Inputs(d, n), h.required
      PROVE  Cardinality(Incoming(d, n)) = 1
  <2>1. h.single /\ InNames(d, n) = {h.name}
    BY <1>2, <1>5, HandlesOfTypes
  <2>2. {e \in Incoming(d, n) : e.port = h.name} = Incoming(d, n)
    BY <2>1, ValidMeans DEF Incoming
  <2>3. CountInto(d, n, h.name) = Cardinality(Incoming(d, n)) /\ IsFiniteSet(Incoming(d, n))
    BY <1>3, <2>2
  <2>4. ~ TooMany(CountInto(d, n, h.name)) /\ ~ Unfed(h, CountInto(d, n, h.name))
    BY <2>1, ValidMeans
  <2>5. Cardinality(Incoming(d, n)) \in Nat
    BY <2>3, FS_CardinalityType
  <2> QED  BY <1>5, <2>3, <2>4, <2>5 DEF TooMany, Unfed
<1>6. SupportedFanIn(d)
  BY <1>4 DEF SupportedFanIn
<1>7. RequiredIsFed(d)
  BY <1>5 DEF RequiredIsFed
<1> QED  BY <1>1, <1>6, <1>7


-----------------------------------------------------------------------------
(* A run of a draft that may be published *)

\* Of a valid draft, a node whose inputs are satisfied and that requires one has
\* it: whatever live edge satisfied it enters at its only port.
LEMMA RequiredArrives ==
    ASSUME NEW n \in draft.nodes, IsDraft(draft), IsValid(draft),
           draft.type[n] \in {"core.noop", "core.log"}, UpstreamSatisfied(draft, st, out, n)
    PROVE  "main" \in ResolveInputs(n)
<1>1. n \in Resolved(draft)
  BY ValidMeans
<1>2. InNames(draft, n) = {"main"} /\ \E h \in Inputs(draft, n) : h.required
  BY <1>1, HandlesOfTypes
<1>3. Incoming(draft, n) # {}
  <2> SUFFICES ASSUME Incoming(draft, n) = {}  PROVE FALSE
    OBVIOUS
  <2>1. Cardinality(Incoming(draft, n)) = 1
    BY <1>2, ValidIsSupported DEF RequiredIsFed
  <2> QED  BY <2>1, FS_EmptySet
<1>4. PICK e \in Incoming(draft, n) : IsLive(st, out, e)
  BY <1>3 DEF UpstreamSatisfied
<1>5. e \in draft.edges /\ e.target = n /\ e.port = "main" /\ e.handle \in out[e.source]
  BY <1>2, <1>4, ValidMeans DEF Incoming, IsLive
<1> QED  BY <1>5 DEF ResolveInputs, Incoming

\* What a runner may answer when what it requires is there.
LEMMA OutcomesAreSound ==
    ASSUME NEW n \in draft.nodes, IsDraft(draft), IsValid(draft),
           UpstreamSatisfied(draft, st, out, n), NEW r \in Outcomes(n)
    PROVE  /\ r.status \in {"SUCCEEDED", "WAITING", "FAILED"} /\ r.broken = FALSE
           /\ r.status # "SUCCEEDED" => r.handles = {}
           /\ r.status = "FAILED" => MayFail(n)
           /\ r.handles \subseteq OutNames(draft, n)
           /\ draft.type[n] = "core.condition" => \A h, k \in r.handles : h = k
<1> DEFINE type == draft.type[n]
           main == Completed({"main"})
<1>1. n \in Resolved(draft)
  BY ValidMeans
<1>2. /\ main.status = "SUCCEEDED" /\ main.handles = {"main"} /\ main.broken = FALSE
      /\ \A hs : Completed(hs).status = "SUCCEEDED" /\ Completed(hs).handles = hs
                 /\ Completed(hs).broken = FALSE
      /\ Suspended.status = "WAITING" /\ Suspended.handles = {} /\ Suspended.broken = FALSE
      /\ Failed.status = "FAILED" /\ Failed.handles = {} /\ Failed.broken = FALSE
  BY DEF Completed, Suspended, Failed
<1>3. /\ type \notin {"core.condition", "core.log"} => OutNames(draft, n) = {"main"}
      /\ type = "core.condition" => OutNames(draft, n) = {"true", "false"}
  BY <1>1, HandlesOfTypes
<1>4. CASE type = "core.noop"
  <2>1. r = main
    BY <1>4, RequiredArrives DEF Outcomes, Forwards, Emits
  <2> QED  BY <1>2, <1>3, <1>4, <2>1
<1>5. CASE type = "core.log"
  <2>1. r = Completed({})
    BY <1>5, RequiredArrives DEF Outcomes, Logs
  <2> QED  BY <1>2, <1>5, <2>1
<1>6. CASE type = "core.condition"
  <2>1. \/ r = Completed({"true"}) \/ r = Completed({"false"})
        \/ r = Failed /\ n \in draft.unhashable
    BY <1>6 DEF Outcomes, Branches
  <2> QED  BY <1>2, <1>3, <1>6, <2>1 DEF MayFail
<1>7. CASE type = "core.merge"
  <2>1. r = main \/ r = Completed({})
    BY <1>7 DEF Outcomes, Merges, Emits
  <2> QED  BY <1>2, <1>3, <1>7, <2>1
<1>8. CASE type = "core.wait"
  <2>1. r = Suspended \/ r = Completed({"main"} \cap ResolveInputs(n))
    BY <1>8 DEF Outcomes, Waits
  <2> QED  BY <1>2, <1>3, <1>8, <2>1
<1>9. CASE type = "ai.agent"
  <2>1. r = main \/ r = Failed
    BY <1>9 DEF Outcomes, Emits
  <2> QED  BY <1>2, <1>3, <1>9, <2>1 DEF MayFail
<1>10. CASE type \notin {"core.noop", "core.log", "core.condition", "core.merge", "core.wait", "ai.agent"}
  <2>1. r = main
    BY <1>10 DEF Outcomes, Emits
  <2> QED  BY <1>2, <1>3, <1>10, <2>1
<1> QED  BY <1>4, <1>5, <1>6, <1>7, <1>8, <1>9, <1>10

FlowTyped ==
    /\ run \in RunStatus /\ st \in [draft.nodes -> NodeStatus] /\ DOMAIN out = draft.nodes

\* Only what succeeded has emitted, and on handles it declares; a condition on one.
OutputsAreDrawn ==
    \A n \in draft.nodes :
      /\ st[n] # "SUCCEEDED" => out[n] = {}
      /\ out[n] \subseteq OutNames(draft, n)
      /\ draft.type[n] = "core.condition" => \A h, k \in out[n] : h = k

\* What was started had its inputs, and has them still.
TakenIsSatisfied == \A n \in draft.nodes : Taken(n) => UpstreamSatisfied(draft, st, out, n)

FailuresAreOwn ==
    /\ \A n \in draft.nodes : st[n] = "FAILED" => MayFail(n)
    /\ run = "FAILED" => \E n \in draft.nodes : st[n] = "FAILED"

FlowInv ==
    /\ IsDraft(draft) /\ IsValid(draft) /\ FlowTyped
    /\ OutputsAreDrawn /\ TakenIsSatisfied /\ FailuresAreOwn /\ broken = {}

\* As long as what has finished keeps its status and outputs, a node that was
\* satisfied is.
LEMMA StaysSatisfied ==
    ASSUME NEW g, IsGraph(g), NEW s, NEW o, NEW s2, NEW o2,
           \A n \in g.nodes : s[n] \in {"SUCCEEDED", "SKIPPED"} => s2[n] = s[n] /\ o2[n] = o[n],
           NEW n \in g.nodes, UpstreamSatisfied(g, s, o, n)
    PROVE  UpstreamSatisfied(g, s2, o2, n)
<1>1. ASSUME NEW e \in Incoming(g, n)
      PROVE  /\ IsLive(s, o, e) => IsLive(s2, o2, e)
             /\ IsDead(s, o, e) => IsDead(s2, o2, e)
  <2>1. e.source \in g.nodes
    BY DEF Incoming, IsGraph
  <2> QED  BY <2>1 DEF IsLive, IsDead
<1> QED  BY <1>1 DEF UpstreamSatisfied

LEMMA FlowStarts ==
    ASSUME NEW drafts, \A d \in drafts : IsDraft(d), RunInit(drafts)
    PROVE  FlowInv
<1>1. IsDraft(draft) /\ IsValid(draft)
  BY DEF RunInit
<1>2. FlowTyped
  BY DEF RunInit, FlowTyped, RunStatus, NodeStatus
<1> QED  BY <1>1, <1>2 DEF RunInit, FlowInv, OutputsAreDrawn, TakenIsSatisfied, Taken, FailuresAreOwn

LEMMA FlowAdvances == ASSUME FlowInv, Advance PROVE FlowInv'
<1> DEFINE d == Tick(draft, run, st, out)
           c == Conclusion(draft, st, Ready(draft, st, out))
<1>1. /\ IsGraph(draft) /\ FlowTyped /\ OutputsAreDrawn /\ TakenIsSatisfied /\ FailuresAreOwn
      /\ \A n \in draft.nodes : st[n] # "RUNNING"
  BY ValidIsSupported DEF FlowInv, Advance
<1>2. /\ st' = AfterStart(st, d) /\ run' = AfterTickRun(run, d)
      /\ draft' = draft /\ out' = out /\ broken' = broken
  BY DEF Advance
<1>3. /\ st' \in [draft.nodes -> NodeStatus]
      /\ \A n \in draft.nodes :
           st'[n] = IF n \in Ready(draft, st, out) THEN "RUNNING"
                    ELSE IF n \in Prunable(draft, st, out) THEN "SKIPPED" ELSE st[n]
  BY <1>1, <1>2 DEF FlowTyped, AfterStart, AfterSkip, AfterRecover, Tick, Stranded, NodeStatus
<1>4. ASSUME NEW n \in draft.nodes, st[n] # "PENDING"  PROVE st'[n] = st[n]
  BY <1>1, <1>3, <1>4 DEF Ready, Prunable
<1>5. run' = (IF c = NoStatus THEN run ELSE c) /\ c \in RunStatus \cup {NoStatus}
  BY <1>2 DEF AfterTickRun, Tick, Conclusion, RunStatus, NoStatus
<1>6. FlowTyped'
  BY <1>1, <1>2, <1>3, <1>5 DEF FlowTyped
<1>7. OutputsAreDrawn'
  <2> SUFFICES ASSUME NEW n \in draft.nodes
               PROVE  st'[n] # "SUCCEEDED" => out[n] = {}
    BY <1>1, <1>2 DEF OutputsAreDrawn, OutNames, Outputs, Descriptors
  <2> QED  BY <1>1, <1>4 DEF OutputsAreDrawn
<1>8. TakenIsSatisfied'
  <2> SUFFICES ASSUME NEW n \in draft.nodes, st'[n] \in {"RUNNING", "WAITING", "SUCCEEDED", "FAILED"}
               PROVE  UpstreamSatisfied(draft, st', out', n)
    BY <1>2 DEF TakenIsSatisfied, Taken
  <2>1. UpstreamSatisfied(draft, st, out, n)
    BY <1>1, <1>3 DEF TakenIsSatisfied, Taken, Ready
  <2>2. \A m \in draft.nodes : st[m] \in {"SUCCEEDED", "SKIPPED"} => st'[m] = st[m] /\ out'[m] = out[m]
    BY <1>2, <1>4
  <2> QED  BY <1>1, <2>1, <2>2, StaysSatisfied
<1>9. FailuresAreOwn'
  <2>1. \A n \in draft.nodes : st'[n] = "FAILED" <=> st[n] = "FAILED"
    BY <1>3, <1>4
  <2>2. c = "FAILED" => \E n \in draft.nodes : st[n] = "FAILED"
    BY DEF Conclusion, NoStatus
  <2> QED  BY <1>1, <1>2, <1>5, <2>1, <2>2 DEF FailuresAreOwn, MayFail, NoStatus
<1> QED  BY <1>2, <1>6, <1>7, <1>8, <1>9 DEF FlowInv

\* What an invocation and a resume share: only a node that had not finished moves.
LEMMA FlowInvokes == ASSUME FlowInv, NEW n \in draft.nodes, Invoke(n) PROVE FlowInv'
<1>1. /\ IsGraph(draft) /\ IsDraft(draft) /\ IsValid(draft)
      /\ FlowTyped /\ OutputsAreDrawn /\ TakenIsSatisfied /\ FailuresAreOwn /\ broken = {}
      /\ st[n] = "RUNNING" /\ draft' = draft /\ run' = run
  BY ValidIsSupported DEF FlowInv, Invoke
<1>2. UpstreamSatisfied(draft, st, out, n)
  BY <1>1 DEF TakenIsSatisfied, Taken
<1>3. PICK r \in Outcomes(n) :
        /\ st' = [st EXCEPT ![n] = r.status] /\ out' = [out EXCEPT ![n] = r.handles]
        /\ broken' = IF r.broken THEN broken \cup {n} ELSE broken
  BY DEF Invoke
<1>4. /\ r.status \in {"SUCCEEDED", "WAITING", "FAILED"} /\ r.broken = FALSE
      /\ r.status # "SUCCEEDED" => r.handles = {}
      /\ r.status = "FAILED" => MayFail(n)
      /\ r.handles \subseteq OutNames(draft, n)
      /\ draft.type[n] = "core.condition" => \A h, k \in r.handles : h = k
  BY <1>1, <1>2, OutcomesAreSound
<1>5. broken' = {}
  BY <1>1, <1>3, <1>4
<1>6. FlowTyped'
  BY <1>1, <1>3, <1>4 DEF FlowTyped, NodeStatus
<1>7. \A m \in draft.nodes : IF m = n THEN st'[m] = r.status /\ out'[m] = r.handles
                             ELSE st'[m] = st[m] /\ out'[m] = out[m]
  BY <1>1, <1>3 DEF FlowTyped
<1>8. OutputsAreDrawn'
  <2>1. \A m \in draft.nodes :
          /\ st'[m] # "SUCCEEDED" => out'[m] = {}
          /\ out'[m] \subseteq OutNames(draft, m)
          /\ draft.type[m] = "core.condition" => \A h, k \in out'[m] : h = k
    BY <1>1, <1>4, <1>7 DEF OutputsAreDrawn
  <2> QED  BY <1>1, <2>1 DEF OutputsAreDrawn, OutNames, Outputs, Descriptors
<1>9. TakenIsSatisfied'
  <2> SUFFICES ASSUME NEW m \in draft.nodes, st'[m] \in {"RUNNING", "WAITING", "SUCCEEDED", "FAILED"}
               PROVE  UpstreamSatisfied(draft, st', out', m)
    BY <1>1 DEF TakenIsSatisfied, Taken
  <2>1. UpstreamSatisfied(draft, st, out, m)
    BY <1>1, <1>2, <1>7 DEF TakenIsSatisfied, Taken
  <2>2. \A k \in draft.nodes : st[k] \in {"SUCCEEDED", "SKIPPED"} => st'[k] = st[k] /\ out'[k] = out[k]
    BY <1>1, <1>7
  <2> QED  BY <1>1, <2>1, <2>2, StaysSatisfied
<1>10. FailuresAreOwn'
  <2>1. \A m \in draft.nodes : st[m] = "FAILED" => st'[m] = "FAILED"
    BY <1>1, <1>7
  <2>2. \A m \in draft.nodes : st'[m] = "FAILED" => MayFail(m)
    BY <1>1, <1>4, <1>7 DEF FailuresAreOwn
  <2> QED  BY <1>1, <2>1, <2>2 DEF FailuresAreOwn, MayFail
<1> QED  BY <1>1, <1>5, <1>6, <1>8, <1>9, <1>10 DEF FlowInv

LEMMA FlowResumes == ASSUME FlowInv, NEW n \in draft.nodes, ResumeNode(n) PROVE FlowInv'
<1>1. /\ IsGraph(draft) /\ FlowTyped /\ OutputsAreDrawn /\ TakenIsSatisfied /\ FailuresAreOwn
      /\ st[n] = "WAITING" /\ st' = [st EXCEPT ![n] = "RUNNING"] /\ run' = "RUNNING"
      /\ draft' = draft /\ out' = out /\ broken' = broken
  BY ValidIsSupported DEF FlowInv, ResumeNode
<1>2. \A m \in draft.nodes : st'[m] = IF m = n THEN "RUNNING" ELSE st[m]
  BY <1>1 DEF FlowTyped
<1>3. FlowTyped'
  BY <1>1 DEF FlowTyped, NodeStatus, RunStatus
<1>4. OutputsAreDrawn'
  <2>1. \A m \in draft.nodes : st'[m] # "SUCCEEDED" => out'[m] = {}
    BY <1>1, <1>2 DEF OutputsAreDrawn
  <2> QED  BY <1>1, <2>1 DEF OutputsAreDrawn, OutNames, Outputs, Descriptors
<1>5. TakenIsSatisfied'
  <2> SUFFICES ASSUME NEW m \in draft.nodes, st'[m] \in {"RUNNING", "WAITING", "SUCCEEDED", "FAILED"}
               PROVE  UpstreamSatisfied(draft, st', out', m)
    BY <1>1 DEF TakenIsSatisfied, Taken
  <2>1. UpstreamSatisfied(draft, st, out, m)
    BY <1>1, <1>2 DEF TakenIsSatisfied, Taken
  <2>2. \A k \in draft.nodes : st[k] \in {"SUCCEEDED", "SKIPPED"} => st'[k] = st[k] /\ out'[k] = out[k]
    BY <1>1, <1>2
  <2> QED  BY <1>1, <2>1, <2>2, StaysSatisfied
<1>6. FailuresAreOwn'
  <2>1. \A m \in draft.nodes : st'[m] = "FAILED" <=> st[m] = "FAILED"
    BY <1>1, <1>2
  <2> QED  BY <1>1, <2>1 DEF FailuresAreOwn, MayFail
<1> QED  BY <1>1, <1>3, <1>4, <1>5, <1>6 DEF FlowInv

LEMMA FlowSteps == FlowInv /\ [RunNext]_runVars => FlowInv'
<1>1. ASSUME FlowInv, UNCHANGED runVars  PROVE FlowInv'
  BY <1>1 DEF runVars, FlowInv, FlowTyped, OutputsAreDrawn, TakenIsSatisfied, Taken,
     FailuresAreOwn, MayFail, OutNames, Outputs, Descriptors
<1> QED  BY <1>1, FlowAdvances, FlowInvokes, FlowResumes DEF RunNext

\* Of every draft that may be published, whatever its size: no runner reads an
\* input that is not there, only agents and the conditions that look for a list or
\* an object fail, every node emits on handles it
\* declares, and what lies behind the two ways out of a condition never both runs.
THEOREM FlowsRunAsDrawn ==
    ASSUME NEW drafts, \A d \in drafts : IsDraft(d)
    PROVE  RunSpec(drafts) => []RunsAsDrawn
<1>1. RunInit(drafts) => FlowInv
  BY FlowStarts
<1>2. FlowInv => RunsAsDrawn
  <2> SUFFICES ASSUME FlowInv  PROVE RunsAsDrawn
    OBVIOUS
  <2>1. NothingIsMissing
    BY DEF FlowInv, FailuresAreOwn, NothingIsMissing
  <2>2. \A n \in draft.nodes : out[n] \subseteq {h.name : h \in Outputs(draft, n)}
    BY DEF FlowInv, OutputsAreDrawn, OutNames
  <2>3. ASSUME NEW e \in draft.edges, NEW f \in draft.edges,
               draft.type[e.source] = "core.condition", e.source = f.source, e.handle # f.handle,
               Incoming(draft, e.target) = {e}, Incoming(draft, f.target) = {f},
               Taken(e.target), Taken(f.target)
        PROVE  FALSE
    <3>1. e.source \in draft.nodes /\ e.target \in draft.nodes /\ f.target \in draft.nodes
      BY DEF FlowInv, IsDraft
    <3>2. UpstreamSatisfied(draft, st, out, e.target) /\ UpstreamSatisfied(draft, st, out, f.target)
      BY <2>3, <3>1 DEF FlowInv, TakenIsSatisfied
    <3>3. IsLive(st, out, e) /\ IsLive(st, out, f)
      BY <2>3, <3>2 DEF UpstreamSatisfied
    <3>4. e.handle \in out[e.source] /\ f.handle \in out[e.source]
      BY <2>3, <3>3 DEF IsLive
    <3> QED  BY <2>3, <3>1, <3>4 DEF FlowInv, OutputsAreDrawn
  <2> QED  BY <2>1, <2>2, <2>3 DEF RunsAsDrawn, BranchesExclude
<1> QED  BY <1>1, <1>2, FlowSteps, PTL DEF RunSpec

-----------------------------------------------------------------------------
(* The search, as a recursion whose measure falls: every step colours a node grey, *)
(* or a grey one black                                                        *)

WhiteFrom(d, path, done) == Successors(d, Last(path)) \ (done \cup ToSet(path))

Searched(d, f) ==
    [at \in Seq(d.nodes) \X SUBSET d.nodes |->
       IF at[1] = <<>>
       THEN IF d.nodes = at[2] THEN {} ELSE f[<< <<First(d.nodes \ at[2])>>, at[2] >>]
       ELSE Closed(d, at[1]) \cup
            IF WhiteFrom(d, at[1], at[2]) # {} THEN f[<<Append(at[1], First(WhiteFrom(d, at[1], at[2]))), at[2]>>]
            ELSE f[<<Front(at[1]), at[2] \cup {Last(at[1])}>>]]

Places(d) == Seq(d.nodes) \X SUBSET d.nodes
Ended(d, at) == at[1] = <<>> /\ d.nodes = at[2]
ClosedAt(d, at) == IF at[1] = <<>> THEN {} ELSE Closed(d, at[1])
NextAt(d, at) ==
    IF at[1] = <<>> THEN << <<First(d.nodes \ at[2])>>, at[2] >>
    ELSE IF WhiteFrom(d, at[1], at[2]) # {} THEN <<Append(at[1], First(WhiteFrom(d, at[1], at[2]))), at[2]>>
    ELSE <<Front(at[1]), at[2] \cup {Last(at[1])}>>
Colourless(d, at) == d.nodes \ (at[2] \cup ToSet(at[1]))
Left(d, at) == 2 * Cardinality(Colourless(d, at)) + Len(at[1])

LEMMA FirstIs ==
    ASSUME NEW nodes, nodes \subseteq Nat, nodes # {}
    PROVE  First(nodes) \in nodes
BY FirstOf DEF First

LEMMA BeforeLast ==
    ASSUME NEW l \in Nat, NEW i \in 1 .. l, i # l
    PROVE  i \in 1 .. l - 1
OBVIOUS

LEMMA AppendIs ==
    ASSUME NEW N, NEW p \in Seq(N), NEW x \in N
    PROVE  /\ Append(p, x) \in Seq(N) /\ Len(Append(p, x)) = Len(p) + 1
           /\ Append(p, x) # <<>> /\ Last(Append(p, x)) = x
           /\ ToSet(Append(p, x)) = ToSet(p) \cup {x}
           /\ \A i \in 1 .. Len(p) : Append(p, x)[i] = p[i]
<1> DEFINE q == Append(p, x)
<1>1. /\ q \in Seq(N) /\ Len(q) = Len(p) + 1 /\ q # <<>> /\ q[Len(q)] = x
      /\ DOMAIN q = 1 .. Len(q) /\ DOMAIN p = 1 .. Len(p) /\ Len(p) \in Nat
      /\ \A i \in 1 .. Len(p) : q[i] = p[i]
  OBVIOUS
<1> HIDE DEF q
<1>2. ToSet(q) \subseteq ToSet(p) \cup {x}
  <2> SUFFICES ASSUME NEW i \in 1 .. Len(q)  PROVE q[i] \in ToSet(p) \cup {x}
    BY <1>1 DEF ToSet
  <2>1. CASE i = Len(q)
    BY <1>1, <2>1
  <2>2. CASE i # Len(q)
    <3>1. i \in 1 .. Len(p)
      BY <1>1, <2>2
    <3> QED  BY <1>1, <3>1 DEF ToSet
  <2> QED  BY <2>1, <2>2
<1>3. ToSet(p) \cup {x} \subseteq ToSet(q)
  <2>1. Len(q) \in 1 .. Len(q) /\ \A i \in 1 .. Len(p) : i \in 1 .. Len(q)
    BY <1>1
  <2> QED  BY <1>1, <2>1 DEF ToSet
<1> QED  BY <1>1, <1>2, <1>3 DEF q, Last

LEMMA SetsOfPaths ==
    ASSUME NEW N, NEW p \in Seq(N)
    PROVE  /\ p # <<>> => /\ Front(p) \in Seq(N) /\ Last(p) \in N /\ Len(Front(p)) = Len(p) - 1
                          /\ Last(p) = p[Len(p)] /\ Len(p) \in 1 .. Len(p)
                          /\ ToSet(p) = ToSet(Front(p)) \cup {Last(p)}
                          /\ \A i \in 1 .. Len(p) - 1 : Front(p)[i] = p[i]
           /\ \A x \in N : <<x>> \in Seq(N) /\ ToSet(<<x>>) = {x} /\ Len(<<x>>) = 1
           /\ ToSet(p) \subseteq N /\ DOMAIN p = 1 .. Len(p) /\ Len(p) \in Nat
<1>2. ASSUME p # <<>>
      PROVE  /\ Front(p) \in Seq(N) /\ Last(p) \in N /\ Len(Front(p)) = Len(p) - 1
             /\ Last(p) = p[Len(p)] /\ Len(p) \in 1 .. Len(p)
             /\ ToSet(p) = ToSet(Front(p)) \cup {Last(p)}
             /\ \A i \in 1 .. Len(p) - 1 : Front(p)[i] = p[i]
  <2> DEFINE q == SubSeq(p, 1, Len(p) - 1)
  <2>1. Len(p) \in Nat /\ Len(p) # 0 /\ DOMAIN p = 1 .. Len(p)
    BY <1>2
  <2>2. /\ q \in Seq(N) /\ Len(q) = Len(p) - 1 /\ DOMAIN q = 1 .. Len(q)
        /\ \A i \in 1 .. Len(p) - 1 : q[i] = p[i]
    BY <2>1
  <2>3. p[Len(p)] \in N /\ Len(p) \in 1 .. Len(p)
    BY <2>1
  <2> HIDE DEF q
  <2>4. ToSet(p) \subseteq ToSet(q) \cup {p[Len(p)]}
    <3> SUFFICES ASSUME NEW i \in 1 .. Len(p)  PROVE p[i] \in ToSet(q) \cup {p[Len(p)]}
      BY <2>1 DEF ToSet
    <3>1. CASE i = Len(p)
      BY <3>1
    <3>2. CASE i # Len(p)
      <4>1. i \in 1 .. Len(q) /\ i \in 1 .. Len(p) - 1
        <5>1. i \in 1 .. Len(p) - 1
          BY <2>1, <3>2, BeforeLast
        <5> QED  BY <2>2, <5>1
      <4> QED  BY <2>2, <4>1 DEF ToSet
    <3> QED  BY <3>1, <3>2
  <2>5. ToSet(q) \cup {p[Len(p)]} \subseteq ToSet(p)
    <3>1. \A i \in 1 .. Len(q) : i \in 1 .. Len(p) /\ i \in 1 .. Len(p) - 1
      BY <2>1, <2>2
    <3> QED  BY <2>1, <2>2, <2>3, <3>1 DEF ToSet
  <2> QED  BY <2>1, <2>2, <2>3, <2>4, <2>5 DEF q, Front, Last
<1>3. \A x \in N : <<x>> \in Seq(N) /\ ToSet(<<x>>) = {x} /\ Len(<<x>>) = 1
  BY DEF ToSet
<1>4. ToSet(p) \subseteq N /\ DOMAIN p = 1 .. Len(p) /\ Len(p) \in Nat
  BY DEF ToSet
<1> QED  BY <1>2, <1>3, <1>4

LEMMA ColourlessFalls ==
    ASSUME NEW d, IsDraft(d), NEW at \in Places(d), NEW x, x \in Colourless(d, at)
    PROVE  /\ IsFiniteSet(Colourless(d, at)) /\ Cardinality(Colourless(d, at)) \in Nat
           /\ Cardinality(Colourless(d, at) \ {x}) = Cardinality(Colourless(d, at)) - 1
<1>1. IsFiniteSet(Colourless(d, at))
  BY FS_Subset DEF IsDraft, Colourless
<1> QED  BY <1>1, FS_RemoveElement, FS_CardinalityType

LEMMA NextAtIs ==
    ASSUME NEW d, IsDraft(d), NEW at \in Places(d)
    PROVE  /\ Left(d, at) \in Nat
           /\ ~ Ended(d, at) => NextAt(d, at) \in Places(d) /\ Left(d, NextAt(d, at)) < Left(d, at)
<1> DEFINE path == at[1]
           done == at[2]
           c == Cardinality(Colourless(d, at))
<1>1. path \in Seq(d.nodes) /\ done \in SUBSET d.nodes /\ at = <<path, done>>
  BY DEF Places
<1>2. IsFiniteSet(Colourless(d, at)) /\ c \in Nat
  <2>1. IsFiniteSet(Colourless(d, at))
    BY FS_Subset DEF IsDraft, Colourless
  <2> QED  BY <2>1, FS_CardinalityType
<1>3. Len(path) \in Nat /\ ToSet(path) \subseteq d.nodes
  BY <1>1, SetsOfPaths
<1>4. Left(d, at) = 2 * c + Len(path)
  BY DEF Left
<1> HIDE DEF c
<1>5. ASSUME path = <<>>, d.nodes # done
      PROVE  NextAt(d, at) \in Places(d) /\ Left(d, NextAt(d, at)) < Left(d, at)
  <2> DEFINE x == First(d.nodes \ done)
             q == <<x>>
  <2>1. x \in d.nodes \ done
    <3>1. d.nodes \ done # {} /\ d.nodes \ done \subseteq Nat
      BY <1>1, <1>5 DEF IsDraft
    <3> QED  BY <3>1, FirstIs
  <2>2. NextAt(d, at) = <<q, done>>
    BY <1>5 DEF NextAt
  <2>3. q \in Seq(d.nodes) /\ ToSet(q) = {x} /\ Len(q) = 1
    BY <1>1, <2>1, SetsOfPaths
  <2>4. ToSet(path) = {} /\ Len(path) = 0
    BY <1>5 DEF ToSet
  <2> HIDE DEF x, q
  <2>5. /\ Colourless(d, <<q, done>>) = Colourless(d, at) \ {x}
        /\ x \in Colourless(d, at)
    BY <2>1, <2>3, <2>4 DEF Colourless
  <2>6. Cardinality(Colourless(d, <<q, done>>)) = c - 1
    BY <2>5, ColourlessFalls DEF c
  <2>7. Left(d, <<q, done>>) = 2 * (c - 1) + 1
    BY <2>3, <2>6 DEF Left
  <2>8. <<q, done>> \in Places(d)
    BY <1>1, <2>3 DEF Places
  <2> QED  BY <1>2, <1>4, <2>2, <2>4, <2>7, <2>8
<1>6. ASSUME path # <<>>, WhiteFrom(d, path, done) # {}
      PROVE  NextAt(d, at) \in Places(d) /\ Left(d, NextAt(d, at)) < Left(d, at)
  <2> DEFINE x == First(WhiteFrom(d, path, done))
             q == Append(path, x)
  <2>0. WhiteFrom(d, path, done) \subseteq d.nodes
    BY DEF WhiteFrom, Successors, IsDraft
  <2>1. x \in WhiteFrom(d, path, done)
    BY <1>6, <2>0, FirstIs DEF IsDraft
  <2>2. NextAt(d, at) = <<q, done>>
    BY <1>6 DEF NextAt
  <2>9. x \in d.nodes
    BY <2>0, <2>1
  <2>3. q \in Seq(d.nodes) /\ ToSet(q) = ToSet(path) \cup {x} /\ Len(q) = Len(path) + 1
    <3>1. path \in Seq(d.nodes) /\ x \in d.nodes
      BY <1>1, <2>9
    <3> HIDE DEF x, path, q, done
    <3>2. /\ Append(path, x) \in Seq(d.nodes) /\ Len(Append(path, x)) = Len(path) + 1
          /\ ToSet(Append(path, x)) = ToSet(path) \cup {x}
      BY <3>1, AppendIs
    <3> QED  BY <3>2 DEF q
  <2> HIDE DEF x, q
  <2>5. /\ Colourless(d, <<q, done>>) = Colourless(d, at) \ {x}
        /\ x \in Colourless(d, at)
    BY <2>0, <2>1, <2>3 DEF Colourless, WhiteFrom
  <2>6. Cardinality(Colourless(d, <<q, done>>)) = c - 1
    BY <2>5, ColourlessFalls DEF c
  <2>7. Left(d, <<q, done>>) = 2 * (c - 1) + (Len(path) + 1)
    BY <2>3, <2>6 DEF Left
  <2>8. <<q, done>> \in Places(d)
    BY <1>1, <2>3 DEF Places
  <2>10. 2 * (c - 1) + (Len(path) + 1) < 2 * c + Len(path)
    <3> HIDE DEF path
    <3> QED  BY <1>2, <1>3
  <2> QED  BY <1>4, <2>2, <2>7, <2>8, <2>10
<1>7. ASSUME path # <<>>, WhiteFrom(d, path, done) = {}
      PROVE  NextAt(d, at) \in Places(d) /\ Left(d, NextAt(d, at)) < Left(d, at)
  <2> DEFINE x == Last(path)
             q == Front(path)
             more == done \cup {x}
  <2>1. q \in Seq(d.nodes) /\ ToSet(path) = ToSet(q) \cup {x} /\ Len(q) = Len(path) - 1 /\ x \in d.nodes
    BY <1>1, <1>7, SetsOfPaths
  <2>2. NextAt(d, at) = <<q, more>>
    BY <1>7 DEF NextAt
  <2> HIDE DEF x, q
  <2>3. Colourless(d, <<q, more>>) = Colourless(d, at)
    BY <2>1 DEF Colourless
  <2>4. Left(d, <<q, more>>) = 2 * c + (Len(path) - 1)
    BY <2>1, <2>3 DEF Left, c
  <2>5. <<q, more>> \in Places(d)
    BY <1>1, <2>1 DEF Places
  <2>6. 2 * c + (Len(path) - 1) < 2 * c + Len(path)
    <3> HIDE DEF path
    <3> QED  BY <1>2, <1>3
  <2> QED  BY <1>4, <2>2, <2>4, <2>5, <2>6
<1>8. Left(d, at) \in Nat
  <2>1. 2 * c + Len(path) \in Nat
    <3> HIDE DEF path
    <3> QED  BY <1>2, <1>3
  <2> QED  BY <1>4, <2>1
<1>9. ASSUME ~ Ended(d, at)
      PROVE  NextAt(d, at) \in Places(d) /\ Left(d, NextAt(d, at)) < Left(d, at)
  <2>1. path = <<>> => d.nodes # done
    BY <1>9 DEF Ended
  <2> HIDE DEF path, done
  <2> QED  BY <1>5, <1>6, <1>7, <2>1
<1> QED  BY <1>8, <1>9

\* What the search finds, and what it finds from each place on.
IsSearch(d, f) ==
    /\ \A at \in Places(d) :
         f[at] = IF Ended(d, at) THEN {} ELSE ClosedAt(d, at) \cup f[NextAt(d, at)]
    /\ FindCycles(d) = f[<< <<>>, {} >>]

LEMMA SearchIsDefined ==
    ASSUME NEW d, IsDraft(d)
    PROVE  \E f : IsSearch(d, f)
<1> DEFINE S == Places(d)
           V == SUBSET UNION {ClosedAt(d, at) : at \in S}
           Stop == {at \in S : Ended(d, at)}
           m == [at \in S |-> Left(d, at)]
           base == [at \in S |-> {}]
           next == [at \in S |-> IF Ended(d, at) THEN at ELSE NextAt(d, at)]
           step == [av \in S \X V |-> ClosedAt(d, av[1]) \cup av[2]]
<1>1. IsRecursion(S, V, Stop, m, base, step, next)
  <2>1. V # {} /\ base \in [S -> V]
    OBVIOUS
  <2>2. m \in [S -> Nat] /\ next \in [S -> S]
    BY NextAtIs
  <2>3. step \in [S \X V -> V]
    <3>1. ASSUME NEW av \in S \X V  PROVE ClosedAt(d, av[1]) \cup av[2] \in V
      <4>1. av[1] \in S /\ av[2] \in V
        OBVIOUS
      <4>2. ClosedAt(d, av[1]) \in V
        BY <4>1
      <4> QED  BY <4>1, <4>2
    <3> QED  BY <3>1
  <2>4. \A at \in S \ Stop : m[next[at]] < m[at]
    <3> TAKE at \in S \ Stop
    <3>1. next[at] = NextAt(d, at) /\ next[at] \in S /\ Left(d, next[at]) < Left(d, at)
      BY NextAtIs
    <3> HIDE DEF next
    <3> QED  BY <3>1
  <2> QED  BY <2>1, <2>2, <2>3, <2>4 DEF IsRecursion
<1>2. PICK f \in [S -> V] : Obeys(f, S, Stop, base, step, next)
  <2> HIDE DEF S, V, Stop, m, base, step, next
  <2> QED  BY <1>1, RecursionIsDefined
<1>3. ASSUME NEW at \in S
      PROVE  f[at] = IF Ended(d, at) THEN {} ELSE ClosedAt(d, at) \cup f[NextAt(d, at)]
  <2>1. f[at] = IF at \in Stop THEN base[at] ELSE step[<<at, f[next[at]]>>]
    BY <1>2 DEF Obeys, ObeysAt
  <2>2. CASE Ended(d, at)
    BY <2>1, <2>2
  <2>3. CASE ~ Ended(d, at)
    <3>1. next[at] = NextAt(d, at) /\ next[at] \in S
      BY <2>3, NextAtIs
    <3>2. f[next[at]] \in V
      BY <3>1
    <3>3. step[<<at, f[next[at]]>>] = ClosedAt(d, at) \cup f[next[at]]
      BY <3>2
    <3> QED  BY <2>1, <2>3, <3>1, <3>3
  <2> QED  BY <2>2, <2>3
<1> HIDE DEF V, Stop, m, base, step, next
<1>4. ASSUME NEW g, \A at \in S : g[at] = IF Ended(d, at) THEN {} ELSE ClosedAt(d, at) \cup g[NextAt(d, at)],
             NEW at \in S
      PROVE  g[at] = Searched(d, g)[at]
  <2>1. at \in Seq(d.nodes) \X SUBSET d.nodes
    BY DEF Places
  <2>2. g[at] = IF Ended(d, at) THEN {} ELSE ClosedAt(d, at) \cup g[NextAt(d, at)]
    BY <1>4
  <2>3. CASE at[1] = <<>>
    BY <2>1, <2>2, <2>3 DEF Searched, Ended, ClosedAt, NextAt
  <2>4. CASE at[1] # <<>>
    BY <2>1, <2>2, <2>4 DEF Searched, Ended, ClosedAt, NextAt
  <2> QED  BY <2>3, <2>4
<1>5. f = Searched(d, f)
  <2>1. \A at \in S : f[at] = Searched(d, f)[at]
    BY <1>3, <1>4
  <2>2. DOMAIN Searched(d, f) = S /\ DOMAIN f = S /\ Searched(d, f) = [at \in S |-> Searched(d, f)[at]]
    BY DEF Searched, Places
  <2>3. f = [at \in S |-> f[at]]
    OBVIOUS
  <2> QED  BY <2>1, <2>2, <2>3
<1> DEFINE F == CHOOSE g : g = Searched(d, g)
<1>6. F = Searched(d, F)
  BY <1>5
<1>7. FindCycles(d) = F[<< <<>>, {} >>]
  BY DEF FindCycles, Searched, WhiteFrom
<1> HIDE DEF F
<1>8. ASSUME NEW at \in S
      PROVE  F[at] = IF Ended(d, at) THEN {} ELSE ClosedAt(d, at) \cup F[NextAt(d, at)]
  <2>1. at \in Seq(d.nodes) \X SUBSET d.nodes
    BY DEF Places
  <2>2. F[at] = Searched(d, F)[at]
    BY <1>6
  <2>3. CASE at[1] = <<>>
    BY <2>1, <2>2, <2>3 DEF Searched, Ended, ClosedAt, NextAt
  <2>4. CASE at[1] # <<>>
    BY <2>1, <2>2, <2>4 DEF Searched, Ended, ClosedAt, NextAt
  <2> QED  BY <2>3, <2>4
<1> QED  BY <1>7, <1>8 DEF IsSearch

-----------------------------------------------------------------------------
(* What the search closes is a cycle *)

LEMMA ModIs ==
    ASSUME NEW n \in Nat \ {0}, NEW x \in Nat, x < 2 * n
    PROVE  x % n = IF x < n THEN x ELSE x - n
<1>1. CASE x < n
  BY <1>1
<1>2. CASE ~ (x < n)
  <2>1. x - n \in 0 .. n - 1 /\ x = n * 1 + (x - n)
    BY <1>2
  <2> QED  BY <1>2, <2>1
<1> QED  BY <1>1, <1>2

\* The place after k on a ring of n, and the place of k when the ring is turned by z.
After(n, k) == (k % n) + 1
Turned(n, z, k) == ((z + k - 1) % n) + 1

LEMMA TurnsAre ==
    ASSUME NEW n \in Nat \ {0}, NEW z \in 0 .. n - 1, NEW k \in 1 .. n
    PROVE  /\ After(n, k) = IF k = n THEN 1 ELSE k + 1
           /\ Turned(n, z, k) = IF z + k <= n THEN z + k ELSE z + k - n
           /\ After(n, k) \in 1 .. n /\ Turned(n, z, k) \in 1 .. n
<1>1. k \in Nat /\ k < 2 * n /\ z + k - 1 \in Nat /\ z + k - 1 < 2 * n
  OBVIOUS
<1>2. k % n = (IF k < n THEN k ELSE k - n)
  BY <1>1, ModIs
<1>3. (z + k - 1) % n = (IF z + k - 1 < n THEN z + k - 1 ELSE z + k - 1 - n)
  <2> DEFINE x == z + k - 1
  <2>1. x \in Nat /\ x < 2 * n
    BY <1>1
  <2> HIDE DEF x
  <2>2. x % n = IF x < n THEN x ELSE x - n
    BY <2>1, ModIs
  <2> QED  BY <2>2 DEF x
<1>4. After(n, k) = IF k = n THEN 1 ELSE k + 1
  BY <1>2 DEF After
<1>5. Turned(n, z, k) = IF z + k <= n THEN z + k ELSE z + k - n
  BY <1>3 DEF Turned
<1> QED  BY <1>4, <1>5

LEMMA TurnsAgree ==
    ASSUME NEW n \in Nat \ {0}, NEW z \in 0 .. n - 1, NEW k \in 1 .. n
    PROVE  /\ Turned(n, z, After(n, k)) = After(n, Turned(n, z, k))
           /\ \A l \in 1 .. n : Turned(n, z, k) = Turned(n, z, l) => k = l
           /\ \E l \in 1 .. n : Turned(n, z, l) = k
<1>1. \A l \in 1 .. n :
        /\ After(n, l) = IF l = n THEN 1 ELSE l + 1
        /\ Turned(n, z, l) = IF z + l <= n THEN z + l ELSE z + l - n
        /\ After(n, l) \in 1 .. n /\ Turned(n, z, l) \in 1 .. n
  BY TurnsAre
<1>2. Turned(n, z, After(n, k)) = After(n, Turned(n, z, k))
  <2>1. CASE k = n
    BY <1>1, <2>1
  <2>2. CASE k # n /\ z + k < n
    BY <1>1, <2>2
  <2>3. CASE k # n /\ z + k = n
    BY <1>1, <2>3
  <2>4. CASE k # n /\ z + k > n
    BY <1>1, <2>4
  <2> QED  BY <2>1, <2>2, <2>3, <2>4
<1>3. \A l \in 1 .. n : Turned(n, z, k) = Turned(n, z, l) => k = l
  BY <1>1
<1>4. \E l \in 1 .. n : Turned(n, z, l) = k
  <2>1. CASE k > z
    <3>1. k - z \in 1 .. n /\ z + (k - z) <= n /\ z + (k - z) = k
      BY <2>1
    <3> QED  BY <1>1, <3>1
  <2>2. CASE k <= z
    <3>1. k - z + n \in 1 .. n /\ ~ (z + (k - z + n) <= n) /\ z + (k - z + n) - n = k
      BY <2>2
    <3> QED  BY <1>1, <3>1
  <2> QED  BY <2>1, <2>2
<1> QED  BY <1>2, <1>3, <1>4

Injects(p) == \A i, j \in 1 .. Len(p) : p[i] = p[j] => i = j

IsPath(d, p) ==
    /\ p \in Seq(d.nodes) /\ Injects(p)
    /\ \A i \in 1 .. Len(p) - 1 : p[i + 1] \in Successors(d, p[i])

IsRing(d, c) ==
    /\ c \in Seq(d.nodes) /\ Len(c) # 0 /\ Injects(c)
    /\ \A k \in 1 .. Len(c) : c[After(Len(c), k)] \in Successors(d, c[k])

LEMMA NormaliseKeeps ==
    ASSUME NEW d, IsDraft(d), NEW c, IsRing(d, c)
    PROVE  IsRing(d, Normalise(c)) /\ ToSet(Normalise(c)) = ToSet(c)
<1> DEFINE n == Len(c)
           pivot == CHOOSE i \in DOMAIN c : \A j \in DOMAIN c : c[i] <= c[j]
           z == pivot - 1
           t == Normalise(c)
<1>1. /\ c \in Seq(d.nodes) /\ n \in Nat \ {0} /\ DOMAIN c = 1 .. n /\ Injects(c)
      /\ \A k \in 1 .. n : c[k] \in d.nodes /\ c[k] \in Nat
      /\ \A k \in 1 .. n : c[After(n, k)] \in Successors(d, c[k])
  BY DEF IsRing, IsDraft
<1>2. pivot \in 1 .. n
  <2> DEFINE values == {c[i] : i \in 1 .. n}
  <2>1. values \subseteq Nat /\ values # {}
    <3>1. 1 \in 1 .. n
      BY <1>1
    <3> QED  BY <1>1, <3>1
  <2>2. PICK v \in values : \A w \in values : v <= w
    <3> HIDE DEF values
    <3> QED  BY <2>1, FirstOf
  <2>3. PICK i \in 1 .. n : v = c[i]
    BY <2>2
  <2>4. \A j \in 1 .. n : c[i] <= c[j]
    BY <2>2, <2>3
  <2>5. \E k \in DOMAIN c : \A j \in DOMAIN c : c[k] <= c[j]
    BY <1>1, <2>3, <2>4
  <2> QED  BY <1>1, <2>5
<1> HIDE DEF pivot
<1>3. z \in 0 .. n - 1
  BY <1>1, <1>2
<1>4. t = [k \in 1 .. n |-> c[((pivot + k - 2) % n) + 1]]
  BY <1>1 DEF Normalise, pivot
<1>5. ASSUME NEW k \in 1 .. n  PROVE t[k] = c[Turned(n, z, k)] /\ Turned(n, z, k) \in 1 .. n
  <2>1. pivot + k - 2 = z + k - 1
    BY <1>2
  <2>2. Turned(n, z, k) = ((pivot + k - 2) % n) + 1
    BY <2>1 DEF Turned
  <2>3. Turned(n, z, k) \in 1 .. n
    <3> HIDE DEF n, z
    <3> QED  BY <1>1, <1>3, TurnsAre
  <2> QED  BY <1>4, <2>2, <2>3
<1>6. t \in Seq(d.nodes) /\ Len(t) = n /\ DOMAIN t = 1 .. n
  <2>1. t \in [1 .. n -> d.nodes]
    BY <1>1, <1>4, <1>5
  <2> HIDE DEF t
  <2> QED  BY <1>1, <2>1
<1> HIDE DEF n, z, t
<1>7. ASSUME NEW i \in 1 .. n, NEW j \in 1 .. n, t[i] = t[j]  PROVE i = j
  <2>1. c[Turned(n, z, i)] = c[Turned(n, z, j)]
    BY <1>5, <1>7
  <2>2. Turned(n, z, i) = Turned(n, z, j)
    BY <1>1, <1>5, <2>1 DEF Injects, n
  <2> QED  BY <1>1, <1>3, <2>2, TurnsAgree
<1>8. ASSUME NEW k \in 1 .. n  PROVE t[After(n, k)] \in Successors(d, t[k])
  <2>1. After(n, k) \in 1 .. n
    BY <1>1, <1>3, TurnsAre
  <2>2. t[After(n, k)] = c[Turned(n, z, After(n, k))]
    BY <1>5, <2>1
  <2>3. Turned(n, z, After(n, k)) = After(n, Turned(n, z, k))
    BY <1>1, <1>3, TurnsAgree
  <2> QED  BY <1>1, <1>5, <2>2, <2>3
<1>9. IsRing(d, t)
  BY <1>1, <1>6, <1>7, <1>8 DEF IsRing, Injects
<1>10. ToSet(t) \subseteq ToSet(c)
  BY <1>1, <1>5, <1>6 DEF ToSet
<1>11. ToSet(c) \subseteq ToSet(t)
  <2> SUFFICES ASSUME NEW k \in 1 .. n  PROVE c[k] \in ToSet(t)
    BY <1>1 DEF ToSet
  <2>1. PICK l \in 1 .. n : Turned(n, z, l) = k
    BY <1>1, <1>3, TurnsAgree
  <2> QED  BY <1>5, <1>6, <2>1 DEF ToSet
<1> QED  BY <1>9, <1>10, <1>11 DEF t

\* The stretch of a path from a successor of its end is a ring.
LEMMA StretchIsRing ==
    ASSUME NEW d, IsDraft(d), NEW p, IsPath(d, p), p # <<>>,
           NEW i \in 1 .. Len(p), p[i] \in Successors(d, Last(p))
    PROVE  LET c == SubSeq(p, i, Len(p))
           IN  IsRing(d, c) /\ ToSet(c) = {p[j] : j \in i .. Len(p)}
<1> DEFINE c == SubSeq(p, i, Len(p))
           n == Len(p) - i + 1
<1>1. /\ p \in Seq(d.nodes) /\ Injects(p) /\ Len(p) \in Nat
      /\ \A j \in 1 .. Len(p) - 1 : p[j + 1] \in Successors(d, p[j])
  BY DEF IsPath
<1>2. c \in Seq(d.nodes) /\ Len(c) = n /\ \A k \in 1 .. n : c[k] = p[i + k - 1]
  <2>1. Len(p) \in 1 .. Len(p) /\ i <= Len(p)
    BY <1>1
  <2>2. c \in Seq(d.nodes) /\ Len(c) = n /\ \A k \in 1 .. Len(c) : c[k] = p[i + k - 1]
    BY <1>1, <2>1, CutIs
  <2> QED  BY <2>2
<1>3. n \in Nat \ {0} /\ \A k \in 1 .. n : i + k - 1 \in 1 .. Len(p)
  BY <1>1
<1> HIDE DEF c
<1>4. ASSUME NEW k \in 1 .. n  PROVE c[After(n, k)] \in Successors(d, c[k])
  <2> HIDE DEF n
  <2>1. After(n, k) = (IF k = n THEN 1 ELSE k + 1) /\ After(n, k) \in 1 .. n
    <3>1. 0 \in 0 .. n - 1
      BY <1>3
    <3> QED  BY <1>3, <3>1, TurnsAre
  <2>2. CASE k = n
    <3>1. i + k - 1 = Len(p) /\ i + 1 - 1 = i
      BY <1>1, <2>2 DEF n
    <3>2. c[k] = p[Len(p)] /\ c[After(n, k)] = p[i]
      BY <1>2, <2>1, <2>2, <3>1
    <3> QED  BY <3>2 DEF Last
  <2>3. CASE k # n
    <3>1. (i + k - 1) + 1 = i + (k + 1) - 1 /\ i + k - 1 \in 1 .. Len(p) - 1
      BY <1>1, <2>3 DEF n
    <3>2. c[k] = p[i + k - 1] /\ c[After(n, k)] = p[(i + k - 1) + 1]
      BY <1>2, <2>1, <2>3, <3>1
    <3> QED  BY <1>1, <3>1, <3>2
  <2> QED  BY <2>2, <2>3
<1>5. ASSUME NEW k \in 1 .. n, NEW l \in 1 .. n, c[k] = c[l]  PROVE k = l
  <2>1. i + k - 1 = i + l - 1
    BY <1>1, <1>2, <1>3, <1>5 DEF Injects
  <2> QED  BY <2>1
<1>6. IsRing(d, c)
  <2> HIDE DEF n
  <2> QED  BY <1>2, <1>3, <1>4, <1>5 DEF IsRing, Injects
<1>7. ToSet(c) = {p[j] : j \in i .. Len(p)}
  <2>0. DOMAIN c = 1 .. n
    BY <1>2
  <2>1. \A k \in 1 .. n : i + k - 1 \in i .. Len(p)
    BY <1>1
  <2>2. \A j \in i .. Len(p) : j - i + 1 \in 1 .. n /\ i + (j - i + 1) - 1 = j
    BY <1>1
  <2> HIDE DEF n
  <2>3. ToSet(c) \subseteq {p[j] : j \in i .. Len(p)}
    BY <1>2, <2>0, <2>1 DEF ToSet
  <2>4. ASSUME NEW j \in i .. Len(p)  PROVE p[j] \in ToSet(c)
    <3>1. c[j - i + 1] = p[j]
      BY <1>2, <2>2
    <3> QED  BY <2>0, <2>2, <3>1 DEF ToSet
  <2> QED  BY <2>3, <2>4
<1> QED  BY <1>6, <1>7 DEF c

LEMMA StretchCloses ==
    ASSUME NEW d, IsDraft(d), NEW p, IsPath(d, p), p # <<>>,
           NEW i \in 1 .. Len(p), p[i] \in Successors(d, Last(p))
    PROVE  LET c == Normalise(SubSeq(p, i, Len(p)))
           IN  c \in Closed(d, p) /\ IsRing(d, c) /\ ToSet(c) = {p[j] : j \in i .. Len(p)}
<1>1. IsRing(d, SubSeq(p, i, Len(p))) /\ ToSet(SubSeq(p, i, Len(p))) = {p[j] : j \in i .. Len(p)}
  BY StretchIsRing
<1>2. DOMAIN p = 1 .. Len(p)
  BY DEF IsPath
<1>3. Normalise(SubSeq(p, i, Len(p))) \in Closed(d, p)
  BY <1>2 DEF Closed
<1> QED  BY <1>1, <1>3, NormaliseKeeps

LEMMA ClosedAreRings ==
    ASSUME NEW d, IsDraft(d), NEW p, IsPath(d, p), p # <<>>, NEW c \in Closed(d, p)
    PROVE  IsRing(d, c)
<1>1. DOMAIN p = 1 .. Len(p)
  BY DEF IsPath
<1>2. PICK i \in 1 .. Len(p) : p[i] \in Successors(d, Last(p)) /\ c = Normalise(SubSeq(p, i, Len(p)))
  BY <1>1 DEF Closed
<1> QED  BY <1>2, StretchCloses

-----------------------------------------------------------------------------
(* What the search leaves black has no cycle: black nodes can be ranked *)

LEMMA OneIsPath ==
    ASSUME NEW N, NEW x \in N
    PROVE  <<x>> \in Seq(N) /\ Len(<<x>>) = 1
OBVIOUS

LEMMA NoneIsPath ==
    ASSUME NEW d
    PROVE  IsPath(d, <<>>)
<1> DEFINE e == <<>>
<1>1. e \in Seq(d.nodes) /\ Len(e) = 0
  OBVIOUS
<1> HIDE DEF e
<1>2. IsPath(d, e)
  BY <1>1 DEF IsPath, Injects
<1> QED  BY <1>2 DEF e

LEMMA NextIsPath ==
    ASSUME NEW d, IsDraft(d), NEW at \in Places(d), IsPath(d, at[1]), ~ Ended(d, at)
    PROVE  IsPath(d, NextAt(d, at)[1])
<1> DEFINE p == at[1]
           done == at[2]
<1>1. /\ p \in Seq(d.nodes) /\ Injects(p) /\ Len(p) \in Nat /\ done \in SUBSET d.nodes
      /\ \A i \in 1 .. Len(p) - 1 : p[i + 1] \in Successors(d, p[i])
  <2>1. done \in SUBSET d.nodes /\ IsPath(d, p)
    BY DEF Places
  <2> HIDE DEF p, done
  <2>2. /\ p \in Seq(d.nodes) /\ Injects(p)
        /\ \A i \in 1 .. Len(p) - 1 : p[i + 1] \in Successors(d, p[i])
    BY <2>1 DEF IsPath
  <2>3. Len(p) \in Nat
    BY <2>2
  <2> QED  BY <2>1, <2>2, <2>3
<1>2. ASSUME p = <<>>  PROVE IsPath(d, NextAt(d, at)[1])
  <2> DEFINE x == First(d.nodes \ done)
             q == <<x>>
  <2>1. x \in d.nodes
    <3>1. d.nodes \ done # {} /\ d.nodes \ done \subseteq Nat
      BY <1>1, <1>2 DEF IsDraft, Ended
    <3> QED  BY <3>1, FirstIs
  <2>2. NextAt(d, at)[1] = q
    BY <1>2 DEF NextAt
  <2> HIDE DEF x
  <2>3. q \in Seq(d.nodes) /\ Len(q) = 1
    BY <2>1, OneIsPath
  <2> HIDE DEF q
  <2>4. IsPath(d, q)
    BY <2>3 DEF IsPath, Injects
  <2> QED  BY <2>2, <2>4
<1>3. ASSUME p # <<>>, WhiteFrom(d, p, done) # {}  PROVE IsPath(d, NextAt(d, at)[1])
  <2> DEFINE x == First(WhiteFrom(d, p, done))
             q == Append(p, x)
  <2>1. WhiteFrom(d, p, done) \subseteq d.nodes
    BY DEF WhiteFrom, Successors, IsDraft
  <2>2. x \in WhiteFrom(d, p, done)
    BY <1>3, <2>1, FirstIs DEF IsDraft
  <2>3. NextAt(d, at)[1] = q
    BY <1>3 DEF NextAt
  <2> HIDE DEF x
  <2>4. x \in d.nodes /\ x \in Successors(d, Last(p)) /\ x \notin ToSet(p)
    BY <2>1, <2>2 DEF WhiteFrom
  <2>5. /\ q \in Seq(d.nodes) /\ Len(q) = Len(p) + 1 /\ Last(q) = x
        /\ \A i \in 1 .. Len(p) : q[i] = p[i]
    <3> HIDE DEF p
    <3> QED  BY <1>1, <2>4, AppendIs
  <2>6. Len(p) # 0 /\ Last(p) = p[Len(p)] /\ q[Len(q)] = x
    BY <1>1, <1>3, <2>5 DEF Last
  <2>7. \A i \in 1 .. Len(p) : p[i] # x
    BY <1>1, <2>4 DEF ToSet
  <2> HIDE DEF q, p
  <2>8. \A i \in 1 .. Len(q) : i \in 1 .. Len(p) \/ i = Len(q)
    BY <1>1, <2>5
  <2>9. Injects(q)
    <3> SUFFICES ASSUME NEW i \in 1 .. Len(q), NEW j \in 1 .. Len(q), q[i] = q[j]  PROVE i = j
      BY DEF Injects
    <3>1. CASE i = Len(q) \/ j = Len(q)
      BY <2>5, <2>6, <2>7, <2>8, <3>1
    <3>2. CASE i \in 1 .. Len(p) /\ j \in 1 .. Len(p)
      BY <1>1, <2>5, <3>2 DEF Injects
    <3> QED  BY <2>8, <3>1, <3>2
  <2>10. \A i \in 1 .. Len(q) - 1 : q[i + 1] \in Successors(d, q[i])
    <3> TAKE i \in 1 .. Len(q) - 1
    <3>1. i \in 1 .. Len(p)
      BY <1>1, <2>5
    <3>2. CASE i = Len(p)
      BY <2>4, <2>5, <2>6, <3>1, <3>2
    <3>3. CASE i # Len(p)
      <4>1. i \in 1 .. Len(p) - 1 /\ i + 1 \in 1 .. Len(p)
        BY <1>1, <3>1, <3>3
      <4> QED  BY <1>1, <2>5, <3>1, <4>1
    <3> QED  BY <3>2, <3>3
  <2> QED  BY <2>3, <2>5, <2>9, <2>10 DEF IsPath
<1>4. ASSUME p # <<>>, WhiteFrom(d, p, done) = {}  PROVE IsPath(d, NextAt(d, at)[1])
  <2> DEFINE q == Front(p)
  <2>1. NextAt(d, at)[1] = q
    BY <1>4 DEF NextAt
  <2> HIDE DEF q, p
  <2>2. /\ q \in Seq(d.nodes) /\ Len(q) = Len(p) - 1 /\ Len(p) \in 1 .. Len(p)
        /\ \A i \in 1 .. Len(p) - 1 : q[i] = p[i]
    BY <1>1, <1>4, SetsOfPaths DEF q
  <2>3. \A i \in 1 .. Len(q) : i \in 1 .. Len(p) /\ i \in 1 .. Len(p) - 1
    BY <1>1, <2>2
  <2>4. Injects(q)
    <3> SUFFICES ASSUME NEW i \in 1 .. Len(q), NEW j \in 1 .. Len(q), q[i] = q[j]  PROVE i = j
      BY DEF Injects
    <3> QED  BY <1>1, <2>2, <2>3 DEF Injects
  <2>5. \A i \in 1 .. Len(q) - 1 : q[i + 1] \in Successors(d, q[i])
    <3> TAKE i \in 1 .. Len(q) - 1
    <3>1. i \in 1 .. Len(p) - 1 /\ i + 1 \in 1 .. Len(p) - 1
      BY <1>1, <2>2
    <3> QED  BY <1>1, <2>2, <3>1
  <2> QED  BY <2>1, <2>2, <2>4, <2>5 DEF IsPath
<1> QED  BY <1>2, <1>3, <1>4

\* Every place that is not the last has a next one with less left to do, so a set of
\* places that holds the next of each of its places ends.
LEMMA SearchEnds ==
    ASSUME NEW d, IsDraft(d), NEW W, W \subseteq Places(d), W # {},
           \A at \in W : ~ Ended(d, at) => NextAt(d, at) \in W
    PROVE  \E at \in W : Ended(d, at)
<1> DEFINE left == {Left(d, at) : at \in W}
<1>1. left \subseteq Nat /\ left # {}
  BY NextAtIs
<1>2. PICK k \in left : \A l \in left : k <= l
  <2> HIDE DEF left
  <2> QED  BY <1>1, FirstOf
<1>3. PICK at \in W : k = Left(d, at)
  BY <1>2
<1>4. ASSUME ~ Ended(d, at)  PROVE FALSE
  <2>1. NextAt(d, at) \in W /\ Left(d, NextAt(d, at)) < k
    BY <1>3, <1>4, NextAtIs
  <2>2. k <= Left(d, NextAt(d, at)) /\ k \in Nat /\ Left(d, NextAt(d, at)) \in Nat
    BY <1>1, <1>2, <2>1
  <2> QED  BY <2>1, <2>2
<1> QED  BY <1>4

LEMMA FoundAreRings ==
    ASSUME NEW d, IsDraft(d), NEW c \in FindCycles(d)
    PROVE  IsRing(d, c)
<1>1. PICK f : IsSearch(d, f)
  BY SearchIsDefined
<1> DEFINE W == {at \in Places(d) : IsPath(d, at[1]) /\ c \in f[at]}
<1>2. SUFFICES ASSUME ~ IsRing(d, c)  PROVE FALSE
  OBVIOUS
<1>3. << <<>>, {} >> \in W
  <2>1. << <<>>, {} >> \in Places(d) /\ IsPath(d, <<>>)
    BY NoneIsPath DEF Places, IsPath
  <2> QED  BY <1>1, <2>1 DEF IsSearch
<1>4. ASSUME NEW at \in W  PROVE ~ Ended(d, at) /\ NextAt(d, at) \in W
  <2>1. c \in (IF Ended(d, at) THEN {} ELSE ClosedAt(d, at) \cup f[NextAt(d, at)])
    BY <1>1 DEF IsSearch
  <2>2. ~ Ended(d, at)
    BY <2>1
  <2>3. c \notin ClosedAt(d, at)
    BY <1>2, ClosedAreRings DEF ClosedAt
  <2>4. IsPath(d, NextAt(d, at)[1]) /\ NextAt(d, at) \in Places(d)
    BY <2>2, NextAtIs, NextIsPath
  <2> QED  BY <2>1, <2>2, <2>3, <2>4
<1> HIDE DEF W
<1>5. W \subseteq Places(d)
  BY DEF W
<1> QED  BY <1>3, <1>4, <1>5, SearchEnds

\* The nodes of D have places from the end of all, in an order that the edges within C
\* agree with, and within C no edge leaves D.
IsRanking(d, C, D, r, rest) ==
    /\ r \in [D -> d.nodes] /\ rest \in SUBSET d.nodes
    /\ Cardinality(rest) = Cardinality(d.nodes \ D)
    /\ \A v \in rest, n \in D : v < r[n]
    /\ \A e \in d.edges : e.source \in D \cap C /\ e.target \in C =>
         e.target \in D /\ r[e.source] < r[e.target]

IsRanked(d, C, D) == \E r, rest : IsRanking(d, C, D, r, rest)

LEMMA NothingIsRanked ==
    ASSUME NEW d, NEW C
    PROVE  IsRanked(d, C, {})
<1> DEFINE r == [n \in {} |-> 0]
<1>1. IsRanking(d, C, {}, r, d.nodes)
  BY DEF IsRanking
<1> QED  BY <1>1 DEF IsRanked

LEMMA LastOf ==
    ASSUME NEW T, T \subseteq Nat, IsFiniteSet(T), T # {}
    PROVE  \E v \in T : \A w \in T : w <= v
<1> DEFINE above(v) == {w \in T : w > v}
           counts == {Cardinality(above(v)) : v \in T}
<1>1. ASSUME NEW v \in T  PROVE IsFiniteSet(above(v)) /\ Cardinality(above(v)) \in Nat
  <2>1. IsFiniteSet(above(v))
    BY FS_Subset
  <2> QED  BY <2>1, FS_CardinalityType
<1>2. counts \subseteq Nat /\ counts # {}
  BY <1>1
<1>3. PICK k \in counts : \A l \in counts : k <= l
  <2> HIDE DEF counts
  <2> QED  BY <1>2, FirstOf
<1>4. PICK v \in T : k = Cardinality(above(v))
  BY <1>3
<1>5. ASSUME NEW w \in T, w > v  PROVE FALSE
  <2>1. above(w) \in SUBSET above(v) /\ w \in above(v) /\ w \notin above(w)
    <3>1. \A u \in T : u \in Nat
      OBVIOUS
    <3>2. ASSUME NEW u \in T, u > w  PROVE u > v
      BY <1>5, <3>1, <3>2
    <3>3. ~ (w > w)
      BY <3>1
    <3> QED  BY <1>5, <3>2, <3>3
  <2>2. k <= Cardinality(above(w))
    BY <1>3
  <2> HIDE DEF above
  <2>3. Cardinality(above(w)) <= k /\ Cardinality(above(w)) # k
    BY <1>1, <1>4, <2>1, FS_Subset
  <2> QED  BY <1>1, <1>2, <1>3, <2>2, <2>3
<1>6. \A w \in T : w <= v
  <2>1. \A u \in T : u \in Nat
    OBVIOUS
  <2> QED  BY <1>5, <2>1
<1> QED  BY <1>6

LEMMA OneMoreIsRanked ==
    ASSUME NEW d, IsDraft(d), NEW C, NEW D \in SUBSET d.nodes, IsRanked(d, C, D),
           NEW x \in d.nodes, x \in C => \A e \in d.edges : e.source = x /\ e.target \in C => e.target \in D
    PROVE  IsRanked(d, C, D \cup {x})
<1>0. CASE x \in D
  <2>1. D \cup {x} = D
    BY <1>0
  <2> QED  BY <2>1
<1>1. CASE x \notin D
  <2>1. PICK r, rest : IsRanking(d, C, D, r, rest)
    BY DEF IsRanked
  <2>2. /\ r \in [D -> d.nodes] /\ rest \in SUBSET d.nodes
        /\ Cardinality(rest) = Cardinality(d.nodes \ D)
        /\ \A v \in rest, n \in D : v < r[n]
        /\ \A e \in d.edges : e.source \in D \cap C /\ e.target \in C =>
             e.target \in D /\ r[e.source] < r[e.target]
    BY <2>1 DEF IsRanking
  <2>3. IsFiniteSet(rest) /\ IsFiniteSet(d.nodes \ D) /\ rest \subseteq Nat /\ d.nodes \subseteq Nat
    BY <2>2, FS_Subset DEF IsDraft
  <2>4. rest # {}
    <3>1. Cardinality(d.nodes \ D) # 0
      <4>1. d.nodes \ D # {}
        BY <1>1
      <4> QED  BY <2>3, <4>1, FS_EmptySet
    <3> QED  BY <2>2, <3>1, FS_EmptySet
  <2>5. PICK v \in rest : \A w \in rest : w <= v
    BY <2>3, <2>4, LastOf
  <2> DEFINE DD == D \cup {x}
             rr == [n \in DD |-> IF n = x THEN v ELSE r[n]]
             less == rest \ {v}
  <2>6. rr \in [DD -> d.nodes] /\ less \in SUBSET d.nodes
    BY <2>2
  <2>7. Cardinality(less) = Cardinality(d.nodes \ DD)
    <3>1. d.nodes \ DD = (d.nodes \ D) \ {x} /\ x \in d.nodes \ D
      BY <1>1
    <3>2. Cardinality((d.nodes \ D) \ {x}) = Cardinality(d.nodes \ D) - 1
      BY <2>3, <3>1, FS_RemoveElement
    <3>3. Cardinality(less) = Cardinality(rest) - 1
      BY <2>3, FS_RemoveElement
    <3> QED  BY <2>2, <3>1, <3>2, <3>3
  <2>8. \A w \in less, n \in DD : w < rr[n]
    <3> TAKE w \in less, n \in DD
    <3>1. CASE n = x
      <4>1. w <= v /\ w # v /\ w \in Nat /\ v \in Nat
        BY <2>3, <2>5
      <4> QED  BY <3>1, <4>1
    <3>2. CASE n # x
      BY <2>2, <3>2
    <3> QED  BY <3>1, <3>2
  <2>9. ASSUME NEW e \in d.edges, e.source \in DD \cap C, e.target \in C
        PROVE  e.target \in DD /\ rr[e.source] < rr[e.target]
    <3>1. CASE e.source = x
      <4>1. e.target \in D /\ e.target # x
        BY <1>1, <2>9, <3>1
      <4>2. v < r[e.target] /\ rr[e.source] = v /\ rr[e.target] = r[e.target]
        BY <2>2, <3>1, <4>1
      <4> QED  BY <4>1, <4>2
    <3>2. CASE e.source # x
      <4>1. e.source \in D \cap C
        BY <2>9, <3>2
      <4>2. e.target \in D /\ r[e.source] < r[e.target]
        BY <2>2, <2>9, <4>1
      <4>3. e.target # x
        BY <1>1, <4>2
      <4> QED  BY <3>2, <4>1, <4>2, <4>3
    <3> QED  BY <3>1, <3>2
  <2>10. IsRanking(d, C, DD, rr, less)
    <3> HIDE DEF DD, rr, less
    <3> QED  BY <2>6, <2>7, <2>8, <2>9 DEF IsRanking
  <2> QED  BY <2>10 DEF IsRanked
<1> QED  BY <1>0, <1>1

\* A set of nodes that holds, with two nodes of a path, all those between them.
IsConvex(d, C) ==
    \A p : IsPath(d, p) =>
      \A i, k \in 1 .. Len(p) : p[i] \in C /\ p[k] \in C => \A j \in i .. k : p[j] \in C

\* Within C, no edge out of the end of the path is left to follow where no white
\* successor is left and no cycle within C is found.
LEMMA PoppedIsLast ==
    ASSUME NEW d, IsDraft(d), NEW C, IsConvex(d, C), NEW p, IsPath(d, p), p # <<>>,
           NEW done, WhiteFrom(d, p, done) = {},
           \A c \in Closed(d, p) : ~ (ToSet(c) \subseteq C),
           Last(p) \in C, NEW e \in d.edges, e.source = Last(p), e.target \in C
    PROVE  e.target \in done
<1>1. e.target \in Successors(d, Last(p))
  BY DEF Successors
<1>2. SUFFICES ASSUME e.target \in ToSet(p)  PROVE FALSE
  BY <1>1 DEF WhiteFrom
<1>3. p \in Seq(d.nodes) /\ DOMAIN p = 1 .. Len(p) /\ Len(p) \in 1 .. Len(p) /\ Last(p) = p[Len(p)]
  BY SetsOfPaths DEF IsPath
<1>4. PICK i \in 1 .. Len(p) : p[i] = e.target
  BY <1>2, <1>3 DEF ToSet
<1>5. PICK c \in Closed(d, p) : ToSet(c) = {p[j] : j \in i .. Len(p)}
  <2>1. p[i] \in Successors(d, Last(p))
    BY <1>1, <1>4
  <2>2. /\ Normalise(SubSeq(p, i, Len(p))) \in Closed(d, p)
        /\ ToSet(Normalise(SubSeq(p, i, Len(p)))) = {p[j] : j \in i .. Len(p)}
    BY <2>1, StretchCloses
  <2> QED  BY <2>2
<1>6. \A j \in i .. Len(p) : p[j] \in C
  BY <1>3, <1>4 DEF IsConvex
<1> QED  BY <1>5, <1>6

LEMMA SearchRanks ==
    ASSUME NEW d, IsDraft(d), NEW C, IsConvex(d, C),
           \A c \in FindCycles(d) : ~ (ToSet(c) \subseteq C)
    PROVE  IsRanked(d, C, d.nodes)
<1>1. PICK f : IsSearch(d, f)
  BY SearchIsDefined
<1> DEFINE W == {at \in Places(d) :
                   /\ IsPath(d, at[1]) /\ IsRanked(d, C, at[2])
                   /\ \A c \in f[at] : ~ (ToSet(c) \subseteq C)}
<1>2. << <<>>, {} >> \in W
  <2>1. << <<>>, {} >> \in Places(d) /\ IsPath(d, <<>>)
    BY NoneIsPath DEF Places, IsPath
  <2>2. \A c \in f[<< <<>>, {} >>] : ~ (ToSet(c) \subseteq C)
    BY <1>1 DEF IsSearch
  <2> QED  BY <2>1, <2>2, NothingIsRanked
<1>3. ASSUME NEW at \in W, ~ Ended(d, at)  PROVE NextAt(d, at) \in W
  <2> DEFINE p == at[1]
             done == at[2]
             next == NextAt(d, at)
  <2>1. at \in Places(d) /\ IsPath(d, p) /\ IsRanked(d, C, done) /\ \A c \in f[at] : ~ (ToSet(c) \subseteq C)
    OBVIOUS
  <2>2. f[at] = ClosedAt(d, at) \cup f[next]
    BY <1>1, <1>3, <2>1 DEF IsSearch
  <2>3. \A c \in f[next] : ~ (ToSet(c) \subseteq C)
    BY <2>1, <2>2
  <2>4. next \in Places(d) /\ IsPath(d, next[1])
    BY <1>3, <2>1, NextAtIs, NextIsPath
  <2>5. IsRanked(d, C, next[2])
    <3>1. CASE p = <<>> \/ WhiteFrom(d, p, done) # {}
      <4>1. next[2] = done
        BY <3>1 DEF NextAt
      <4> QED  BY <2>1, <4>1
    <3>2. CASE p # <<>> /\ WhiteFrom(d, p, done) = {}
      <4>1. next[2] = done \cup {Last(p)}
        BY <3>2 DEF NextAt
      <4>2. \A c \in Closed(d, p) : ~ (ToSet(c) \subseteq C)
        BY <2>1, <2>2, <3>2 DEF ClosedAt
      <4>3. p \in Seq(d.nodes) /\ done \in SUBSET d.nodes
        BY <2>1 DEF Places, IsPath
      <4> HIDE DEF p, done, next, W
      <4>4. Last(p) \in C => \A e \in d.edges : e.source = Last(p) /\ e.target \in C => e.target \in done
        BY <2>1, <3>2, <4>2, PoppedIsLast
      <4>5. Last(p) \in d.nodes
        BY <3>2, <4>3, SetsOfPaths
      <4>6. IsRanked(d, C, done \cup {Last(p)})
        BY <2>1, <4>3, <4>4, <4>5, OneMoreIsRanked
      <4> QED  BY <4>1, <4>6
    <3> QED  BY <3>1, <3>2
  <2> QED  BY <2>3, <2>4, <2>5
<1>4. PICK at \in W : Ended(d, at)
  <2>1. W \subseteq Places(d) /\ W # {}
    BY <1>2
  <2> HIDE DEF W
  <2> QED  BY <1>3, <2>1, SearchEnds
<1> QED  BY <1>4 DEF Ended

-----------------------------------------------------------------------------
(* The nodes before a node *)

\* What is closed under predecessors and holds n's holds all that come before n.
Gathers(d, n, S) == \A e \in d.edges : e.target = n \/ e.target \in S => e.source \in S

LEMMA BeforeGathers ==
    ASSUME NEW d, IsDraft(d), NEW n \in d.nodes
    PROVE  /\ Before(d, n) \subseteq d.nodes /\ Gathers(d, n, Before(d, n))
           /\ \A S \in SUBSET d.nodes : Gathers(d, n, S) => Before(d, n) \subseteq S
<1>1. Before(d, n) \subseteq d.nodes
  BY DEF Before
<1>2. \A S \in SUBSET d.nodes : Gathers(d, n, S) => Before(d, n) \subseteq S
  BY DEF Before, Gathers
<1>3. ASSUME NEW e \in d.edges, e.target = n \/ e.target \in Before(d, n)
      PROVE  e.source \in Before(d, n)
  <2>1. e.source \in d.nodes
    BY DEF IsDraft
  <2>2. ASSUME NEW S \in SUBSET d.nodes, Gathers(d, n, S)  PROVE e.source \in S
    BY <1>2, <1>3, <2>2 DEF Gathers
  <2> QED  BY <2>1, <2>2 DEF Before, Gathers
<1> QED  BY <1>1, <1>2, <1>3 DEF Gathers

LEMMA BeforeChains ==
    ASSUME NEW d, IsDraft(d), NEW n \in d.nodes, NEW m \in Before(d, n)
    PROVE  Before(d, m) \subseteq Before(d, n)
<1>1. m \in d.nodes
  BY BeforeGathers
<1>2. Gathers(d, m, Before(d, n))
  BY BeforeGathers DEF Gathers
<1> QED  BY <1>1, <1>2, BeforeGathers

LEMMA EarlierIsBefore ==
    ASSUME NEW d, IsDraft(d), NEW p, IsPath(d, p), NEW i \in 1 .. Len(p), NEW k \in 1 .. Len(p), i < k
    PROVE  p[i] \in Before(d, p[k])
<1>1. /\ p \in Seq(d.nodes) /\ Len(p) \in Nat /\ \A j \in 1 .. Len(p) : p[j] \in d.nodes
      /\ \A j \in 1 .. Len(p) - 1 : p[j + 1] \in Successors(d, p[j])
  <2>1. p \in Seq(d.nodes) /\ \A j \in 1 .. Len(p) - 1 : p[j + 1] \in Successors(d, p[j])
    BY DEF IsPath
  <2>2. Len(p) \in Nat /\ \A j \in 1 .. Len(p) : p[j] \in d.nodes
    BY <2>1
  <2> QED  BY <2>1, <2>2
<1> DEFINE T == {j \in Nat : 1 <= j /\ j < k /\ p[k - j] \notin Before(d, p[k])}
<1>2. ASSUME T # {}  PROVE FALSE
  <2>1. PICK j \in T : \A l \in T : j <= l
    BY <1>2, FirstOf
  <2>2. /\ j \in Nat /\ 1 <= j /\ j < k /\ p[k - j] \notin Before(d, p[k])
        /\ k - j \in 1 .. Len(p) - 1 /\ (k - j) + 1 \in 1 .. Len(p)
    BY <1>1, <2>1
  <2> DEFINE a == p[k - j]
             b == p[(k - j) + 1]
  <2>3. PICK e \in d.edges : e.source = a /\ e.target = b
    <3>1. b \in Successors(d, a)
      BY <1>1, <2>2
    <3> QED  BY <3>1 DEF Successors
  <2>4. b = p[k] \/ b \in Before(d, p[k])
    <3>1. CASE j = 1
      BY <2>2, <3>1
    <3>2. CASE j # 1
      <4>1. j - 1 \in Nat /\ 1 <= j - 1 /\ j - 1 < k /\ ~ (j <= j - 1) /\ k - (j - 1) = (k - j) + 1
        BY <2>2, <3>2
      <4>2. j - 1 \notin T
        BY <2>1, <4>1
      <4>3. p[k - (j - 1)] \in Before(d, p[k])
        BY <4>1, <4>2
      <4> QED  BY <4>1, <4>3
    <3> QED  BY <3>1, <3>2
  <2>5. a \in Before(d, p[k])
    BY <1>1, <2>3, <2>4, BeforeGathers DEF Gathers
  <2> QED  BY <2>2, <2>5
<1>3. k - i \in Nat /\ 1 <= k - i /\ k - i < k /\ k - (k - i) = i
  BY <1>1
<1>4. k - i \notin T
  BY <1>2
<1> HIDE DEF T
<1>5. p[k - (k - i)] \in Before(d, p[k])
  BY <1>3, <1>4 DEF T
<1> QED  BY <1>3, <1>5

\* The nodes that share their cycles with n.
Knot(d, n) == {m \in d.nodes : m \in Before(d, n) /\ n \in Before(d, m)}

LEMMA KnotIsConvex ==
    ASSUME NEW d, IsDraft(d), NEW n \in d.nodes
    PROVE  IsConvex(d, Knot(d, n))
<1> SUFFICES ASSUME NEW p, IsPath(d, p), NEW i \in 1 .. Len(p), NEW k \in 1 .. Len(p),
                    p[i] \in Knot(d, n), p[k] \in Knot(d, n), NEW j \in i .. k
             PROVE  p[j] \in Knot(d, n)
  BY DEF IsConvex
<1>1. Len(p) \in Nat /\ \A l \in 1 .. Len(p) : p[l] \in d.nodes
  BY DEF IsPath
<1>2. j \in 1 .. Len(p) /\ (j = i \/ i < j) /\ (j = k \/ j < k)
  BY <1>1
<1>3. CASE j = i \/ j = k
  BY <1>3
<1>4. CASE i < j /\ j < k
  <2>1. p[i] \in Before(d, p[j]) /\ p[j] \in Before(d, p[k])
    BY <1>2, <1>4, EarlierIsBefore
  <2>2. p[j] \in d.nodes /\ p[k] \in Before(d, n) /\ n \in Before(d, p[i])
    BY <1>1, <1>2 DEF Knot
  <2>3. p[j] \in Before(d, n)
    BY <2>1, <2>2, BeforeChains
  <2>4. n \in Before(d, p[j])
    BY <2>1, <2>2, BeforeChains
  <2> QED  BY <2>2, <2>3, <2>4 DEF Knot
<1> QED  BY <1>2, <1>3, <1>4

\* A ranking of the nodes that n shares its cycles with leaves none.
LEMMA RankedIsNoKnot ==
    ASSUME NEW d, IsDraft(d), NEW n \in d.nodes, IsRanked(d, Knot(d, n), d.nodes)
    PROVE  n \notin Before(d, n)
<1> SUFFICES ASSUME n \in Before(d, n)  PROVE FALSE
  OBVIOUS
<1> DEFINE C == Knot(d, n)
<1>1. PICK r \in [d.nodes -> d.nodes] :
        \A e \in d.edges : e.source \in C /\ e.target \in C => r[e.source] < r[e.target]
  BY DEF IsRanked, IsRanking, Knot
<1> DEFINE S == {m \in Before(d, n) : m \in C => r[m] < r[n]}
<1>2. n \in C
  BY DEF Knot
<1>3. ASSUME NEW e \in d.edges, e.target = n \/ e.target \in S  PROVE e.source \in S
  <2> DEFINE s == e.source
             t == e.target
  <2>1. s \in d.nodes /\ t \in d.nodes
    BY DEF IsDraft
  <2>2. s \in Before(d, n)
    BY <1>3, BeforeGathers DEF Gathers
  <2>3. ASSUME s \in C  PROVE r[s] < r[n]
    <3>1. t \in C
      <4>1. CASE t = n
        BY <1>2, <4>1
      <4>2. CASE t # n
        <5>1. t \in Before(d, n)
          BY <1>3, <4>2
        <5>2. s \in Before(d, t) /\ n \in Before(d, s)
          BY <2>1, <2>3, BeforeGathers DEF Gathers, Knot
        <5>3. n \in Before(d, t)
          BY <2>1, <5>2, BeforeChains
        <5> QED  BY <2>1, <5>1, <5>3 DEF Knot
      <4> QED  BY <4>1, <4>2
    <3>2. r[s] < r[t]
      BY <1>1, <2>3, <3>1
    <3>3. t = n \/ r[t] < r[n]
      BY <1>3, <3>1
    <3>4. r[s] \in Nat /\ r[t] \in Nat /\ r[n] \in Nat
      BY <2>1 DEF IsDraft
    <3> QED  BY <3>2, <3>3, <3>4
  <2> QED  BY <2>2, <2>3
<1>4. S \in SUBSET d.nodes /\ Gathers(d, n, S)
  BY <1>3, BeforeGathers DEF Gathers
<1>5. n \in S
  <2> HIDE DEF S
  <2> QED  BY <1>4, BeforeGathers
<1>6. r[n] < r[n] /\ r[n] \in Nat
  BY <1>2, <1>5 DEF IsDraft
<1> QED  BY <1>6

LEMMA ValidIsAcyclic ==
    ASSUME NEW d, IsDraft(d), IsValid(d)
    PROVE  IsAcyclic(d)
<1>1. ASSUME NEW c \in FindCycles(d)  PROVE FALSE
  <2>1. Issue("CYCLE_DETECTED", c[1]) \in ValidateGraph(d)
    BY DEF ValidateGraph, ValidateStructure
  <2> QED  BY <2>1 DEF IsValid, Warnings, Issue
<1>2. IsConvex(d, d.nodes)
  <2> SUFFICES ASSUME NEW p, IsPath(d, p), NEW i \in 1 .. Len(p), NEW k \in 1 .. Len(p), NEW j \in i .. k
               PROVE  p[j] \in d.nodes
    BY DEF IsConvex
  <2>1. p \in Seq(d.nodes) /\ j \in 1 .. Len(p)
    BY DEF IsPath
  <2> QED  BY <2>1
<1>3. IsRanked(d, d.nodes, d.nodes)
  BY <1>1, <1>2, SearchRanks
<1>4. PICK r, rest : IsRanking(d, d.nodes, d.nodes, r, rest)
  BY <1>3 DEF IsRanked
<1> QED  BY <1>4 DEF IsAcyclic, IsRanking, IsDraft

LEMMA EveryCycleIsFound ==
    ASSUME NEW d, IsDraft(d)
    PROVE  CyclesAreFound(d)
<1>1. ASSUME NEW c \in FindCycles(d)
      PROVE  IsInjective(c) /\ \A i \in DOMAIN c : c[(i % Len(c)) + 1] \in Successors(d, c[i])
  <2>1. IsRing(d, c)
    BY FoundAreRings
  <2>2. DOMAIN c = 1 .. Len(c) /\ Injects(c)
    BY <2>1 DEF IsRing
  <2>3. IsInjective(c)
    BY <2>2 DEF IsInjective, Injects
  <2> QED  BY <2>1, <2>2, <2>3 DEF IsRing, After
<1>2. ASSUME NEW n \in d.nodes, n \in Before(d, n)
      PROVE  \E c \in FindCycles(d) : ToSet(c) \subseteq Knot(d, n)
  BY <1>2, SearchRanks, KnotIsConvex, RankedIsNoKnot
<1>3. ASSUME NEW n \in d.nodes, BeforeAll(d)[n] # Before(d, n)  PROVE FALSE
  BY <1>3 DEF BeforeAll
<1>4. ASSUME NEW n \in d.nodes, n \in BeforeAll(d)[n]
      PROVE  \E c \in FindCycles(d) : \A m \in ToSet(c) : m \in BeforeAll(d)[n] /\ n \in BeforeAll(d)[m]
  <2>1. PICK c \in FindCycles(d) : ToSet(c) \subseteq Knot(d, n)
    BY <1>2, <1>3, <1>4
  <2>2. \A m \in ToSet(c) : m \in d.nodes /\ m \in Before(d, n) /\ n \in Before(d, m)
    BY <2>1 DEF Knot
  <2> QED  BY <1>3, <2>2
<1> QED  BY <1>1, <1>4 DEF CyclesAreFound

-----------------------------------------------------------------------------
(* Reachability *)

Spread(d, R) == R \cup UNION {Successors(d, n) : n \in R}

Spreads(d, f) ==
    [reached \in SUBSET d.nodes |->
       IF Spread(d, reached) = reached THEN reached ELSE f[Spread(d, reached)]]

Unspread(d, R) == Cardinality(d.nodes \ R)

LEMMA SpreadIs ==
    ASSUME NEW d, IsDraft(d), NEW R \in SUBSET d.nodes
    PROVE  /\ Spread(d, R) \in SUBSET d.nodes /\ R \subseteq Spread(d, R) /\ Unspread(d, R) \in Nat
           /\ Spread(d, R) # R => Unspread(d, Spread(d, R)) < Unspread(d, R)
<1>1. Spread(d, R) \in SUBSET d.nodes /\ R \subseteq Spread(d, R)
  BY DEF Spread, Successors, IsDraft
<1>2. /\ IsFiniteSet(d.nodes \ R) /\ IsFiniteSet(d.nodes \ Spread(d, R))
      /\ Unspread(d, R) \in Nat /\ Unspread(d, Spread(d, R)) \in Nat
  BY FS_Subset, FS_CardinalityType DEF IsDraft, Unspread
<1>3. ASSUME Spread(d, R) # R  PROVE Unspread(d, Spread(d, R)) < Unspread(d, R)
  <2>1. d.nodes \ Spread(d, R) \in SUBSET (d.nodes \ R) /\ d.nodes \ Spread(d, R) # d.nodes \ R
    BY <1>1, <1>3
  <2>2. Unspread(d, Spread(d, R)) <= Unspread(d, R) /\ Unspread(d, Spread(d, R)) # Unspread(d, R)
    BY <1>2, <2>1, FS_Subset DEF Unspread
  <2> QED  BY <1>2, <2>2
<1> QED  BY <1>1, <1>2, <1>3

LEMMA SpreadIsDefined ==
    ASSUME NEW d, IsDraft(d)
    PROVE  \E f : /\ \A R \in SUBSET d.nodes : f[R] = IF Spread(d, R) = R THEN R ELSE f[Spread(d, R)]
                  /\ \A T \in SUBSET d.nodes : ReachableFrom(d, T) = f[T]
<1> DEFINE S == SUBSET d.nodes
           Stop == {R \in S : Spread(d, R) = R}
           m == [R \in S |-> Unspread(d, R)]
           base == [R \in S |-> R]
           next == [R \in S |-> Spread(d, R)]
           step == [Rv \in S \X S |-> Rv[2]]
<1>1. IsRecursion(S, S, Stop, m, base, step, next)
  <2>1. S # {} /\ base \in [S -> S] /\ step \in [S \X S -> S]
    OBVIOUS
  <2>2. m \in [S -> Nat] /\ next \in [S -> S]
    BY SpreadIs
  <2>3. \A R \in S \ Stop : m[next[R]] < m[R]
    <3> TAKE R \in S \ Stop
    <3>1. next[R] = Spread(d, R) /\ next[R] \in S /\ Unspread(d, next[R]) < Unspread(d, R)
      BY SpreadIs
    <3> HIDE DEF next
    <3> QED  BY <3>1
  <2> QED  BY <2>1, <2>2, <2>3 DEF IsRecursion
<1>2. PICK f \in [S -> S] : Obeys(f, S, Stop, base, step, next)
  <2> HIDE DEF S, Stop, m, base, step, next
  <2> QED  BY <1>1, RecursionIsDefined
<1>3. ASSUME NEW R \in S
      PROVE  f[R] = IF Spread(d, R) = R THEN R ELSE f[Spread(d, R)]
  <2>1. f[R] = IF R \in Stop THEN base[R] ELSE step[<<R, f[next[R]]>>]
    BY <1>2 DEF Obeys, ObeysAt
  <2>2. next[R] = Spread(d, R) /\ next[R] \in S
    BY SpreadIs
  <2>3. f[next[R]] \in S
    BY <2>2
  <2>4. step[<<R, f[next[R]]>>] = f[next[R]]
    BY <2>3
  <2> QED  BY <2>1, <2>2, <2>4
<1>4. f = Spreads(d, f)
  <2>1. \A R \in S : f[R] = Spreads(d, f)[R]
    BY <1>3 DEF Spreads
  <2>2. DOMAIN Spreads(d, f) = S /\ DOMAIN f = S /\ Spreads(d, f) = [R \in S |-> Spreads(d, f)[R]]
    BY DEF Spreads
  <2>3. f = [R \in S |-> f[R]]
    OBVIOUS
  <2> QED  BY <2>1, <2>2, <2>3
<1> DEFINE F == CHOOSE g : g = Spreads(d, g)
<1>5. F = Spreads(d, F)
  BY <1>4
<1>6. \A T \in SUBSET d.nodes : ReachableFrom(d, T) = F[T]
  BY DEF ReachableFrom, Spreads, Spread
<1> HIDE DEF F
<1>7. \A R \in SUBSET d.nodes : F[R] = IF Spread(d, R) = R THEN R ELSE F[Spread(d, R)]
  BY <1>5 DEF Spreads
<1> QED  BY <1>6, <1>7

\* What is reached is the least set that holds the starts and their successors.
LEMMA ReachableIsLeast ==
    ASSUME NEW d, IsDraft(d), NEW T \in SUBSET d.nodes
    PROVE  /\ T \subseteq ReachableFrom(d, T) /\ ReachableFrom(d, T) \in SUBSET d.nodes
           /\ Spread(d, ReachableFrom(d, T)) = ReachableFrom(d, T)
           /\ \A S : T \subseteq S /\ Spread(d, S) \subseteq S => ReachableFrom(d, T) \subseteq S
<1>1. PICK f : /\ \A R \in SUBSET d.nodes : f[R] = IF Spread(d, R) = R THEN R ELSE f[Spread(d, R)]
               /\ \A U \in SUBSET d.nodes : ReachableFrom(d, U) = f[U]
  BY SpreadIsDefined
<1> DEFINE W == {R \in SUBSET d.nodes :
                   /\ T \subseteq R /\ f[R] = f[T]
                   /\ \A S : T \subseteq S /\ Spread(d, S) \subseteq S => R \subseteq S}
           sizes == {Unspread(d, R) : R \in W}
<1>2. T \in W
  OBVIOUS
<1>3. sizes \subseteq Nat /\ sizes # {}
  BY <1>2, SpreadIs
<1>4. PICK k \in sizes : \A l \in sizes : k <= l
  <2> HIDE DEF sizes
  <2> QED  BY <1>3, FirstOf
<1>5. PICK R \in W : k = Unspread(d, R)
  BY <1>4
<1>6. ASSUME Spread(d, R) # R  PROVE FALSE
  <2> DEFINE Q == Spread(d, R)
  <2>1. R \in SUBSET d.nodes /\ Q \in SUBSET d.nodes /\ R \subseteq Q /\ Unspread(d, Q) < k /\ k \in Nat
    BY <1>5, <1>6, SpreadIs
  <2>2. f[Q] = f[T] /\ T \subseteq Q
    BY <1>1, <1>6, <2>1
  <2>3. ASSUME NEW S, T \subseteq S, Spread(d, S) \subseteq S  PROVE Q \subseteq S
    <3>1. R \subseteq S
      BY <2>3
    <3> QED  BY <2>3, <3>1 DEF Spread
  <2>4. Q \in W
    BY <2>1, <2>2, <2>3
  <2>5. Unspread(d, Q) \in sizes
    BY <2>4
  <2>6. k <= Unspread(d, Q) /\ Unspread(d, Q) \in Nat
    BY <1>3, <1>4, <2>5
  <2> HIDE DEF Q, W, sizes
  <2> QED  BY <2>1, <2>6
<1>7. ReachableFrom(d, T) = R
  BY <1>1, <1>6
<1> QED  BY <1>6, <1>7

LEMMA ReachedFromBefore ==
    ASSUME NEW d, IsDraft(d), NEW T \in SUBSET d.nodes, NEW n \in d.nodes
    PROVE  n \notin ReachableFrom(d, T) <=> n \notin T /\ Before(d, n) \cap T = {}
<1> DEFINE R == ReachableFrom(d, T)
<1>1. /\ T \subseteq R /\ R \in SUBSET d.nodes /\ Spread(d, R) = R
      /\ \A S : T \subseteq S /\ Spread(d, S) \subseteq S => R \subseteq S
  BY ReachableIsLeast
<1> HIDE DEF R
<1>2. ASSUME n \notin R  PROVE n \notin T /\ Before(d, n) \cap T = {}
  <2> DEFINE S == d.nodes \ R
  <2>1. ASSUME NEW e \in d.edges, e.target = n \/ e.target \in S  PROVE e.source \in S
    <3>1. e.target \notin R /\ e.source \in d.nodes /\ e.target \in Successors(d, e.source)
      BY <1>2, <2>1 DEF Successors, IsDraft
    <3>2. e.source \in R => e.target \in Spread(d, R)
      BY <3>1 DEF Spread
    <3> QED  BY <1>1, <3>1, <3>2
  <2>2. S \in SUBSET d.nodes /\ Gathers(d, n, S)
    BY <2>1 DEF Gathers
  <2> HIDE DEF S
  <2>3. Before(d, n) \subseteq S
    BY <2>2, BeforeGathers
  <2> QED  BY <1>1, <1>2, <2>3 DEF S
<1>3. ASSUME n \notin T, Before(d, n) \cap T = {}  PROVE n \notin R
  <2> DEFINE S == d.nodes \ (Before(d, n) \cup {n})
  <2>1. T \subseteq S
    BY <1>3
  <2>2. ASSUME NEW m \in S, NEW t \in Successors(d, m)  PROVE t \in S
    <3>1. PICK e \in d.edges : e.source = m /\ e.target = t
      BY DEF Successors
    <3>2. t \in d.nodes
      BY <3>1 DEF IsDraft
    <3>3. t = n \/ t \in Before(d, n) => m \in Before(d, n)
      BY <3>1, BeforeGathers DEF Gathers
    <3> QED  BY <3>2, <3>3
  <2> HIDE DEF S
  <2>3. Spread(d, S) \subseteq S
    BY <2>2 DEF Spread
  <2>4. R \subseteq S
    BY <1>1, <2>1, <2>3
  <2> QED  BY <2>4 DEF S
<1> QED  BY <1>2, <1>3 DEF R

\* Only the reachability check gives the warning.
LEMMA WarningsAre ==
    ASSUME NEW d, Triggers(d) # {}, NEW n
    PROVE  Issue("UNREACHABLE_NODE", n) \in ValidateGraph(d)
             <=> n \in Resolved(d) \ ReachableFrom(d, Triggers(d))
<1> DEFINE w == Issue("UNREACHABLE_NODE", n)
<1>0. \A code, m : w = Issue(code, m) <=> code = "UNREACHABLE_NODE" /\ m = n
  BY DEF Issue
<1> HIDE DEF w
<1>1. w \notin Resolve(d) /\ w \notin ValidateConfig(d)
  BY <1>0 DEF Resolve, ValidateConfig, Issues
<1>2. w \notin ValidateHandles(d)
  <2>1. \A e \in d.edges : w \notin CheckEdge(d, e)
    BY <1>0 DEF CheckEdge
  <2>2. \A m \in d.nodes : w \notin CheckInputs(d, m)
    BY <1>0 DEF CheckInputs
  <2> QED  BY <2>1, <2>2 DEF ValidateHandles
<1>3. w \notin CheckTriggers(d)
  BY <1>0 DEF CheckTriggers, Issues
<1>4. w \notin {Issue("CYCLE_DETECTED", cycle[1]) : cycle \in FindCycles(d)}
  BY <1>0
<1>5. w \in CheckReachability(d) <=> n \in Resolved(d) \ ReachableFrom(d, Triggers(d))
  BY <1>0 DEF CheckReachability, Issues
<1> QED  BY <1>1, <1>2, <1>3, <1>4, <1>5 DEF ValidateGraph, ValidateStructure, w

LEMMA UnreachedAreReported ==
    ASSUME NEW d, IsDraft(d)
    PROVE  UnreachedIsReported(d)
<1> SUFFICES ASSUME Triggers(d) # {}
             PROVE  {n \in d.nodes : Issue("UNREACHABLE_NODE", n) \in ValidateGraph(d)}
                      = {n \in Resolved(d) \ Triggers(d) : BeforeAll(d)[n] \cap Triggers(d) = {}}
  BY DEF UnreachedIsReported
<1>1. Triggers(d) \in SUBSET d.nodes /\ Resolved(d) \subseteq d.nodes
  BY DEF Triggers, Resolved
<1>2. \A n \in d.nodes : BeforeAll(d)[n] = Before(d, n)
  BY DEF BeforeAll
<1>3. ASSUME NEW n \in d.nodes
      PROVE  Issue("UNREACHABLE_NODE", n) \in ValidateGraph(d)
               <=> n \in Resolved(d) \ Triggers(d) /\ BeforeAll(d)[n] \cap Triggers(d) = {}
  BY <1>1, <1>2, WarningsAre, ReachedFromBefore
<1> QED  BY <1>1, <1>3

-----------------------------------------------------------------------------
(* The two pure services                                                     *)

\* Whatever draft it is given, the validator is right: what it lets through is an
\* acyclic graph the engine supports, in which nothing required is missing where it
\* is ready; every node on a cycle has one reported that it shares, every reported
\* cycle is one; and it warns of exactly what no trigger leads to (validate_graph).
THEOREM EveryDraftIsJudged ==
    ASSUME NEW d, IsDraft(d)
    PROVE  ValidationIsSound(d)
<1>1. ValidatedIsSupported(d)
  BY ValidIsSupported, ValidIsAcyclic DEF ValidatedIsSupported
<1> QED  BY <1>1, EveryCycleIsFound, UnreachedAreReported DEF ValidationIsSound

\* The property of the run, for every draft and not only its shapes and wirings
\* (validate_graph).
THEOREM ValidationIsAlwaysRight ==
    ASSUME IsDraft(input)
    PROVE  ValidationIsRight
BY EveryDraftIsJudged DEF ValidationIsRight

\* The property of the run, for every text and not only those of up to eight
\* letters: what is no longer than the overlap is whole in a chunk (chunk_text).
THEOREM TextIsAlwaysFindable ==
    ASSUME NEW T, input \in Seq(T)
    PROVE  TextIsFindable
BY EveryPhraseIsKept DEF TextIsFindable
=============================================================================
