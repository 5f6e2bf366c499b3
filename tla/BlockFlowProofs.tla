--------------------------- MODULE BlockFlowProofs ---------------------------
(***************************************************************************)
(* For any number of heights, validators, signatures and switch blocks, and *)
(* any number of fallbacks to CatchUp: meta blocks tell the truth, blocks   *)
(* are executed on the state of their parents, the event stream is told of  *)
(* a block once, and no block with enough signatures is overlooked.         *)
(*                                                                         *)
(* The accumulator is treated first, by itself: every operation keeps its   *)
(* acceptors and writes in order and is a step in the sense of `Steps`.     *)
(***************************************************************************)
EXTENDS BlockFlow, BoundedSets, FiniteSetTheorems, SequenceTheorems, TLAPS

-----------------------------------------------------------------------------
(* The accumulator                                                          *)

\* The flags of a block that is complete and known to be so.
CompleteState(state) ==
    /\ {"stored", "executed", "accumulator_notified", "sufficient_finality", "marked_complete"}
           \subseteq state
    /\ "all_actions_done" \notin state

\* What the flags of an acceptor mean; `known` are the heights of blocks in eras with
\* known validators, and `done` those of blocks that are stored with their results.
AcceptorSound(acc, h, known, done) ==
    /\ "all_actions_done" \notin acc.state
    /\ acc.state # {} => acc.block
    /\ "executed" \notin acc.state => acc.state \subseteq {"stored", "sufficient_finality"}
    /\ "executed" \in acc.state =>
           {"stored", "accumulator_notified"} \subseteq acc.state /\ h \in done
    /\ "marked_complete" \in acc.state => {"executed", "sufficient_finality"} \subseteq acc.state
    /\ "sufficient_finality" \in acc.state => h \in known

\* A block that has all it takes is marked complete.
Settled(acc) ==
    HasSufficientFinality(acc) /\ "executed" \in acc.state => "marked_complete" \in acc.state

\* A block that has enough signatures is known to.
Noticed(acc) == acc.block /\ Strict(acc.signatures) => HasSufficientFinality(acc)

WriteSound(w, done) ==
    \/ /\ w.op = "block"
       /\ "stored" \in w.state /\ w.state \subseteq {"stored", "sufficient_finality"}
    \/ w.op = "complete" /\ CompleteState(w.state) /\ w.height \in done

\* The parts that hold while an operation is under way, and in the end.
Orderly(a, known, done) ==
    /\ a \in Accumulators
    /\ \A h \in Heights : AcceptorSound(a.acceptors[h], h, known, done)
    /\ \A w \in a.writes : WriteSound(w, done)

AccSound(a, known, done) ==
    Orderly(a, known, done) /\ \A h \in Heights : Settled(a.acceptors[h])

\* The block was marked complete once, and will not be again.
Past(a, h) ==
    \/ "marked_complete" \in a.acceptors[h].state
    \/ h < a.local_tip /\ ~a.acceptors[h].block

Completing(w) == w.op = "complete"

\* What an operation of the accumulator may do.
Steps(a, b, known) ==
    /\ a.writes \subseteq b.writes
    /\ \A h \in Heights : Past(a, h) => Past(b, h)
    /\ \A w \in b.writes \ a.writes :
           Completing(w) => ~Past(a, w.height) /\ Past(b, w.height)
    /\ \A v, w \in b.writes \ a.writes :
           Completing(v) /\ Completing(w) /\ v.height = w.height => v = w
    /\ \A h \in known : Noticed(a.acceptors[h]) => Noticed(b.acceptors[h])

LEMMA StepsCompose ==
    ASSUME NEW a \in Accumulators, NEW b \in Accumulators, NEW c \in Accumulators,
           NEW known, Steps(a, b, known), Steps(b, c, known)
    PROVE  Steps(a, c, known)
<1>1. \A w \in c.writes : w.height \in Heights
    BY DEF Accumulators
<1>2. \A w \in b.writes : w.height \in Heights
    BY DEF Accumulators
<1>3. \A w \in c.writes \ a.writes :
          Completing(w) => ~Past(a, w.height) /\ Past(c, w.height)
    BY <1>1, <1>2 DEF Steps
<1>4. \A v, w \in c.writes \ a.writes :
          Completing(v) /\ Completing(w) /\ v.height = w.height => v = w
    BY <1>1, <1>2 DEF Steps
<1> QED
    BY <1>3, <1>4 DEF Steps

LEMMA StepsRefl ==
    ASSUME NEW a, NEW known
    PROVE  Steps(a, a, known)
    BY DEF Steps

\* Looking at an acceptor again.
LEMMA EvaluatedSound ==
    ASSUME NEW acc \in Acceptor, NEW h \in Heights, NEW known, NEW done, h \in known,
           AcceptorSound(acc, h, known, done)
    PROVE  LET e == Evaluated(acc)
           IN  /\ e \in Acceptor /\ AcceptorSound(e, h, known, done) /\ Settled(e) /\ Noticed(e)
               /\ e.block = acc.block /\ acc.state \subseteq e.state
               /\ BecomesComplete(acc) =>
                      /\ acc.block /\ "marked_complete" \notin acc.state
                      /\ "marked_complete" \in e.state
               /\ \A w \in WritesFor(h, acc) :
                      /\ w \in [height : Heights, op : {"block", "complete"}, state : SUBSET Flags]
                      /\ WriteSound(w, done) /\ w.height = h
                      /\ w.op = "complete" => BecomesComplete(acc)
               /\ \A v, w \in WritesFor(h, acc) : v = w
<1> DEFINE e == Evaluated(acc)
           final == BecomesFinal(acc)
           complete_ == BecomesComplete(acc)
           new == (IF final THEN {"sufficient_finality"} ELSE {})
                      \cup (IF complete_ THEN {"marked_complete"}
                            ELSE IF final THEN {"stored"} ELSE {})
<1>1. /\ acc.state \in SUBSET Flags /\ acc.signatures \in SUBSET Signers /\ acc.block \in BOOLEAN
      /\ acc.ours \in BOOLEAN
    BY DEF Acceptor
<1>2. /\ e.block = acc.block /\ e.state = acc.state \cup new
      /\ e.signatures = IF acc.block /\ ~HasSufficientFinality(acc)
                        THEN acc.signatures \cap Validators ELSE acc.signatures
    BY DEF Evaluated, Acceptor
<1>3. e \in Acceptor
    BY <1>1 DEF Evaluated, Acceptor, Flags
<1>4. final => acc.block /\ "sufficient_finality" \notin acc.state /\ Strict(acc.signatures)
    BY DEF BecomesFinal, HasSufficientFinality
<1>5. complete_ <=> /\ "executed" \in acc.state
                    /\ final \/ (HasSufficientFinality(acc) /\ "marked_complete" \notin acc.state)
    BY DEF BecomesComplete
<1>6. complete_ => acc.block /\ "marked_complete" \notin acc.state
    BY <1>4, <1>5 DEF AcceptorSound, HasSufficientFinality
<1>7. AcceptorSound(e, h, known, done)
    <2> HIDE DEF final, complete_, e
    <2>1. CASE complete_
        <3>1. /\ "executed" \in acc.state /\ acc.block
              /\ "sufficient_finality" \in acc.state \cup new
            BY <1>5, <1>6, <2>1 DEF HasSufficientFinality
        <3> QED
            BY <1>2, <2>1, <3>1 DEF AcceptorSound
    <2>2. CASE ~complete_ /\ final
        <3>1. "executed" \notin acc.state /\ acc.block
            BY <1>4, <1>5, <2>2
        <3> QED
            BY <1>2, <2>2, <3>1 DEF AcceptorSound
    <2>3. CASE ~complete_ /\ ~final
        BY <1>2, <2>3 DEF AcceptorSound
    <2> QED
        BY <2>1, <2>2, <2>3
<1>8. Settled(e)
    <2> HIDE DEF final, complete_, e
    <2> SUFFICES ASSUME e.block, "sufficient_finality" \in e.state, "executed" \in e.state
                 PROVE  "marked_complete" \in e.state
        BY DEF Settled, HasSufficientFinality
    <2>1. "executed" \in acc.state
        BY <1>2
    <2>2. final \/ HasSufficientFinality(acc)
        BY <1>2, <2>1 DEF HasSufficientFinality
    <2>3. complete_ \/ "marked_complete" \in acc.state
        BY <1>5, <2>1, <2>2
    <2> QED
        BY <1>2, <2>3
<1>9. Noticed(e)
    <2>1. (acc.signatures \cap Validators) \cap Validators = acc.signatures \cap Validators
        OBVIOUS
    <2>2. Strict(e.signatures) = Strict(acc.signatures)
        <3>1. e.signatures \cap Validators = acc.signatures \cap Validators
            BY <1>2, <2>1
        <3> QED
            BY <3>1 DEF Strict
    <2>3. acc.block /\ Strict(acc.signatures) => final \/ HasSufficientFinality(acc)
        BY DEF BecomesFinal
    <2> HIDE DEF final, complete_, e
    <2> QED
        BY <1>2, <2>2, <2>3 DEF Noticed, HasSufficientFinality
<1>10. ASSUME NEW w \in WritesFor(h, acc)
       PROVE  /\ w \in [height : Heights, op : {"block", "complete"}, state : SUBSET Flags]
              /\ WriteSound(w, done) /\ w.height = h
              /\ w.op = "complete" => complete_
              /\ w = [height |-> h, op |-> IF complete_ THEN "complete" ELSE "block", state |-> e.state]
    <2>1. /\ complete_ \/ final
          /\ w = [height |-> h, op |-> IF complete_ THEN "complete" ELSE "block", state |-> e.state]
        BY <1>10 DEF WritesFor
    <2>2. e.state \in SUBSET Flags
        BY <1>3 DEF Acceptor
    <2> HIDE DEF final, complete_, e
    <2>3. CASE complete_
        <3>1. "executed" \in e.state /\ "marked_complete" \in e.state
            BY <1>2, <1>5, <2>3
        <3> QED
            BY <1>7, <2>1, <2>2, <2>3, <3>1 DEF AcceptorSound, WriteSound, CompleteState
    <2>4. CASE ~complete_
        <3>1. "executed" \notin e.state /\ "stored" \in e.state
            BY <1>2, <1>5, <2>1, <2>4
        <3> QED
            BY <1>7, <2>1, <2>2, <2>4, <3>1 DEF AcceptorSound, WriteSound
    <2> QED
        BY <2>3, <2>4
<1>11. complete_ => "marked_complete" \in e.state
    BY <1>2
<1> HIDE DEF final, complete_, e
<1> QED
    BY <1>2, <1>3, <1>6, <1>7, <1>8, <1>9, <1>10, <1>11 DEF e, complete_

\* What becomes of an accumulator when the blocks at the heights hs are looked at.
LookedAt(a, b, hs, known, done) ==
    /\ Orderly(b, known, done)
    /\ \A h \in Heights \ hs : b.acceptors[h] = a.acceptors[h]
    /\ \A h \in hs : Settled(b.acceptors[h]) /\ Noticed(b.acceptors[h])
    /\ Steps(a, b, known)

\* Looking at several acceptors again.
LEMMA EvaluateSteps ==
    ASSUME NEW known \in SUBSET Heights, NEW done, NEW a, Orderly(a, known, done),
           NEW hs \in SUBSET known, NEW b, b = Evaluate(a, hs)
    PROVE  LookedAt(a, b, hs, known, done)
<1> DEFINE new == UNION {WritesFor(h, a.acceptors[h]) : h \in hs}
           E(h) == Evaluated(a.acceptors[h])
<1>1. /\ a \in Accumulators /\ a.acceptors \in [Heights -> Acceptor]
      /\ a.children \subseteq Heights /\ a.local_tip \in 0 .. MaxHeight
      /\ a.writes \subseteq [height : Heights, op : {"block", "complete"}, state : SUBSET Flags]
    BY DEF Orderly, Accumulators
<1> DEFINE acceptors == [h \in Heights |-> IF h \in hs THEN E(h) ELSE a.acceptors[h]]
           children == a.children \cup {h \in hs : BecomesFinal(a.acceptors[h])}
<1>a. b = [a EXCEPT !.acceptors = acceptors, !.children = children, !.writes = a.writes \cup new]
    BY DEF Evaluate
<1>2. /\ b.acceptors = [h \in Heights |-> IF h \in hs THEN E(h) ELSE a.acceptors[h]]
      /\ b.children = a.children \cup {h \in hs : BecomesFinal(a.acceptors[h])}
      /\ b.writes = a.writes \cup new /\ b.local_tip = a.local_tip
    <2> HIDE DEF new, acceptors, children
    <2>1. /\ b.acceptors = acceptors /\ b.children = children
          /\ b.writes = a.writes \cup new /\ b.local_tip = a.local_tip
        BY <1>1, <1>a DEF Accumulators
    <2> QED
        BY <2>1 DEF acceptors, children
<1>3. b = [acceptors |-> b.acceptors, children |-> b.children, local_tip |-> b.local_tip,
           writes |-> b.writes]
    <2> HIDE DEF new, acceptors, children
    <2> QED
        BY <1>1, <1>a DEF Accumulators
<1>4. ASSUME NEW h \in hs
      PROVE  /\ E(h) \in Acceptor /\ AcceptorSound(E(h), h, known, done)
             /\ Settled(E(h)) /\ Noticed(E(h))
             /\ E(h).block = a.acceptors[h].block /\ a.acceptors[h].state \subseteq E(h).state
             /\ BecomesComplete(a.acceptors[h]) =>
                    /\ a.acceptors[h].block /\ "marked_complete" \notin a.acceptors[h].state
                    /\ "marked_complete" \in E(h).state
             /\ \A w \in WritesFor(h, a.acceptors[h]) :
                    /\ w \in [height : Heights, op : {"block", "complete"}, state : SUBSET Flags]
                    /\ WriteSound(w, done) /\ w.height = h
                    /\ w.op = "complete" => BecomesComplete(a.acceptors[h])
             /\ \A v, w \in WritesFor(h, a.acceptors[h]) : v = w
    <2>1. a.acceptors[h] \in Acceptor /\ AcceptorSound(a.acceptors[h], h, known, done)
          /\ h \in Heights /\ h \in known
        BY <1>1 DEF Orderly
    <2> QED
        BY <2>1, EvaluatedSound
<1> HIDE DEF E
<1>5. \A w \in new : /\ w \in [height : Heights, op : {"block", "complete"}, state : SUBSET Flags]
                     /\ WriteSound(w, done) /\ w.height \in hs
                     /\ w \in WritesFor(w.height, a.acceptors[w.height])
    BY <1>4
<1> HIDE DEF new
<1>6. \A h \in Heights : b.acceptors[h] = IF h \in hs THEN E(h) ELSE a.acceptors[h]
    BY <1>2
<1>7. b \in Accumulators
    <2>1. b.acceptors \in [Heights -> Acceptor]
        BY <1>1, <1>2, <1>4
    <2>2. b.writes \subseteq [height : Heights, op : {"block", "complete"}, state : SUBSET Flags]
        BY <1>1, <1>2, <1>5
    <2>3. b.children \subseteq Heights /\ b.local_tip \in 0 .. MaxHeight
        BY <1>1, <1>2
    <2> QED
        BY <1>3, <2>1, <2>2, <2>3 DEF Accumulators
<1>8. \A h \in Heights : AcceptorSound(b.acceptors[h], h, known, done)
    BY <1>4, <1>6 DEF Orderly
<1>9. \A w \in b.writes : WriteSound(w, done)
    BY <1>2, <1>5 DEF Orderly
<1>10. ASSUME NEW h \in Heights, Past(a, h) PROVE Past(b, h)
    BY <1>2, <1>4, <1>6, <1>10 DEF Past
<1>11. ASSUME NEW w \in new, Completing(w) PROVE ~Past(a, w.height) /\ Past(b, w.height)
    <2>1. w.height \in hs /\ BecomesComplete(a.acceptors[w.height])
        BY <1>4, <1>5, <1>11 DEF Completing
    <2>2. /\ a.acceptors[w.height].block
          /\ "marked_complete" \notin a.acceptors[w.height].state
          /\ "marked_complete" \in E(w.height).state
        BY <1>4, <2>1
    <2> QED
        BY <1>6, <2>1, <2>2 DEF Past
<1>12. ASSUME NEW v \in new, NEW w \in new, v.height = w.height PROVE v = w
    BY <1>4, <1>5, <1>12
<1>13. \A h \in known : Noticed(a.acceptors[h]) => Noticed(b.acceptors[h])
    BY <1>4, <1>6
<1>14. Steps(a, b, known)
    BY <1>2, <1>10, <1>11, <1>12, <1>13 DEF Steps
<1> QED
    BY <1>4, <1>6, <1>7, <1>8, <1>9, <1>14 DEF Orderly, LookedAt

\* More eras, blocks and results become known.
LEMMA SoundMonotone ==
    ASSUME NEW known \in SUBSET Heights, NEW done, NEW a, AccSound(a, known, done),
           NEW known2, NEW done2, known \subseteq known2, done \subseteq done2
    PROVE  AccSound(a, known2, done2)
    BY DEF AccSound, Orderly, AcceptorSound, WriteSound

\* Another acceptor for a block.
Replaced(a, c, h, acc) ==
    /\ c.acceptors = [a.acceptors EXCEPT ![h] = acc] /\ c.writes = a.writes
    /\ c.local_tip = a.local_tip /\ c \in Accumulators

LEMMA AcceptorReplaced ==
    ASSUME NEW a \in Accumulators, NEW h \in Heights, NEW acc \in Acceptor,
           NEW c, c = [a EXCEPT !.acceptors = [a.acceptors EXCEPT ![h] = acc]]
    PROVE  Replaced(a, c, h, acc)
<1> DEFINE f == [a.acceptors EXCEPT ![h] = acc]
<1>1. f \in [Heights -> Acceptor]
    BY DEF Accumulators
<1> HIDE DEF f
<1>2. [a EXCEPT !.acceptors = f] \in Accumulators
    BY <1>1 DEF Accumulators
<1>3. /\ [a EXCEPT !.acceptors = f].acceptors = f /\ [a EXCEPT !.acceptors = f].writes = a.writes
      /\ [a EXCEPT !.acceptors = f].local_tip = a.local_tip
    BY DEF Accumulators
<1> QED
    BY <1>2, <1>3 DEF f, Replaced

\* register_block, for a block as it comes from a peer or as the reactor hands it over
\* when it was executed.
LEMMA RegisterBlockSteps ==
    ASSUME NEW known \in SUBSET Heights, NEW done, NEW a, AccSound(a, known, done),
           NEW h \in Heights, NEW state \in SUBSET Flags,
           \/ state = {}
           \/ /\ {"stored", "executed", "accumulator_notified"} \subseteq state
              /\ state \cap {"all_actions_done", "marked_complete", "sufficient_finality"} = {}
              /\ h \in done
    PROVE  LET b == RegisterBlock(a, h, state, known)
           IN  AccSound(b, known, done) /\ Steps(a, b, known)
<1> DEFINE acc == [a.acceptors[h] EXCEPT !.block = TRUE, !.state = @ \cup state]
           c == [a EXCEPT !.acceptors[h].block = TRUE, !.acceptors[h].state = @ \cup state]
           hs == {h} \cap known
           b == RegisterBlock(a, h, state, known)
<1>1. CASE h < a.local_tip
    <2>1. b = a
        BY <1>1 DEF RegisterBlock
    <2> QED
        BY <2>1, StepsRefl
<1>2. CASE ~(h < a.local_tip)
    <2>1. b = Evaluate(c, hs)
        BY <1>2 DEF RegisterBlock
    <2>2. /\ a \in Accumulators /\ a.acceptors \in [Heights -> Acceptor] /\ a.acceptors[h] \in Acceptor
          /\ a.local_tip \in 0 .. MaxHeight
        BY DEF AccSound, Orderly, Accumulators
    <2>3. /\ acc.block /\ acc.state = a.acceptors[h].state \cup state
          /\ acc.signatures = a.acceptors[h].signatures /\ acc \in Acceptor
        BY <2>2 DEF Acceptor
    <2>4. /\ c = [a EXCEPT !.acceptors = [a.acceptors EXCEPT ![h] = acc]]
        BY <2>2 DEF Accumulators, Acceptor
    <2> HIDE DEF acc, c
    <2>5. /\ c.acceptors = [a.acceptors EXCEPT ![h] = acc] /\ c.writes = a.writes
          /\ c.local_tip = a.local_tip /\ c \in Accumulators
        <3>1. acc \in Acceptor /\ a \in Accumulators
            BY <2>2, <2>3
        <3>2. Replaced(a, c, h, acc)
            BY <2>4, <3>1, AcceptorReplaced
        <3> QED
            BY <3>2 DEF Replaced
    <2>6. c.acceptors[h] = acc /\ \A g \in Heights \ {h} : c.acceptors[g] = a.acceptors[g]
        BY <2>2, <2>5
    <2>7. AcceptorSound(acc, h, known, done)
        <3>1. AcceptorSound(a.acceptors[h], h, known, done)
            BY DEF AccSound, Orderly
        <3> QED
            BY <2>3, <3>1 DEF AcceptorSound
    <2>8. Orderly(c, known, done)
        BY <2>5, <2>6, <2>7 DEF AccSound, Orderly
    <2>9. /\ Orderly(b, known, done)
          /\ \A g \in Heights \ hs : b.acceptors[g] = c.acceptors[g]
          /\ \A g \in hs : Settled(b.acceptors[g]) /\ Noticed(b.acceptors[g])
          /\ Steps(c, b, known)
        <3>1. hs \in SUBSET known
            OBVIOUS
        <3> HIDE DEF b, hs
        <3>2. LookedAt(c, b, hs, known, done)
            BY <2>1, <2>8, <3>1, EvaluateSteps
        <3> QED
            BY <3>2 DEF LookedAt
    <2> HIDE DEF b
    <2>10. \A g \in Heights : Settled(b.acceptors[g])
        <3>1. ASSUME h \notin known PROVE Settled(b.acceptors[h])
            <4>1. b.acceptors[h] = acc
                BY <2>6, <2>9, <3>1
            <4>2. "sufficient_finality" \notin acc.state
                BY <2>7, <3>1 DEF AcceptorSound
            <4> QED
                BY <4>1, <4>2 DEF Settled, HasSufficientFinality
        <3> QED
            BY <2>6, <2>9, <3>1 DEF AccSound
    <2>11. Steps(a, b, known)
        <3>1. \A g \in Heights : Past(a, g) <=> Past(c, g)
            <4>1. Past(a, h) <=> Past(c, h)
                BY <1>2, <2>3, <2>5, <2>6 DEF Past
            <4>2. \A g \in Heights \ {h} : Past(a, g) <=> Past(c, g)
                BY <2>5, <2>6 DEF Past
            <4> QED
                BY <4>1, <4>2
        <3>2. \A g \in known : Noticed(a.acceptors[g]) => Noticed(b.acceptors[g])
            BY <2>6, <2>9 DEF Steps
        <3>3. \A w \in b.writes : w.height \in Heights
            BY <2>9 DEF Orderly, Accumulators
        <3> QED
            BY <2>5, <2>9, <3>1, <3>2, <3>3 DEF Steps
    <2> QED
        BY <2>9, <2>10, <2>11 DEF AccSound, b
<1> QED
    BY <1>1, <1>2

\* register_finality_signature.
LEMMA RegisterSignatureSteps ==
    ASSUME NEW known \in SUBSET Heights, NEW done, NEW a, AccSound(a, known, done),
           NEW h \in Heights, NEW key \in Signers, NEW ours \in BOOLEAN
    PROVE  LET b == RegisterFinalitySignature(a, h, key, ours, known)
           IN  AccSound(b, known, done) /\ Steps(a, b, known)
<1> DEFINE acc == [a.acceptors[h] EXCEPT !.signatures = @ \cup {key}, !.ours = @ \/ ours]
           c == [a EXCEPT !.acceptors[h].signatures = @ \cup {key},
                          !.acceptors[h].ours = @ \/ ours]
           late == HasSufficientFinality(a.acceptors[h]) /\ key \notin a.acceptors[h].signatures
           hs == IF late THEN {} ELSE {h} \cap known
           b == RegisterFinalitySignature(a, h, key, ours, known)
<1>1. b = Evaluate(c, hs)
    BY DEF RegisterFinalitySignature
<1>2. a \in Accumulators /\ a.acceptors \in [Heights -> Acceptor] /\ a.acceptors[h] \in Acceptor
    BY DEF AccSound, Orderly, Accumulators
<1>3. acc.block = a.acceptors[h].block /\ acc.state = a.acceptors[h].state /\ acc \in Acceptor
    BY <1>2 DEF Acceptor
<1>4. c = [a EXCEPT !.acceptors = [a.acceptors EXCEPT ![h] = acc]]
    BY <1>2 DEF Accumulators, Acceptor
<1> HIDE DEF acc, c
<1>5. /\ c.acceptors = [a.acceptors EXCEPT ![h] = acc] /\ c.writes = a.writes
      /\ c.local_tip = a.local_tip /\ c \in Accumulators
    <2>1. acc \in Acceptor /\ a \in Accumulators
        BY <1>2, <1>3
    <2>2. Replaced(a, c, h, acc)
        BY <1>4, <2>1, AcceptorReplaced
    <2> QED
        BY <2>2 DEF Replaced
<1>6. c.acceptors[h] = acc /\ \A g \in Heights \ {h} : c.acceptors[g] = a.acceptors[g]
    BY <1>2, <1>5
<1>7. AcceptorSound(acc, h, known, done) /\ Settled(acc)
    BY <1>3 DEF AccSound, Orderly, AcceptorSound, Settled, HasSufficientFinality
<1>8. Orderly(c, known, done) /\ \A g \in Heights : Settled(c.acceptors[g])
    BY <1>5, <1>6, <1>7 DEF AccSound, Orderly
<1>9. hs \in SUBSET known
    OBVIOUS
<1>10. late => HasSufficientFinality(acc)
    BY <1>3 DEF HasSufficientFinality
<1>11. hs \subseteq {h} /\ (late \/ h \notin known \/ h \in hs)
    OBVIOUS
<1> HIDE DEF hs, late
<1>12. /\ Orderly(b, known, done)
       /\ \A g \in Heights \ hs : b.acceptors[g] = c.acceptors[g]
       /\ \A g \in hs : Settled(b.acceptors[g]) /\ Noticed(b.acceptors[g])
       /\ Steps(c, b, known)
    <2> HIDE DEF b
    <2>1. Orderly(c, known, done)
        BY <1>8
    <2>2. LookedAt(c, b, hs, known, done)
        BY <1>1, <1>9, <2>1, EvaluateSteps
    <2> QED
        BY <2>2 DEF LookedAt
<1> HIDE DEF b
<1>13. \A g \in Heights : Settled(b.acceptors[g])
    BY <1>8, <1>12
<1>14. \A g \in Heights : Past(a, g) <=> Past(c, g)
    <2>1. Past(a, h) <=> Past(c, h)
        BY <1>3, <1>5, <1>6 DEF Past
    <2>2. \A g \in Heights \ {h} : Past(a, g) <=> Past(c, g)
        BY <1>5, <1>6 DEF Past
    <2> QED
        BY <2>1, <2>2
<1>15. \A g \in known : Noticed(a.acceptors[g]) => Noticed(b.acceptors[g])
    <2>1. \A g \in known \ {h} : Noticed(a.acceptors[g]) => Noticed(b.acceptors[g])
        BY <1>6, <1>11, <1>12
    <2>2. h \in hs => Noticed(b.acceptors[h])
        BY <1>12
    <2>3. late /\ h \notin hs => Noticed(b.acceptors[h])
        BY <1>6, <1>10, <1>12 DEF Noticed
    <2> QED
        BY <1>11, <2>1, <2>2, <2>3
<1>16. \A w \in b.writes : w.height \in Heights
    BY <1>12 DEF Orderly, Accumulators
<1>17. Steps(a, b, known)
    BY <1>5, <1>12, <1>14, <1>15, <1>16 DEF Steps
<1> QED
    BY <1>12, <1>13, <1>17 DEF AccSound, b

\* handle_validators: no block of a known era is left to be noticed.
LEMMA HandleValidatorsSteps ==
    ASSUME NEW known \in SUBSET Heights, NEW done, NEW a, AccSound(a, known, done)
    PROVE  LET b == HandleValidators(a, known)
           IN  /\ AccSound(b, known, done) /\ Steps(a, b, known)
               /\ \A h \in known : Noticed(b.acceptors[h])
<1> DEFINE hs == {h \in known : ~HasSufficientFinality(a.acceptors[h])}
           b == HandleValidators(a, known)
<1>1. b = Evaluate(a, hs)
    BY DEF HandleValidators
<1>2. hs \in SUBSET known /\ \A h \in known \ hs : Noticed(a.acceptors[h])
    BY DEF Noticed
<1> HIDE DEF hs
<1>3. /\ Orderly(b, known, done)
      /\ \A g \in Heights \ hs : b.acceptors[g] = a.acceptors[g]
      /\ \A g \in hs : Settled(b.acceptors[g]) /\ Noticed(b.acceptors[g])
      /\ Steps(a, b, known)
    <2>1. Orderly(a, known, done)
        BY DEF AccSound
    <2>2. hs \in SUBSET known
        BY <1>2
    <2> HIDE DEF b
    <2>3. LookedAt(a, b, hs, known, done)
        BY <1>1, <2>1, <2>2, EvaluateSteps
    <2> QED
        BY <2>3 DEF LookedAt
<1> HIDE DEF b
<1>4. \A h \in known : Noticed(b.acceptors[h])
    BY <1>2, <1>3
<1>5. \A h \in Heights : Settled(b.acceptors[h])
    BY <1>3 DEF AccSound
<1> QED
    BY <1>3, <1>4, <1>5 DEF AccSound, b

\* register_local_tip: a complete block is purged only when the tip is far above it.
LEMMA RegisterLocalTipSteps ==
    ASSUME NEW known \in SUBSET Heights, NEW done, NEW a, AccSound(a, known, done),
           NEW h \in 0 .. MaxHeight, NEW expired
    PROVE  LET b == RegisterLocalTip(a, h, expired)
           IN  AccSound(b, known, done) /\ Steps(a, b, known)
<1> DEFINE b == RegisterLocalTip(a, h, expired)
           purged == {g \in expired : ~Kept(a, g)}
<1>1. CASE h <= a.local_tip
    <2>1. b = a
        BY <1>1 DEF RegisterLocalTip
    <2> QED
        BY <2>1, StepsRefl
<1>2. CASE ~(h <= a.local_tip)
    <2>1. /\ a \in Accumulators /\ a.acceptors \in [Heights -> Acceptor]
          /\ a.local_tip \in 0 .. MaxHeight /\ a.children \subseteq Heights
        BY DEF AccSound, Orderly, Accumulators
    <2>2. b = [Purge(a, expired) EXCEPT !.local_tip = h]
        BY <1>2 DEF RegisterLocalTip
    <2>3. /\ b = [a EXCEPT !.acceptors = [g \in Heights |-> IF g \in purged THEN NewAcceptor
                                                           ELSE a.acceptors[g]],
                           !.children = a.children \ purged, !.local_tip = h]
        BY <2>1, <2>2 DEF Purge, Accumulators
    <2>4. /\ NewAcceptor \in Acceptor /\ NewAcceptor.state = {} /\ ~NewAcceptor.block
        BY DEF NewAcceptor, Acceptor
    <2>5. \A g \in Heights : AcceptorSound(NewAcceptor, g, known, done)
          /\ Settled(NewAcceptor) /\ Noticed(NewAcceptor)
        BY <2>4 DEF AcceptorSound, Settled, Noticed, HasSufficientFinality
    <2>6. \A g \in Heights \cap purged : "marked_complete" \in a.acceptors[g].state => g < a.local_tip
        <3> SUFFICES ASSUME NEW g \in Heights, g \in purged,
                            "marked_complete" \in a.acceptors[g].state
                     PROVE  g < a.local_tip
            OBVIOUS
        <3>1. HasSufficientFinality(a.acceptors[g]) /\ a.acceptors[g].block
            BY DEF AccSound, Orderly, AcceptorSound, HasSufficientFinality
        <3>2. ~Kept(a, g)
            OBVIOUS
        <3>3. g \in Nat /\ a.local_tip \in Nat
            BY <2>1, HeightAssumption DEF Heights
        <3> QED
            BY <3>1, <3>2, <3>3, ThresholdAssumption DEF Kept
    <2> HIDE DEF purged, b
    <2>7. /\ b.acceptors = [g \in Heights |-> IF g \in purged THEN NewAcceptor ELSE a.acceptors[g]]
          /\ b.writes = a.writes /\ b.local_tip = h /\ b \in Accumulators
        BY <2>1, <2>3, <2>4 DEF Accumulators
    <2>8. \A g \in Heights : b.acceptors[g] = IF g \in purged THEN NewAcceptor ELSE a.acceptors[g]
        BY <2>7
    <2>9. AccSound(b, known, done)
        BY <2>5, <2>7, <2>8 DEF AccSound, Orderly
    <2>10. ASSUME NEW g \in Heights, Past(a, g) PROVE Past(b, g)
        <3>1. g \in Nat /\ a.local_tip \in Nat /\ h \in Nat /\ a.local_tip < h
            BY <1>2, <2>1, HeightAssumption DEF Heights
        <3>2. CASE g \in purged
            <4>1. g < a.local_tip
                BY <2>6, <2>10, <3>2 DEF Past
            <4> QED
                BY <2>4, <2>7, <2>8, <3>1, <3>2, <4>1 DEF Past
        <3>3. CASE g \notin purged
            BY <2>7, <2>8, <2>10, <3>1, <3>3 DEF Past
        <3> QED
            BY <3>2, <3>3
    <2>11. Steps(a, b, known)
        BY <2>5, <2>7, <2>8, <2>10 DEF Steps
    <2> QED
        BY <2>9, <2>11 DEF b
<1> QED
    BY <1>1, <1>2

-----------------------------------------------------------------------------
(* The inductive invariant                                                  *)

\* The blocks that are stored with the results of their execution.
Done == stored \cap executed

\* A meta block is that of a block that was just executed, of one that only became
\* final, or of a complete one.
MetaSound(meta, st, ex, co) ==
    /\ meta.height \in st /\ "stored" \in meta.state
    /\ \/ meta.state = {"stored", "executed"} /\ meta.height \in ex
       \/ meta.state \subseteq {"stored", "sufficient_finality"}
       \/ CompleteState(meta.state) /\ meta.height \in ex \cap co

RequestSound(r, st) == r.state \subseteq {"stored"} /\ (r.state # {} => r.height \in st)

\* All that is asked of the contract runtime.
Asked == requests \cup queue \cup {t.request : t \in tasks}

\* Flags tell the truth.
Truth ==
    /\ TypeOK
    /\ AccSound(accumulator, KnownIn(eras), Done)
    /\ \A i \in DOMAIN metas : MetaSound(metas[i], stored, executed, complete)
    /\ \A r \in Asked : RequestSound(r, stored)
    /\ 0 \in complete /\ complete \subseteq Done
    /\ added \subseteq stored
    /\ builder.phase = "acquiring" => builder.height \in Heights

\* The execution of the block at height h has ended, if not its storing.
ExecutionEnded(h) ==
    h \in executed \/ \E p \in tasks : p.request.height = h /\ p.phase = "executed"

\* The switch blocks before height h are in storage.
ErasStored(h, st) == \A s \in switch : s < h => s \in st

\* Blocks are executed in order, and asked for when the eras before theirs are stored.
Order ==
    /\ ExecutionEnded(next - 1)
    /\ \A t \in tasks : ExecutionEnded(t.request.height - 1)
    /\ \A r \in Asked : ErasStored(r.height, stored)
    /\ \A h \in executed : ErasStored(h, stored)
    /\ ErasStored(builder.height, stored)
    /\ builder.phase # "acquiring" => builder.height \in stored

\* A meta block that says that its block is complete.
Marked(meta) == "marked_complete" \in meta.state

\* A block that was found complete is on its way once: as a write, as a meta block, or
\* as told to the event stream.
Once ==
    /\ \A h \in Heights : streamed[h] # 0 =>
           streamed[h] = 1 /\ h \in complete /\ Past(accumulator, h)
    /\ \A w \in accumulator.writes : Completing(w) =>
           /\ Past(accumulator, w.height) /\ streamed[w.height] = 0
           /\ \A i \in DOMAIN metas : Marked(metas[i]) => metas[i].height # w.height
    /\ \A v, w \in accumulator.writes :
           Completing(v) /\ Completing(w) /\ v.height = w.height => v = w
    /\ \A i \in DOMAIN metas : Marked(metas[i]) =>
           Past(accumulator, metas[i].height) /\ streamed[metas[i].height] = 0
    /\ \A i, j \in DOMAIN metas :
           Marked(metas[i]) /\ Marked(metas[j]) /\ metas[i].height = metas[j].height => i = j

\* The validators of the era after the switch block at height s are on their way to the
\* accumulator.
Coming(s) ==
    \/ \E t \in tasks : t.request.height = s /\ t.phase = "executed"
    \/ \E i \in DOMAIN metas :
           metas[i].height = s /\ "updated_validator_matrix" \notin metas[i].state

\* Blocks with enough signatures have been noticed, or their validators are coming.
Noticing ==
    \A h \in KnownIn(eras) :
        \/ Noticed(accumulator.acceptors[h])
        \/ \E s \in switch : EraOf(s) + 1 = EraOf(h) /\ Coming(s)

\* An operation of the accumulator, when these heights are known and these are done.
Advances(a, b, known, done) == AccSound(b, known, done) /\ Steps(a, b, known)

LEMMA AdvancesCompose ==
    ASSUME NEW a, NEW b, NEW c, NEW known, NEW done, a \in Accumulators,
           Advances(a, b, known, done), Advances(b, c, known, done)
    PROVE  Advances(a, c, known, done)
    BY StepsCompose DEF Advances, AccSound, Orderly

-----------------------------------------------------------------------------
(* Flags tell the truth                                                     *)

LEMMA KnownPrimed ==
    ASSUME switch' = switch
    PROVE  KnownIn(eras)' = KnownIn(eras')
    BY DEF KnownIn, EraOf

LEMMA KnownHeights ==
    ASSUME NEW es
    PROVE  KnownIn(es) \in SUBSET Heights
    BY DEF KnownIn

LEMMA KnownMonotone ==
    ASSUME NEW es, NEW fs, es \subseteq fs
    PROVE  KnownIn(es) \subseteq KnownIn(fs)
    BY DEF KnownIn

LEMMA EraNatural ==
    ASSUME switch \subseteq Heights, NEW h
    PROVE  EraOf(h) \in Nat
<1>1. IsFiniteSet(Heights)
    BY HeightAssumption, FS_Interval DEF Heights
<1>2. IsFiniteSet({s \in switch : s < h})
    BY <1>1, FS_Subset
<1> QED
    BY <1>2, FS_CardinalityType DEF EraOf

\* The highest complete block is one of the complete ones.
LEMMA HighestComplete ==
    ASSUME 0 \in complete, complete \subseteq 0 .. MaxHeight
    PROVE  Max(complete) \in complete /\ Max(complete) \in 0 .. MaxHeight
<1>1. complete \in SUBSET Int /\ complete # {} /\ MaxHeight \in Nat
    BY HeightAssumption
<1>2. \A h \in complete : -1 <= h /\ h <= MaxHeight
    BY HeightAssumption
<1>3. Max(complete) \in complete
    BY <1>1, <1>2, MaxIsGreatest
<1> QED
    BY <1>3

\* The accumulator is left alone while more becomes known.
LEMMA Untouched ==
    ASSUME Truth, accumulator' = accumulator, switch' = switch, eras \subseteq eras',
           stored \subseteq stored', executed \subseteq executed'
    PROVE  Advances(accumulator, accumulator', KnownIn(eras)', Done')
<1>1. KnownIn(eras) \in SUBSET Heights /\ KnownIn(eras) \subseteq KnownIn(eras)'
    BY KnownHeights, KnownMonotone, KnownPrimed
<1>2. Done \subseteq Done'
    BY DEF Done
<1> DEFINE known == KnownIn(eras)
           known2 == KnownIn(eras)'
           done == Done
           done2 == Done'
<1>3. AccSound(accumulator, known, done)
    BY DEF Truth
<1> HIDE DEF known, known2, done, done2
<1>4. AccSound(accumulator, known2, done2)
    BY <1>1, <1>2, <1>3, SoundMonotone DEF known, known2, done, done2
<1>5. Steps(accumulator, accumulator, known2)
    BY StepsRefl
<1> QED
    BY <1>4, <1>5 DEF Advances, known2, done2

\* The first two things that the reactor tells the accumulator about a meta block.
LEMMA FirstNews ==
    ASSUME Truth, NEW meta \in MetaBlocks
    PROVE  LET known == KnownIn(ErasAfter(meta))
           IN  /\ Advances(accumulator, WithValidators(meta), known, Done)
               /\ Advances(accumulator, WithOurSignature(meta), known, Done)
               /\ BringsValidators(meta) =>
                      \A h \in known : Noticed(WithOurSignature(meta).acceptors[h])
               /\ BringsValidators(meta) =>
                      \A h \in known : Noticed(WithValidators(meta).acceptors[h])
<1> DEFINE known == KnownIn(ErasAfter(meta))
           done == Done
           a == accumulator
           b == WithValidators(meta)
           c == WithOurSignature(meta)
           brings == BringsValidators(meta)
<1>1. known \in SUBSET Heights /\ KnownIn(eras) \subseteq known /\ KnownIn(eras) \in SUBSET Heights
    BY KnownHeights, KnownMonotone DEF ErasAfter
<1>2. b = IF brings THEN HandleValidators(a, known) ELSE a
    BY DEF WithValidators
<1>3. c = b \/ c = RegisterFinalitySignature(b, meta.height, Us, TRUE, known)
    BY DEF WithOurSignature
<1>4. AccSound(a, known, done)
    BY <1>1, SoundMonotone DEF Truth
<1>5. meta.height \in Heights /\ TRUE \in BOOLEAN /\ Us \in Signers
    BY UsAssumption DEF MetaBlocks
<1> HIDE DEF known, done, a, b, c, brings
<1>6. /\ Advances(a, b, known, done)
      /\ brings => \A h \in known : Noticed(b.acceptors[h])
    <2>1. CASE brings
        BY <1>1, <1>2, <1>4, <2>1, HandleValidatorsSteps DEF Advances
    <2>2. CASE ~brings
        BY <1>2, <1>4, <2>2, StepsRefl DEF Advances
    <2> QED
        BY <2>1, <2>2
<1>7. Advances(b, c, known, done)
    <2>1. AccSound(b, known, done)
        BY <1>6 DEF Advances
    <2>2. CASE c = b
        BY <2>1, <2>2, StepsRefl DEF Advances
    <2>3. CASE c = RegisterFinalitySignature(b, meta.height, Us, TRUE, known)
        BY <1>1, <1>5, <2>1, <2>3, RegisterSignatureSteps DEF Advances
    <2> QED
        BY <1>3, <2>2, <2>3
<1>8. Advances(a, c, known, done)
    <2>1. a \in Accumulators
        BY <1>4 DEF AccSound, Orderly
    <2> QED
        BY <1>6, <1>7, <2>1, AdvancesCompose
<1>9. brings => \A h \in known : Noticed(c.acceptors[h])
    BY <1>6, <1>7 DEF Advances, Steps
<1> QED
    BY <1>6, <1>8, <1>9 DEF known, done, a, b, c, brings

\* The meta block that is handled next.
LEMMA HeadSound ==
    ASSUME Truth, metas # <<>>
    PROVE  /\ Head(metas) \in MetaBlocks /\ 1 \in DOMAIN metas /\ Head(metas) = metas[1]
           /\ MetaSound(Head(metas), stored, executed, complete)
<1>1. metas \in Seq(MetaBlocks)
    BY DEF Truth, TypeOK
<1>2. Head(metas) \in MetaBlocks /\ 1 \in DOMAIN metas /\ Head(metas) = metas[1]
    BY <1>1
<1> QED
    BY <1>2 DEF Truth

\* The flags of a block that was just executed, as the accumulator is told of it.
LEMMA NotifiedFlags ==
    ASSUME NEW meta \in MetaBlocks, meta.state = {"stored", "executed"}
    PROVE  /\ Notified(meta) \in SUBSET Flags
           /\ {"stored", "executed", "accumulator_notified"} \subseteq Notified(meta)
           /\ Notified(meta) \cap {"all_actions_done", "marked_complete", "sufficient_finality"} = {}
    BY DEF Notified, Prepared, Flags

\* handle_meta_block, as the accumulator sees it.
LEMMA MetaBlockMoves ==
    ASSUME Truth, HandleMetaBlock
    PROVE  /\ Advances(accumulator, accumulator', KnownIn(eras)', Done')
           /\ BringsValidators(Head(metas)) =>
                  \A h \in KnownIn(eras)' : Noticed(accumulator'.acceptors[h])
<1> DEFINE meta == Head(metas)
           known == KnownIn(ErasAfter(meta))
           a == accumulator
           b == WithValidators(meta)
           c == WithOurSignature(meta)
           d == accumulator'
           done == Done
           brings == BringsValidators(meta)
<1>1. metas # <<>> /\ switch' = switch /\ eras' = ErasAfter(meta) /\ stored' = stored
      /\ executed' = executed
    BY DEF HandleMetaBlock, storageVars
<1>2. KnownIn(eras)' = known /\ Done' = done
    BY <1>1, KnownPrimed DEF Done
<1>3. /\ meta \in MetaBlocks /\ MetaSound(meta, stored, executed, complete)
      /\ meta.height \in Heights
    BY <1>1, HeadSound DEF MetaBlocks
<1>4. /\ Advances(a, b, known, done) /\ Advances(a, c, known, done)
      /\ brings => \A h \in known : Noticed(c.acceptors[h])
      /\ brings => \A h \in known : Noticed(b.acceptors[h])
    BY <1>3, FirstNews
<1>5. known \in SUBSET Heights
    BY KnownHeights
<1>6. HandleUnexecuted(meta) => d = b
    BY DEF HandleUnexecuted
<1>7. HandleComplete(meta) => d = c
    BY DEF HandleComplete
<1>8. ASSUME HandleExecuted(meta)
      PROVE  /\ Advances(a, d, known, done)
             /\ brings => \A h \in known : Noticed(d.acceptors[h])
    <2>1. meta.state = {"stored", "executed"} /\ meta.height \in done
        BY <1>3, <1>8 DEF MetaSound, CompleteState, HandleExecuted, Done
    <2>2. PICK expired \in SUBSET Heights :
              d = ExecutedBlock(c, meta.height, Notified(meta), known, expired)
        BY <1>8 DEF HandleExecuted
    <2> DEFINE st == Notified(meta)
               e == RegisterBlock(c, meta.height, st, known)
    <2>3. d = RegisterLocalTip(e, meta.height, expired)
        BY <2>2 DEF ExecutedBlock
    <2>4. /\ st \in SUBSET Flags
          /\ {"stored", "executed", "accumulator_notified"} \subseteq st
          /\ st \cap {"all_actions_done", "marked_complete", "sufficient_finality"} = {}
        BY <1>3, <2>1, NotifiedFlags
    <2>5. meta.height \in 0 .. MaxHeight
        BY <1>3 DEF Heights
    <2>6. AccSound(c, known, done) /\ a \in Accumulators
        BY <1>4 DEF Advances, Truth, TypeOK
    <2> HIDE DEF meta, known, a, b, c, d, done, brings, st
    <2>7. Advances(c, e, known, done)
        BY <1>3, <1>5, <2>1, <2>4, <2>6, RegisterBlockSteps DEF Advances
    <2> HIDE DEF e
    <2>8. AccSound(e, known, done)
        BY <2>7 DEF Advances
    <2>9. Advances(e, d, known, done)
        BY <1>5, <2>3, <2>5, <2>8, RegisterLocalTipSteps DEF Advances
    <2>10. c \in Accumulators
        BY <2>6 DEF AccSound, Orderly
    <2>11. Advances(c, d, known, done)
        BY <2>7, <2>9, <2>10, AdvancesCompose
    <2>12. Advances(a, d, known, done)
        BY <1>4, <2>6, <2>11, AdvancesCompose
    <2>13. brings => \A h \in known : Noticed(d.acceptors[h])
        BY <1>4, <2>11 DEF Advances, Steps
    <2> QED
        BY <2>12, <2>13
<1>9. HandleUnexecuted(meta) \/ HandleExecuted(meta) \/ HandleComplete(meta)
    BY DEF HandleMetaBlock
<1> HIDE DEF meta, known, a, b, c, d, done, brings
<1>10. Advances(a, d, known, done) /\ (brings => \A h \in known : Noticed(d.acceptors[h]))
    BY <1>4, <1>6, <1>7, <1>8, <1>9
<1> QED
    BY <1>2, <1>10 DEF meta, known, a, d, done, brings

\* The accumulator moves its tip, to the height of a block that we have.
LEMMA TipMoves ==
    ASSUME Truth, NEW h \in 0 .. MaxHeight, NEW expired,
           accumulator' = RegisterLocalTip(accumulator, h, expired),
           switch' = switch, eras' = eras, stored' = stored, executed' = executed
    PROVE  Advances(accumulator, accumulator', KnownIn(eras)', Done')
<1> DEFINE known == KnownIn(eras)
           done == Done
           a == accumulator
           b == accumulator'
<1>1. KnownIn(eras)' = known /\ Done' = done
    BY KnownPrimed DEF Done
<1>2. known \in SUBSET Heights /\ AccSound(a, known, done) /\ b = RegisterLocalTip(a, h, expired)
    BY KnownHeights DEF Truth
<1> HIDE DEF known, done, a, b
<1>3. Advances(a, b, known, done)
    BY <1>2, RegisterLocalTipSteps DEF Advances
<1> QED
    BY <1>1, <1>3 DEF known, done, a, b

\* The end of a write: the block is stored, or complete.
LEMMA WriteMoves ==
    ASSUME Truth, NEW w \in accumulator.writes, Write(w)
    PROVE  /\ AccSound(accumulator', KnownIn(eras)', Done')
           /\ accumulator'.acceptors = accumulator.acceptors
           /\ accumulator'.local_tip = accumulator.local_tip
           /\ accumulator'.writes = accumulator.writes \ {w}
<1> DEFINE known == KnownIn(eras)
           done == Done
           done2 == Done'
           a == accumulator
           b == accumulator'
<1>1. switch' = switch /\ eras' = eras /\ stored \subseteq stored' /\ executed' = executed
    BY DEF Write
<1>2. KnownIn(eras)' = known /\ done \subseteq done2
    BY <1>1, KnownPrimed DEF Done
<1>3. known \in SUBSET Heights /\ AccSound(a, known, done) /\ b = [a EXCEPT !.writes = a.writes \ {w}]
    BY KnownHeights DEF Truth, Write
<1> HIDE DEF known, done, done2, a, b
<1>4. AccSound(a, known, done2)
    BY <1>2, <1>3, SoundMonotone
<1>5. a \in Accumulators
    BY <1>3 DEF AccSound, Orderly
<1>6. /\ b.acceptors = a.acceptors /\ b.local_tip = a.local_tip /\ b.writes = a.writes \ {w}
      /\ b \in Accumulators
    BY <1>3, <1>5 DEF Accumulators
<1>7. AccSound(b, known, done2)
    BY <1>4, <1>6 DEF AccSound, Orderly
<1> QED
    BY <1>2, <1>6, <1>7 DEF known, done2, a, b

\* Every step but the end of a write is one of the accumulator's operations, or none.
LEMMA AccumulatorMoves ==
    ASSUME Truth, Next
    PROVE  \/ Advances(accumulator, accumulator', KnownIn(eras)', Done')
           \/ \E w \in accumulator.writes : Write(w)
<1> USE DEF runtimeVars, storageVars, consensusVars, reactorVars
<1> DEFINE Claim == Advances(accumulator, accumulator', KnownIn(eras)', Done')
<1>1. CASE \/ \E h \in Heights : Finalize(h)
           \/ \E r \in requests : EnqueueBlockForExecution(r)
           \/ BlockAcquired \/ SwitchToValidate \/ SwitchToCatchUp
    <2>1. /\ accumulator' = accumulator /\ switch' = switch /\ eras' = eras
          /\ stored \subseteq stored' /\ executed' = executed
        BY <1>1 DEF Finalize, EnqueueBlockForExecution, BlockAcquired, SwitchToValidate,
                    SwitchToCatchUp
    <2> QED
        BY <2>1, Untouched
<1>2. CASE \E t \in tasks : BlockExecuted(t) \/ BlockAbandoned(t) \/ BlockStored(t)
    <2>1. /\ accumulator' = accumulator /\ switch' = switch /\ eras \subseteq eras'
          /\ stored \subseteq stored' /\ executed \subseteq executed'
        BY <1>2 DEF BlockExecuted, BlockAbandoned, BlockStored
    <2> QED
        BY <2>1, Untouched
<1>3. CASE \/ \E h \in Heights : ReceivedBlock(h)
           \/ \E s \in Signatures : ReceivedFinalitySignature(s[1], s[2])
    <2> DEFINE known == KnownIn(eras)
               done == Done
               a == accumulator
               b == accumulator'
               none == {}
               false == FALSE
    <2>1. switch' = switch /\ eras' = eras /\ stored' = stored /\ executed' = executed
        BY <1>3 DEF ReceivedBlock, ReceivedFinalitySignature
    <2>2. KnownIn(eras)' = known /\ Done' = done
        BY <2>1, KnownPrimed DEF Done
    <2>3. known \in SUBSET Heights /\ AccSound(a, known, done)
        BY KnownHeights DEF Truth
    <2>4. \/ \E h \in Heights : b = RegisterBlock(a, h, none, known)
          \/ \E h \in Heights, key \in Signers :
                 b = RegisterFinalitySignature(a, h, key, false, known)
        BY <1>3, SignaturesAssumption DEF ReceivedBlock, ReceivedFinalitySignature
    <2>5. none = {} /\ none \in SUBSET Flags /\ false \in BOOLEAN
        OBVIOUS
    <2> HIDE DEF known, done, a, b, none, false
    <2>6. CASE \E h \in Heights : b = RegisterBlock(a, h, none, known)
        <3>1. PICK h \in Heights : b = RegisterBlock(a, h, none, known)
            BY <2>6
        <3> QED
            BY <2>2, <2>3, <2>5, <3>1, RegisterBlockSteps DEF Advances, known, done, a, b
    <2>7. CASE \E h \in Heights, key \in Signers :
                   b = RegisterFinalitySignature(a, h, key, false, known)
        <3>1. PICK h \in Heights, key \in Signers :
                  b = RegisterFinalitySignature(a, h, key, false, known)
            BY <2>7
        <3> QED
            BY <2>2, <2>3, <2>5, <3>1, RegisterSignatureSteps DEF Advances, known, done, a, b
    <2> QED
        BY <2>4, <2>6, <2>7
<1>4. CASE HandleMetaBlock
    BY <1>4, MetaBlockMoves
<1>5. CASE CrankKeepUp \/ CrankValidate \/ SwitchToKeepUp
    <2>1. Max(complete) \in 0 .. MaxHeight /\ builder.height \in 0 .. MaxHeight
        BY HighestComplete DEF Truth, TypeOK
    <2>2. SyncHeight \in 0 .. MaxHeight
        BY <2>1 DEF SyncHeight
    <2>3. switch' = switch /\ eras' = eras /\ stored' = stored /\ executed' = executed
        BY <1>5 DEF CrankKeepUp, CrankValidate, SwitchToKeepUp
    <2>4. PICK h \in 0 .. MaxHeight, expired \in SUBSET Heights :
              accumulator' = RegisterLocalTip(accumulator, h, expired)
        <3>1. CASE CrankKeepUp
            BY <2>2, <3>1 DEF CrankKeepUp
        <3>2. CASE CrankValidate
            BY <2>1, <3>2 DEF CrankValidate
        <3>3. CASE SwitchToKeepUp
            BY <2>1, <3>3 DEF SwitchToKeepUp
        <3> QED
            BY <1>5, <3>1, <3>2, <3>3
    <2> QED
        BY <2>3, <2>4, TipMoves
<1> QED
    BY <1>1, <1>2, <1>3, <1>4, <1>5 DEF Next

\* The entries of a longer and of a shorter queue.
LEMMA AppendEntries ==
    ASSUME NEW S, NEW s \in Seq(S), NEW e \in S
    PROVE  /\ Append(s, e) \in Seq(S)
           /\ \A i \in DOMAIN s : i \in DOMAIN Append(s, e) /\ Append(s, e)[i] = s[i]
           /\ \A i \in DOMAIN Append(s, e) :
                  i \in DOMAIN s \/ (i = Len(s) + 1 /\ Append(s, e)[i] = e)
           /\ Len(s) + 1 \in DOMAIN Append(s, e) /\ Append(s, e)[Len(s) + 1] = e
           /\ Len(s) + 1 \notin DOMAIN s
<1>1. /\ Append(s, e) \in Seq(S) /\ Len(s) \in Nat
      /\ DOMAIN s = 1 .. Len(s) /\ DOMAIN Append(s, e) = 1 .. Len(s) + 1
    OBVIOUS
<1>2. /\ \A i \in 1 .. Len(s) : Append(s, e)[i] = s[i]
      /\ Append(s, e)[Len(s) + 1] = e
    OBVIOUS
<1> DEFINE t == Append(s, e)
           n == Len(s)
<1> HIDE DEF t, n
<1>3. /\ \A i \in 1 .. n : i \in 1 .. n + 1
      /\ \A i \in 1 .. n + 1 : i \in 1 .. n \/ i = n + 1
      /\ n + 1 \in 1 .. n + 1 /\ n + 1 \notin 1 .. n
    BY <1>1 DEF n
<1> QED
    BY <1>1, <1>2, <1>3 DEF t, n

LEMMA TailEntries ==
    ASSUME NEW S, NEW s \in Seq(S), s # <<>>
    PROVE  /\ Tail(s) \in Seq(S)
           /\ \A i \in DOMAIN Tail(s) : i \in Nat /\ i + 1 \in DOMAIN s /\ i + 1 # 1
                                        /\ Tail(s)[i] = s[i + 1]
           /\ \A i \in DOMAIN s : i # 1 =>
                  i \in Nat /\ i - 1 \in DOMAIN Tail(s) /\ Tail(s)[i - 1] = s[i]
<1>1. /\ Tail(s) \in Seq(S) /\ Len(s) \in Nat /\ Len(s) # 0 /\ Len(Tail(s)) = Len(s) - 1
      /\ DOMAIN s = 1 .. Len(s) /\ DOMAIN Tail(s) = 1 .. Len(s) - 1
    OBVIOUS
<1>2. \A i \in 1 .. Len(s) - 1 : Tail(s)[i] = s[i + 1]
    OBVIOUS
<1>3. \A i \in 1 .. Len(s) : i # 1 => i - 1 \in 1 .. Len(s) - 1 /\ (i - 1) + 1 = i
    BY <1>1
<1>4. \A i \in 1 .. Len(s) : i # 1 => Tail(s)[i - 1] = s[i]
    BY <1>2, <1>3
<1> QED
    BY <1>1, <1>2, <1>3, <1>4

\* What TypeOK says of the parts other than the accumulator.
TypeRest ==
    /\ next \in 1 .. MaxHeight + 1
    /\ requests \subseteq MetaBlocks /\ queue \subseteq MetaBlocks
    /\ tasks \subseteq [request : MetaBlocks, phase : {"executing", "executed"}]
    /\ metas \in Seq(MetaBlocks)
    /\ eras \subseteq Nat
    /\ builder \in [height : 0 .. MaxHeight, phase : {"idle", "acquiring", "executing", "synced"}]
    /\ stored \subseteq 0 .. MaxHeight /\ executed \subseteq 0 .. MaxHeight
    /\ complete \subseteq 0 .. MaxHeight
    /\ finalized \subseteq Heights /\ added \subseteq Heights /\ switch \subseteq Heights
    /\ streamed \in [Heights -> Nat]
    /\ mode \in {"KeepUp", "Validate", "CatchUp"}
    /\ force_catchup \in BOOLEAN /\ consensus \in BOOLEAN /\ catchUps \in 0 .. MaxCatchUps

\* What Truth says of them.
SoundRest ==
    /\ \A i \in DOMAIN metas : MetaSound(metas[i], stored, executed, complete)
    /\ \A r \in Asked : RequestSound(r, stored)
    /\ 0 \in complete /\ complete \subseteq Done
    /\ added \subseteq stored
    /\ builder.phase = "acquiring" => builder.height \in Heights

LEMMA TruthParts ==
    Truth <=> TypeRest /\ SoundRest /\ AccSound(accumulator, KnownIn(eras), Done)
<1>1. AccSound(accumulator, KnownIn(eras), Done) => accumulator \in Accumulators
    BY DEF AccSound, Orderly
<1>2. TypeOK <=> accumulator \in Accumulators /\ TypeRest
    BY DEF TypeOK, TypeRest
<1> QED
    BY <1>1, <1>2 DEF Truth, SoundRest

LEMMA TruthInit ==
    ASSUME Init
    PROVE  Truth
<1>1. /\ accumulator.acceptors = [h \in Heights |-> NewAcceptor] /\ accumulator.writes = {}
      /\ accumulator \in Accumulators
    <2>1. NewAcceptor \in Acceptor
        BY DEF NewAcceptor, Acceptor
    <2> DEFINE f == [h \in Heights |-> NewAcceptor]
    <2>2. f \in [Heights -> Acceptor] /\ 0 \in 0 .. MaxHeight
        BY <2>1, HeightAssumption
    <2>3. accumulator = [acceptors |-> f, children |-> {}, local_tip |-> 0, writes |-> {}]
        BY DEF Init
    <2> HIDE DEF f
    <2>4. accumulator.acceptors = f /\ accumulator.writes = {} /\ accumulator \in Accumulators
        BY <2>2, <2>3 DEF Accumulators
    <2> QED
        BY <2>4 DEF f
<1>2. AccSound(accumulator, KnownIn(eras), Done)
    BY <1>1 DEF AccSound, Orderly, AcceptorSound, Settled, HasSufficientFinality, NewAcceptor
<1>3. TypeRest
    <2>1. /\ next = 1 /\ queue = {} /\ requests = {} /\ tasks = {} /\ metas = <<>> /\ eras = {0}
          /\ builder = NoBuilder /\ stored = {0} /\ executed = {0} /\ complete = {0}
          /\ finalized = {} /\ added = {} /\ mode \in {"CatchUp", "KeepUp"} /\ catchUps = 0 /\ switch \in SwitchBlocks
        BY DEF Init
    <2>2. force_catchup \in BOOLEAN /\ consensus \in BOOLEAN
        BY Zenon DEF Init
    <2>3. streamed \in [Heights -> Nat]
        BY DEF Init
    <2> QED
        BY <2>1, <2>2, <2>3, HeightAssumption, SwitchAssumption, CatchUpAssumption
        DEF TypeRest, NoBuilder
<1>4. SoundRest
    BY DEF Init, SoundRest, Done, Asked, NoBuilder
<1> QED
    BY <1>2, <1>3, <1>4, TruthParts

\* Each action keeps the types.
LEMMA TypeStep ==
    ASSUME Truth, Next, accumulator' \in Accumulators
    PROVE  TypeRest'
<1> USE DEF runtimeVars, storageVars, consensusVars, reactorVars
<1>0. TypeRest /\ SoundRest
    BY TruthParts
<1>a. /\ Max(complete) \in 0 .. MaxHeight /\ Max(complete) + 1 \in 1 .. MaxHeight + 1
      /\ MaxHeight \in Nat
    BY <1>0, HighestComplete, HeightAssumption DEF TypeRest, SoundRest
<1>1. CASE \E h \in Heights : Finalize(h)
    <2>1. PICK h \in Heights : Finalize(h)
        BY <1>1
    <2>2. Request(h, {}) \in MetaBlocks
        BY DEF Request, MetaBlocks
    <2> QED
        BY <1>0, <2>1, <2>2 DEF Finalize, TypeRest
<1>2. CASE \E r \in requests : EnqueueBlockForExecution(r)
    <2>1. PICK r \in requests : EnqueueBlockForExecution(r)
        BY <1>2
    <2>2. r \in MetaBlocks /\ r.height \in Heights
        BY <1>0 DEF TypeRest, MetaBlocks
    <2>3. Task(r, "executing") \in [request : MetaBlocks, phase : {"executing", "executed"}]
        BY <2>2 DEF Task
    <2> QED
        BY <1>0, <2>1, <2>2, <2>3 DEF EnqueueBlockForExecution, TypeRest
<1>3. CASE \E t \in tasks : BlockExecuted(t) \/ BlockAbandoned(t) \/ BlockStored(t)
    <2>1. PICK t \in tasks : BlockExecuted(t) \/ BlockAbandoned(t) \/ BlockStored(t)
        BY <1>3
    <2>2. /\ t \in [request : MetaBlocks, phase : {"executing", "executed"}]
          /\ t.request \in MetaBlocks /\ t.request.height \in Heights
          /\ t.request.state \subseteq Flags
        BY <1>0 DEF TypeRest, MetaBlocks
    <2>3. t.request.height \in 0 .. MaxHeight /\ t.request.height + 1 \in 1 .. MaxHeight + 1
        BY <1>a, <2>2 DEF Heights
    <2>4. CASE BlockExecuted(t)
        <3>1. Max({next, t.request.height + 1}) \in 1 .. MaxHeight + 1
            <4>1. next \in Int /\ next \in 1 .. MaxHeight + 1 /\ t.request.height + 1 \in Int
                BY <1>0, <2>3 DEF TypeRest
            <4>2. Max({next, t.request.height + 1}) \in {next, t.request.height + 1}
                BY ONLY <4>1, MaxOfTwo, Zenon
            <4> QED
                BY <2>3, <4>1, <4>2
        <3>2. EraOf(t.request.height) + 1 \in Nat
            BY <1>0, EraNatural DEF TypeRest
        <3>3. [t EXCEPT !.phase = "executed"] \in [request : MetaBlocks, phase : {"executing", "executed"}]
            BY <2>2
        <3> QED
            BY <1>0, <2>4, <3>1, <3>2, <3>3 DEF BlockExecuted, TypeRest
    <2>5. CASE BlockAbandoned(t)
        <3>1. force_catchup' \in BOOLEAN
            BY <2>5, Zenon DEF BlockAbandoned
        <3> QED
            BY <1>0, <2>5, <3>1, CatchUpAssumption DEF BlockAbandoned, TypeRest
    <2>6. CASE BlockStored(t)
        <3> DEFINE meta == [height |-> t.request.height,
                            state |-> t.request.state \cup {"stored", "executed"}]
        <3>1. meta \in MetaBlocks
            BY <2>2 DEF MetaBlocks, Flags
        <3>2. metas' = Append(metas, meta)
            BY <2>6 DEF BlockStored
        <3> HIDE DEF meta
        <3>3. metas' \in Seq(MetaBlocks)
            BY <1>0, <3>1, <3>2 DEF TypeRest
        <3> QED
            BY <1>0, <2>3, <2>6, <3>3 DEF BlockStored, TypeRest
    <2> QED
        BY <2>1, <2>4, <2>5, <2>6
<1>4. CASE \/ \E h \in Heights : ReceivedBlock(h)
           \/ \E s \in Signatures : ReceivedFinalitySignature(s[1], s[2])
           \/ CrankValidate
    BY <1>0, <1>4 DEF ReceivedBlock, ReceivedFinalitySignature, CrankValidate, TypeRest
<1>5. CASE \E w \in accumulator.writes : Write(w)
    <2>1. PICK w \in accumulator.writes : Write(w)
        BY <1>5
    <2>2. w.height \in Heights /\ w.state \subseteq Flags
        BY DEF Truth, TypeOK, Accumulators
    <2>3. w.height \in 0 .. MaxHeight
        BY <2>2 DEF Heights
    <2> DEFINE meta == [height |-> w.height, state |-> w.state]
    <2>4. meta \in MetaBlocks
        BY <2>2 DEF MetaBlocks
    <2>5. metas' = Append(metas, meta)
        BY <2>1 DEF Write
    <2> HIDE DEF meta
    <2>6. metas' \in Seq(MetaBlocks)
        BY <1>0, <2>4, <2>5 DEF TypeRest
    <2> QED
        BY <1>0, <2>1, <2>3, <2>6 DEF Write, TypeRest
<1>6. CASE HandleMetaBlock
    <2> DEFINE meta == Head(metas)
    <2>1. /\ meta \in MetaBlocks /\ metas # <<>>
          /\ HandleUnexecuted(meta) \/ HandleExecuted(meta) \/ HandleComplete(meta)
        BY <1>6, HeadSound DEF HandleMetaBlock
    <2>2. meta.height \in Heights
        BY <2>1 DEF MetaBlocks
    <2>3. eras' \subseteq Nat
        <3>1. EraOf(meta.height) + 1 \in Nat
            BY <1>0, EraNatural DEF TypeRest
        <3> QED
            BY <1>0, <1>6, <3>1 DEF HandleMetaBlock, ErasAfter, TypeRest
    <2>4. metas' \in Seq(MetaBlocks)
        BY <1>0, <1>6, TailEntries DEF HandleMetaBlock, TypeRest
    <2> HIDE DEF meta
    <2>5. added' \subseteq Heights
        BY <1>0, <2>1, <2>2 DEF HandleUnexecuted, HandleExecuted, HandleComplete, TypeRest
    <2>6. builder' \in [height : 0 .. MaxHeight, phase : {"idle", "acquiring", "executing", "synced"}]
        BY <1>0, <2>1 DEF HandleUnexecuted, HandleExecuted, HandleComplete, TypeRest
    <2>7. streamed' \in [Heights -> Nat]
        BY <1>0, <2>1, <2>2 DEF HandleUnexecuted, HandleExecuted, HandleComplete, TypeRest
    <2> QED
        BY <1>0, <1>6, <2>3, <2>4, <2>5, <2>6, <2>7 DEF HandleMetaBlock, TypeRest
<1>7. CASE CrankKeepUp
    <2>1. SyncHeight \in 0 .. MaxHeight
        BY <1>0, <1>a DEF SyncHeight, TypeRest
    <2>2. NextSyncable(accumulator', SyncHeight) # {} => SyncHeight + 1 \in Heights
        BY DEF NextSyncable, Accumulators
    <2>3. builder' \in [height : 0 .. MaxHeight, phase : {"idle", "acquiring", "executing", "synced"}]
        <3>1. 0 \in 0 .. MaxHeight /\ \A h \in Heights : h \in 0 .. MaxHeight
            BY <1>a DEF Heights
        <3> QED
            BY <1>0, <1>7, <2>2, <3>1 DEF CrankKeepUp, RegisterBlockByHash, NoBuilder, TypeRest
    <2> QED
        BY <1>0, <1>7, <2>3 DEF CrankKeepUp, TypeRest
<1>8. CASE BlockAcquired
    <2>1. builder.height \in Heights /\ builder.height \in 0 .. MaxHeight
        BY <1>0, <1>8 DEF BlockAcquired, SoundRest, TypeRest
    <2>2. Request(builder.height, {"stored"}) \in MetaBlocks
        BY <2>1 DEF Request, MetaBlocks, Flags
    <2> QED
        BY <1>0, <1>8, <2>1, <2>2 DEF BlockAcquired, TypeRest
<1>9. CASE SwitchToValidate \/ SwitchToKeepUp
    <2>1. next' \in 1 .. MaxHeight + 1 /\ queue' \subseteq MetaBlocks
        BY <1>0, <1>9, <1>a DEF SwitchToValidate, SwitchToKeepUp, RefreshContractRuntime, TypeRest
    <2>2. consensus' \in BOOLEAN
        <3>1. consensus \in BOOLEAN
            BY <1>0 DEF TypeRest
        <3> QED
            BY <1>9, <3>1, Zenon DEF SwitchToValidate, SwitchToKeepUp
    <2> QED
        BY <1>0, <1>9, <2>1, <2>2
        DEF SwitchToValidate, SwitchToKeepUp, RefreshContractRuntime, TypeRest
<1>10. CASE SwitchToCatchUp
    <2>1. force_catchup' \in BOOLEAN
        BY <1>10, Zenon DEF SwitchToCatchUp
    <2>2. NoBuilder \in [height : 0 .. MaxHeight, phase : {"idle", "acquiring", "executing", "synced"}]
        BY <1>a DEF NoBuilder
    <2>3. catchUps' \in 0 .. MaxCatchUps
        BY <1>0, <1>10, CatchUpAssumption DEF SwitchToCatchUp, TypeRest
    <2> QED
        BY <1>0, <1>10, <2>1, <2>2, <2>3 DEF SwitchToCatchUp, TypeRest
<1> QED
    BY <1>1, <1>2, <1>3, <1>4, <1>5, <1>6, <1>7, <1>8, <1>9, <1>10 DEF Next

\* Meta blocks stay sound, and so does the queue when a sound one is appended.
LEMMA MetasSound ==
    ASSUME TypeRest, SoundRest, stored \subseteq stored', executed \subseteq executed',
           complete \subseteq complete',
           \/ metas' = metas
           \/ metas # <<>> /\ metas' = Tail(metas)
           \/ \E meta \in MetaBlocks :
                  metas' = Append(metas, meta) /\ MetaSound(meta, stored', executed', complete')
    PROVE  \A i \in DOMAIN metas' : MetaSound(metas'[i], stored', executed', complete')
<1>1. \A meta : MetaSound(meta, stored, executed, complete)
                    => MetaSound(meta, stored', executed', complete')
    BY DEF MetaSound
<1>2. \A i \in DOMAIN metas : MetaSound(metas[i], stored', executed', complete')
    BY <1>1 DEF SoundRest
<1>3. metas \in Seq(MetaBlocks)
    BY DEF TypeRest
<1>4. CASE metas' = metas
    BY <1>2, <1>4
<1>5. CASE metas # <<>> /\ metas' = Tail(metas)
    BY <1>2, <1>3, <1>5, TailEntries
<1>6. CASE \E meta \in MetaBlocks :
               metas' = Append(metas, meta) /\ MetaSound(meta, stored', executed', complete')
    <2>1. PICK meta \in MetaBlocks :
              metas' = Append(metas, meta) /\ MetaSound(meta, stored', executed', complete')
        BY <1>6
    <2>2. \A i \in DOMAIN metas' : (i \in DOMAIN metas /\ metas'[i] = metas[i]) \/ metas'[i] = meta
        BY <1>3, <2>1, AppendEntries
    <2> QED
        BY <1>2, <2>1, <2>2
<1> QED
    BY <1>4, <1>5, <1>6

\* What Truth says of storage and of the builder.
StorageRest ==
    /\ 0 \in complete /\ complete \subseteq Done
    /\ added \subseteq stored
    /\ builder.phase = "acquiring" => builder.height \in Heights

\* Each action keeps the flags true.
LEMMA SoundStep ==
    ASSUME Truth, Next, accumulator' \in Accumulators, TypeRest'
    PROVE  SoundRest'
<1> USE DEF runtimeVars, storageVars, consensusVars, reactorVars
<1>0. TypeRest /\ SoundRest
    BY TruthParts
<1>a. SUFFICES /\ \A i \in DOMAIN metas' : MetaSound(metas'[i], stored', executed', complete')
               /\ \A r \in Asked' : RequestSound(r, stored')
               /\ StorageRest'
    BY DEF SoundRest, StorageRest
<1>b. StorageRest
    BY <1>0 DEF SoundRest, StorageRest
<1> DEFINE MetasPart == \A i \in DOMAIN metas' : MetaSound(metas'[i], stored', executed', complete')
           AskedPart == \A r \in Asked' : RequestSound(r, stored')
           Goal == MetasPart /\ AskedPart /\ StorageRest'
<1>1. CASE \E h \in Heights : Finalize(h)
    <2>1. PICK h \in Heights : Finalize(h)
        BY <1>1
    <2>2. /\ metas' = metas /\ stored' = stored /\ executed' = executed /\ complete' = complete
          /\ Asked' = Asked \cup {Request(h, {})}
        BY <2>1 DEF Finalize, Asked
    <2>3. RequestSound(Request(h, {}), stored')
        BY DEF RequestSound, Request
    <2>4. AskedPart
        BY <1>0, <2>2, <2>3 DEF SoundRest
    <2>5. MetasPart
        BY <1>0, <2>2, MetasSound
    <2>6. StorageRest'
        BY <1>b, <2>1 DEF Finalize, StorageRest, Done
    <2> QED
        BY <2>4, <2>5, <2>6
<1>2. CASE \E r \in requests : EnqueueBlockForExecution(r)
    <2>1. PICK r \in requests : EnqueueBlockForExecution(r)
        BY <1>2
    <2>2. metas' = metas /\ stored' = stored /\ executed' = executed /\ complete' = complete
        BY <2>1 DEF EnqueueBlockForExecution
    <2>3. Asked' \subseteq Asked
        BY <2>1 DEF EnqueueBlockForExecution, Asked, Task
    <2>4. AskedPart
        BY <1>0, <2>2, <2>3 DEF SoundRest
    <2>5. MetasPart
        BY <1>0, <2>2, MetasSound
    <2>6. StorageRest'
        BY <1>b, <2>1 DEF EnqueueBlockForExecution, StorageRest, Done
    <2> QED
        BY <2>4, <2>5, <2>6
<1>3. CASE \E t \in tasks : BlockExecuted(t) \/ BlockAbandoned(t) \/ BlockStored(t)
    <2>1. PICK t \in tasks : BlockExecuted(t) \/ BlockAbandoned(t) \/ BlockStored(t)
        BY <1>3
    <2>2. /\ t \in [request : MetaBlocks, phase : {"executing", "executed"}]
          /\ t.request.height \in Heights /\ t.request.state \subseteq Flags
          /\ t.request \in Asked
        BY <1>0 DEF TypeRest, MetaBlocks, Asked
    <2>3. RequestSound(t.request, stored)
        BY <1>0, <2>2 DEF SoundRest
    <2>4. CASE BlockExecuted(t) \/ BlockAbandoned(t)
        <3>1. metas' = metas /\ stored' = stored /\ executed' = executed /\ complete' = complete
            BY <2>4 DEF BlockExecuted, BlockAbandoned
        <3>2. Asked' \subseteq Asked
            BY <2>2, <2>4 DEF BlockExecuted, BlockAbandoned, Asked
        <3>3. AskedPart
            BY <1>0, <3>1, <3>2 DEF SoundRest
        <3>4. MetasPart
            BY <1>0, <3>1, MetasSound
        <3>5. StorageRest'
            BY <1>b, <2>4 DEF BlockExecuted, BlockAbandoned, StorageRest, Done
        <3> QED
            BY <3>3, <3>4, <3>5
    <2>5. CASE BlockStored(t)
        <3> DEFINE meta == [height |-> t.request.height,
                            state |-> t.request.state \cup {"stored", "executed"}]
        <3>1. metas' = Append(metas, meta) /\ meta \in MetaBlocks
            BY <2>2, <2>5 DEF BlockStored, MetaBlocks, Flags
        <3>2. /\ stored \subseteq stored' /\ executed \subseteq executed' /\ complete' = complete
              /\ t.request.height \in stored' /\ t.request.height \in executed'
            BY <2>3, <2>5 DEF BlockStored, RequestSound
        <3>3. MetaSound(meta, stored', executed', complete')
            <4>1. meta.state = {"stored", "executed"} /\ meta.height = t.request.height
                BY <2>3 DEF RequestSound
            <4> QED
                BY <3>2, <4>1 DEF MetaSound
        <3> HIDE DEF meta
        <3>4. MetasPart
            BY <1>0, <3>1, <3>2, <3>3, MetasSound
        <3>5. Asked' \subseteq Asked
            BY <2>5 DEF BlockStored, Asked
        <3>6. AskedPart
            BY <1>0, <3>2, <3>5 DEF SoundRest, RequestSound
        <3>7. StorageRest'
            BY <1>b, <2>5, <3>2 DEF BlockStored, StorageRest, Done
        <3> QED
            BY <3>4, <3>6, <3>7
    <2> QED
        BY <2>1, <2>4, <2>5
<1>4. CASE \/ \E h \in Heights : ReceivedBlock(h)
           \/ \E s \in Signatures : ReceivedFinalitySignature(s[1], s[2])
           \/ CrankValidate
    <2>1. /\ metas' = metas /\ stored' = stored /\ executed' = executed /\ complete' = complete
          /\ requests' = requests /\ queue' = queue /\ tasks' = tasks /\ added' = added
          /\ builder' = builder
        BY <1>4 DEF ReceivedBlock, ReceivedFinalitySignature, CrankValidate
    <2> QED
        BY <1>0, <1>b, <2>1 DEF SoundRest, StorageRest, Asked, Done
<1>5. CASE \E w \in accumulator.writes : Write(w)
    <2>1. PICK w \in accumulator.writes : Write(w)
        BY <1>5
    <2>2. WriteSound(w, Done) /\ w.height \in Heights /\ w.state \subseteq Flags
          /\ w.op \in {"block", "complete"}
        BY DEF Truth, AccSound, Orderly, Accumulators
    <2> DEFINE meta == [height |-> w.height, state |-> w.state]
    <2>3. metas' = Append(metas, meta) /\ meta \in MetaBlocks
        BY <2>1, <2>2 DEF Write, MetaBlocks
    <2>4. /\ stored \subseteq stored' /\ executed' = executed /\ complete \subseteq complete'
          /\ w.op = "block" => w.height \in stored'
          /\ w.op = "complete" => w.height \in complete'
        BY <2>1 DEF Write
    <2>5. MetaSound(meta, stored', executed', complete')
        <3>1. meta.state = w.state /\ meta.height = w.height
            OBVIOUS
        <3> HIDE DEF meta
        <3> QED
            BY <2>2, <2>4, <3>1 DEF MetaSound, WriteSound, CompleteState, Done
    <2> HIDE DEF meta
    <2>6. MetasPart
        BY <1>0, <2>3, <2>4, <2>5, MetasSound
    <2>7. AskedPart
        BY <1>0, <2>1, <2>4 DEF Write, Asked, SoundRest, RequestSound
    <2>8. StorageRest'
        BY <1>b, <2>1, <2>2, <2>4 DEF Write, StorageRest, Done, WriteSound
    <2> QED
        BY <2>6, <2>7, <2>8
<1>6. CASE HandleMetaBlock
    <2> DEFINE meta == Head(metas)
    <2>1. /\ MetaSound(meta, stored, executed, complete) /\ metas # <<>> /\ metas' = Tail(metas)
          /\ HandleUnexecuted(meta) \/ HandleExecuted(meta) \/ HandleComplete(meta)
        BY <1>6, HeadSound DEF HandleMetaBlock
    <2>2. /\ stored' = stored /\ executed' = executed /\ complete' = complete
          /\ requests' = requests /\ queue' = queue /\ tasks' = tasks
        BY <1>6 DEF HandleMetaBlock
    <2>3. MetasPart
        BY <1>0, <2>1, <2>2, MetasSound
    <2>4. AskedPart
        BY <1>0, <2>2 DEF SoundRest, Asked
    <2>5. builder.phase # "acquiring" => builder'.phase # "acquiring"
        <3> HIDE DEF meta
        <3> QED
            BY <1>0, <2>1 DEF HandleUnexecuted, HandleExecuted, HandleComplete, TypeRest
    <2>6. builder'.height = builder.height
        <3> HIDE DEF meta
        <3> QED
            BY <1>0, <2>1 DEF HandleUnexecuted, HandleExecuted, HandleComplete, TypeRest
    <2>7. added' \subseteq added \cup {meta.height}
        <3> HIDE DEF meta
        <3> QED
            BY <2>1 DEF HandleUnexecuted, HandleExecuted, HandleComplete
    <2>8. StorageRest'
        <3> HIDE DEF meta
        <3> QED
            BY <1>b, <2>1, <2>2, <2>5, <2>6, <2>7 DEF StorageRest, Done, MetaSound
    <2> QED
        BY <2>3, <2>4, <2>8
<1>7. CASE CrankKeepUp
    <2>1. NextSyncable(accumulator', SyncHeight) # {} => SyncHeight + 1 \in Heights
        BY DEF NextSyncable, Accumulators
    <2>2. builder'.phase = "acquiring" => builder'.height \in Heights
        BY <1>7, <2>1 DEF CrankKeepUp, RegisterBlockByHash, NoBuilder
    <2> QED
        BY <1>0, <1>7, <1>b, <2>2 DEF CrankKeepUp, SoundRest, StorageRest, Asked, Done
<1>8. CASE BlockAcquired
    <2>1. /\ metas' = metas /\ executed' = executed /\ complete' = complete
          /\ stored \subseteq stored' /\ builder.height \in stored'
          /\ Asked' = Asked \cup {Request(builder.height, {"stored"})}
        BY <1>8 DEF BlockAcquired, Asked
    <2>2. RequestSound(Request(builder.height, {"stored"}), stored')
        BY <2>1 DEF RequestSound, Request
    <2>3. AskedPart
        BY <1>0, <2>1, <2>2 DEF SoundRest, RequestSound
    <2>4. MetasPart
        BY <1>0, <2>1, MetasSound
    <2>5. builder'.phase # "acquiring"
        BY <1>0, <1>8 DEF BlockAcquired, TypeRest
    <2>6. StorageRest'
        BY <1>8, <1>b, <2>1, <2>5 DEF BlockAcquired, StorageRest, Done
    <2> QED
        BY <2>3, <2>4, <2>6
<1>9. CASE SwitchToValidate \/ SwitchToKeepUp
    <2>1. /\ metas' = metas /\ stored' = stored /\ executed' = executed /\ complete' = complete
          /\ requests' = requests /\ queue' \subseteq queue /\ tasks' = tasks /\ added' = added
          /\ builder' = builder
        BY <1>9 DEF SwitchToValidate, SwitchToKeepUp, RefreshContractRuntime
    <2> QED
        BY <1>0, <1>b, <2>1 DEF SoundRest, StorageRest, Asked, Done
<1>10. CASE SwitchToCatchUp
    <2>1. builder'.phase # "acquiring"
        BY <1>10 DEF SwitchToCatchUp, NoBuilder
    <2> QED
        BY <1>0, <1>10, <1>b, <2>1 DEF SwitchToCatchUp, SoundRest, StorageRest, Asked, Done
<1> QED
    BY <1>1, <1>2, <1>3, <1>4, <1>5, <1>6, <1>7, <1>8, <1>9, <1>10 DEF Next

LEMMA TruthStep ==
    ASSUME Truth, [Next]_vars
    PROVE  Truth'
<1>1. CASE Next
    <2>1. AccSound(accumulator', KnownIn(eras)', Done')
        BY <1>1, AccumulatorMoves, WriteMoves DEF Advances
    <2>2. accumulator' \in Accumulators
        BY <2>1 DEF AccSound, Orderly
    <2>3. TypeRest'
        BY <1>1, <2>2, TypeStep
    <2>4. SoundRest'
        BY <1>1, <2>2, <2>3, SoundStep
    <2>5. AccSound(accumulator, KnownIn(eras), Done)'
        BY <2>1
    <2> QED
        BY <2>3, <2>4, <2>5, TruthParts, PTL
<1>2. CASE UNCHANGED vars
    BY <1>2 DEF vars, runtimeVars, storageVars, consensusVars, reactorVars, Truth, TypeOK, Asked,
                Done, KnownIn, EraOf
<1> QED
    BY <1>1, <1>2

\* The whole state has its type, for every number of heights, validators and fallbacks.
THEOREM TypeCorrect == Spec => []TypeOK
<1>1. Init => Truth
    BY TruthInit
<1>2. Truth /\ [Next]_vars => Truth'
    BY TruthStep
<1>3. Truth => TypeOK
    BY DEF Truth
<1> QED
    BY <1>1, <1>2, <1>3, PTL DEF Spec

\* Meta blocks and requests say what has been done, and none of them stops the node in
\* handle_meta_block.
THEOREM MetaBlocksTruthfulHolds == Spec => []MetaBlocksTruthful
<1>1. Init => Truth
    BY TruthInit
<1>2. Truth /\ [Next]_vars => Truth'
    BY TruthStep
<1>3. Truth => MetaBlocksTruthful
    <2> SUFFICES ASSUME Truth PROVE MetaBlocksTruthful
        OBVIOUS
    <2>1. ASSUME NEW i \in DOMAIN metas
          PROVE  LET meta == metas[i]
                 IN  /\ "stored" \in meta.state /\ meta.height \in stored
                     /\ "executed" \in meta.state => meta.height \in executed
                     /\ "marked_complete" \in meta.state => meta.height \in complete
                     /\ {"executed", "accumulator_notified"} \subseteq meta.state
                            => /\ VerifyComplete(Notified(meta)
                                                     \cup {"gossiped", "synchronizer_notified"})
                               /\ "all_actions_done" \notin meta.state
        <3> DEFINE meta == metas[i]
        <3>1. MetaSound(meta, stored, executed, complete)
            BY DEF Truth
        <3> HIDE DEF meta
        <3>2. /\ "stored" \in meta.state /\ meta.height \in stored
              /\ "executed" \in meta.state => meta.height \in executed
              /\ "marked_complete" \in meta.state => meta.height \in complete
            BY <3>1 DEF MetaSound, CompleteState
        <3>3. ASSUME {"executed", "accumulator_notified"} \subseteq meta.state
              PROVE  /\ VerifyComplete(Notified(meta) \cup {"gossiped", "synchronizer_notified"})
                     /\ "all_actions_done" \notin meta.state
            <4>1. CompleteState(meta.state)
                BY <3>1, <3>3 DEF MetaSound
            <4> QED
                BY <4>1 DEF CompleteState, VerifyComplete, Notified, Prepared, Flags
        <3> QED
            BY <3>2, <3>3 DEF meta
    <2>2. \A r \in Asked : "stored" \in r.state => r.height \in stored
        BY DEF Truth, RequestSound
    <2> QED
        BY <2>1, <2>2 DEF MetaBlocksTruthful, Asked
<1> QED
    BY <1>1, <1>2, <1>3, PTL DEF Spec

-----------------------------------------------------------------------------
(* Blocks are executed in order                                             *)

\* Execution that has ended stays so: the results are stored, or the task is there.
LEMMA EndedStays ==
    ASSUME Truth, Next, NEW h, ExecutionEnded(h)
    PROVE  ExecutionEnded(h)'
<1> USE DEF runtimeVars, storageVars, consensusVars, reactorVars
<1>0. tasks \subseteq [request : MetaBlocks, phase : {"executing", "executed"}]
    BY DEF Truth, TypeOK
<1>1. CASE \E t \in tasks : BlockExecuted(t) \/ BlockAbandoned(t) \/ BlockStored(t)
    BY <1>0, <1>1 DEF BlockExecuted, BlockAbandoned, BlockStored, ExecutionEnded
<1>2. CASE executed' = executed /\ tasks \subseteq tasks'
    BY <1>2 DEF ExecutionEnded
<1>3. CASE \/ \E k \in Heights : Finalize(k)
           \/ \E r \in requests : EnqueueBlockForExecution(r)
           \/ \E k \in Heights : ReceivedBlock(k)
           \/ \E s \in Signatures : ReceivedFinalitySignature(s[1], s[2])
    BY <1>2, <1>3 DEF Finalize, EnqueueBlockForExecution, ReceivedBlock, ReceivedFinalitySignature
<1>4. CASE \/ \E w \in accumulator.writes : Write(w)
           \/ HandleMetaBlock
           \/ CrankKeepUp \/ BlockAcquired
           \/ SwitchToValidate \/ CrankValidate \/ SwitchToCatchUp \/ SwitchToKeepUp
    BY <1>2, <1>4 DEF Write, HandleMetaBlock, CrankKeepUp, BlockAcquired, SwitchToValidate,
                      CrankValidate, SwitchToCatchUp, SwitchToKeepUp, RefreshContractRuntime
<1> QED
    BY <1>1, <1>3, <1>4 DEF Next

\* What each step does to the next height.
LEMMA NextEnded ==
    ASSUME Truth, Next, ExecutionEnded(next - 1)
    PROVE  ExecutionEnded(next - 1)'
<1> USE DEF runtimeVars, storageVars, consensusVars, reactorVars
<1>0. /\ TypeRest /\ SoundRest
      /\ tasks \subseteq [request : MetaBlocks, phase : {"executing", "executed"}]
    BY TruthParts DEF TypeRest
<1>1. CASE next' = next
    BY <1>1, EndedStays
<1>2. CASE \E t \in tasks : BlockExecuted(t)
    <2>1. PICK t \in tasks : BlockExecuted(t)
        BY <1>2
    <2>2. /\ t \in [request : MetaBlocks, phase : {"executing", "executed"}]
          /\ t.request.height \in Nat /\ next \in Nat
        BY <1>0, HeightAssumption DEF TypeRest, MetaBlocks, Heights
    <2>3. next' \in {next, t.request.height + 1}
        <3>1. next' = Max({next, t.request.height + 1}) /\ next \in Int /\ t.request.height + 1 \in Int
            BY <2>1, <2>2 DEF BlockExecuted
        <3>2. Max({next, t.request.height + 1}) \in {next, t.request.height + 1}
            BY ONLY <3>1, MaxOfTwo, Zenon
        <3> QED
            BY <3>1, <3>2
    <2>4. [t EXCEPT !.phase = "executed"] \in tasks'
        BY <2>1 DEF BlockExecuted
    <2>5. ExecutionEnded(t.request.height)'
        BY <2>2, <2>4 DEF ExecutionEnded
    <2> QED
        BY <1>1, <2>2, <2>3, <2>5
<1>3. CASE SwitchToValidate \/ SwitchToKeepUp
    <2>1. next' = Max(complete) + 1 /\ executed' = executed
        BY <1>3 DEF SwitchToValidate, SwitchToKeepUp, RefreshContractRuntime
    <2>2. Max(complete) \in executed /\ Max(complete) \in 0 .. MaxHeight
        BY <1>0, HighestComplete DEF TypeRest, SoundRest, Done
    <2>3. (next - 1)' = Max(complete)
        BY <2>1, <2>2
    <2> QED
        BY <2>1, <2>2, <2>3 DEF ExecutionEnded
<1>4. CASE \/ \E t \in tasks : BlockAbandoned(t) \/ BlockStored(t)
           \/ \E h \in Heights : Finalize(h)
           \/ \E r \in requests : EnqueueBlockForExecution(r)
           \/ \E h \in Heights : ReceivedBlock(h)
           \/ \E s \in Signatures : ReceivedFinalitySignature(s[1], s[2])
    BY <1>1, <1>4 DEF Finalize, EnqueueBlockForExecution, ReceivedBlock,
                      ReceivedFinalitySignature, BlockAbandoned, BlockStored
<1>5. CASE \/ \E w \in accumulator.writes : Write(w)
           \/ HandleMetaBlock
           \/ CrankKeepUp \/ BlockAcquired \/ CrankValidate \/ SwitchToCatchUp
    BY <1>1, <1>5 DEF Write, HandleMetaBlock, CrankKeepUp, BlockAcquired, CrankValidate,
                      SwitchToCatchUp
<1> QED
    BY <1>2, <1>3, <1>4, <1>5 DEF Next

\* A task starts at the next height only.
LEMMA TasksEnded ==
    ASSUME Truth, Next, ExecutionEnded(next - 1),
           \A t \in tasks : ExecutionEnded(t.request.height - 1)
    PROVE  \A t \in tasks' : ExecutionEnded(t.request.height - 1)'
<1> USE DEF runtimeVars, storageVars, consensusVars, reactorVars
<1>1. ASSUME NEW t \in tasks'
      PROVE  \/ \E u \in tasks : u.request = t.request
             \/ t.request.height = next
    <2>1. CASE \E u \in tasks : BlockExecuted(u) \/ BlockAbandoned(u) \/ BlockStored(u)
        <3>1. tasks \subseteq [request : MetaBlocks, phase : {"executing", "executed"}]
            BY DEF Truth, TypeOK
        <3> QED
            BY <2>1, <3>1 DEF BlockExecuted, BlockAbandoned, BlockStored
    <2>2. CASE \E r \in requests : EnqueueBlockForExecution(r)
        BY <2>2 DEF EnqueueBlockForExecution, Task
    <2>3. CASE \/ \E h \in Heights : Finalize(h)
               \/ \E h \in Heights : ReceivedBlock(h)
               \/ \E s \in Signatures : ReceivedFinalitySignature(s[1], s[2])
        BY <2>3 DEF Finalize, ReceivedBlock, ReceivedFinalitySignature
    <2>4. CASE \/ \E w \in accumulator.writes : Write(w)
               \/ HandleMetaBlock
               \/ CrankKeepUp \/ BlockAcquired
               \/ SwitchToValidate \/ CrankValidate \/ SwitchToCatchUp \/ SwitchToKeepUp
        BY <2>4 DEF Write, HandleMetaBlock, CrankKeepUp, BlockAcquired, SwitchToValidate,
                    CrankValidate, SwitchToCatchUp, SwitchToKeepUp, RefreshContractRuntime
    <2> QED
        BY <2>1, <2>2, <2>3, <2>4 DEF Next
<1>2. ASSUME NEW t \in tasks' PROVE ExecutionEnded(t.request.height - 1)'
    <2>1. ExecutionEnded(t.request.height - 1)
        BY <1>1
    <2> QED
        BY <2>1, EndedStays
<1> QED
    BY <1>2

\* Blocks are asked for, executed and acquired when the eras before theirs are stored.
LEMMA ErasStep ==
    ASSUME Truth, Order, Next
    PROVE  /\ \A r \in Asked' : ErasStored(r.height, stored)'
           /\ \A h \in executed' : ErasStored(h, stored)'
           /\ ErasStored(builder.height, stored)'
           /\ builder'.phase # "acquiring" => builder'.height \in stored'
<1> USE DEF runtimeVars, storageVars, consensusVars, reactorVars
<1>0. /\ TypeRest /\ SoundRest
      /\ tasks \subseteq [request : MetaBlocks, phase : {"executing", "executed"}]
      /\ builder \in [height : 0 .. MaxHeight, phase : {"idle", "acquiring", "executing", "synced"}]
    BY TruthParts DEF TypeRest
<1>a. /\ \A r \in Asked : ErasStored(r.height, stored)
      /\ \A h \in executed : ErasStored(h, stored)
      /\ ErasStored(builder.height, stored)
      /\ builder.phase # "acquiring" => builder.height \in stored
    BY DEF Order
<1> DEFINE Goal == /\ \A r \in Asked' : ErasStored(r.height, stored)'
                   /\ \A h \in executed' : ErasStored(h, stored)'
                   /\ ErasStored(builder.height, stored)'
                   /\ builder'.phase # "acquiring" => builder'.height \in stored'
<1>b. ASSUME switch' = switch, stored \subseteq stored', NEW h, ErasStored(h, stored)
      PROVE  ErasStored(h, stored)'
    BY <1>b DEF ErasStored
<1>c. ASSUME switch' = switch, stored \subseteq stored',
             \A r \in Asked' : r \in Asked \/ ErasStored(r.height, stored),
             \A h \in executed' : h \in executed \/ ErasStored(h, stored),
             builder'.height = builder.height \/ ErasStored(builder.height', stored),
             builder'.phase # "acquiring" => builder'.height \in stored'
      PROVE  Goal
    <2>1. \A r \in Asked' : ErasStored(r.height, stored)
        BY <1>a, <1>c
    <2>2. \A h \in executed' : ErasStored(h, stored)
        BY <1>a, <1>c
    <2>3. ErasStored(builder.height', stored)
        BY <1>a, <1>c
    <2>4. \A s \in switch : s < builder'.height => s \in stored
        BY <2>3 DEF ErasStored
    <2>5. ErasStored(builder.height, stored)'
        BY <1>c, <2>4 DEF ErasStored
    <2>6. \A r \in Asked' : ErasStored(r.height, stored)'
        BY <1>b, <1>c, <2>1
    <2>7. \A h \in executed' : ErasStored(h, stored)'
        BY <1>b, <1>c, <2>2
    <2> QED
        BY <1>c, <2>5, <2>6, <2>7
<1>1. CASE \E h \in Heights : Finalize(h)
    <2>1. PICK h \in Heights : Finalize(h)
        BY <1>1
    <2>2. /\ switch' = switch /\ stored' = stored /\ executed' = executed /\ builder' = builder
          /\ Asked' = Asked \cup {Request(h, {})}
        BY <2>1 DEF Finalize, Asked
    <2>3. ErasStored(h, stored) /\ Request(h, {}).height = h
        BY <1>0, <2>1 DEF Finalize, ErasStored, SoundRest, Request
    <2> QED
        BY <1>a, <1>c, <2>2, <2>3
<1>2. CASE \E r \in requests : EnqueueBlockForExecution(r)
    <2>1. PICK r \in requests : EnqueueBlockForExecution(r)
        BY <1>2
    <2>2. switch' = switch /\ stored' = stored /\ executed' = executed /\ builder' = builder
        BY <2>1 DEF EnqueueBlockForExecution
    <2>3. Asked' \subseteq Asked
        BY <2>1 DEF EnqueueBlockForExecution, Asked, Task
    <2> QED
        BY <1>a, <1>c, <2>2, <2>3
<1>3. CASE \E t \in tasks : BlockExecuted(t) \/ BlockAbandoned(t) \/ BlockStored(t)
    <2>1. PICK t \in tasks : BlockExecuted(t) \/ BlockAbandoned(t) \/ BlockStored(t)
        BY <1>3
    <2>2. /\ t \in [request : MetaBlocks, phase : {"executing", "executed"}]
          /\ t.request \in Asked
        BY <1>0 DEF Asked
    <2>3. /\ switch' = switch /\ stored \subseteq stored' /\ builder' = builder
          /\ executed' \subseteq executed \cup {t.request.height}
        BY <2>1 DEF BlockExecuted, BlockAbandoned, BlockStored
    <2>4. Asked' \subseteq Asked
        <3>1. {u.request : u \in tasks'} \subseteq {u.request : u \in tasks}
            BY <2>1, <2>2 DEF BlockExecuted, BlockAbandoned, BlockStored
        <3>2. requests' \cup queue' \subseteq requests \cup queue
            BY <2>1 DEF BlockExecuted, BlockAbandoned, BlockStored
        <3> QED
            BY <3>1, <3>2 DEF Asked
    <2>5. ErasStored(t.request.height, stored)
        BY <1>a, <2>2
    <2> QED
        BY <1>a, <1>c, <2>3, <2>4, <2>5
<1>4. CASE \/ \E h \in Heights : ReceivedBlock(h)
           \/ \E s \in Signatures : ReceivedFinalitySignature(s[1], s[2])
           \/ CrankValidate
           \/ \E w \in accumulator.writes : Write(w)
           \/ SwitchToValidate \/ SwitchToKeepUp
    <2>1. /\ switch' = switch /\ stored \subseteq stored' /\ executed' = executed
          /\ requests' = requests /\ queue' \subseteq queue /\ tasks' = tasks /\ builder' = builder
        BY <1>4 DEF ReceivedBlock, ReceivedFinalitySignature, CrankValidate, Write,
                    SwitchToValidate, SwitchToKeepUp, RefreshContractRuntime
    <2>2. Asked' \subseteq Asked
        BY <2>1 DEF Asked
    <2> QED
        BY <1>a, <1>c, <2>1, <2>2
<1>5. CASE HandleMetaBlock
    <2>1. /\ switch' = switch /\ stored' = stored /\ executed' = executed
          /\ requests' = requests /\ queue' = queue /\ tasks' = tasks
        BY <1>5 DEF HandleMetaBlock
    <2> DEFINE meta == Head(metas)
    <2>2. HandleUnexecuted(meta) \/ HandleExecuted(meta) \/ HandleComplete(meta)
        BY <1>5 DEF HandleMetaBlock
    <2> HIDE DEF meta
    <2>3. builder' = builder \/ (builder.phase = "executing" /\ builder'.height = builder.height)
        BY <1>0, <2>2 DEF HandleUnexecuted, HandleExecuted, HandleComplete
    <2>4. Asked' = Asked
        BY <2>1 DEF Asked
    <2> QED
        BY <1>a, <1>c, <2>1, <2>3, <2>4
<1>6. CASE CrankKeepUp
    <2>1. /\ switch' = switch /\ stored' = stored /\ executed' = executed
          /\ requests' = requests /\ queue' = queue /\ tasks' = tasks
        BY <1>6 DEF CrankKeepUp
    <2>2. SyncHeight \in stored /\ ErasStored(SyncHeight, stored) /\ SyncHeight \in Nat
        <3>1. Max(complete) \in Done /\ Max(complete) \in 0 .. MaxHeight
            BY <1>0, HighestComplete DEF TypeRest, SoundRest
        <3>2. builder.phase # "acquiring"
            BY <1>6 DEF CrankKeepUp
        <3> QED
            BY <1>0, <1>a, <3>1, <3>2 DEF SyncHeight, Done
    <2>3. ErasStored(SyncHeight + 1, stored)
        <3>1. switch \subseteq Nat
            BY <1>0, HeightAssumption DEF TypeRest, Heights
        <3>2. \A s \in switch : s < SyncHeight + 1 => s < SyncHeight \/ s = SyncHeight
            BY <2>2, <3>1
        <3> QED
            BY <2>2, <3>2 DEF ErasStored
    <2>4. ErasStored(0, stored) /\ 0 \in stored
        <3>1. switch \subseteq Nat
            BY <1>0, HeightAssumption DEF TypeRest, Heights
        <3>2. 0 \in stored
            BY <1>0 DEF SoundRest, Done
        <3> QED
            BY <3>1, <3>2 DEF ErasStored
    <2>5. \/ builder' = RegisterBlockByHash(SyncHeight + 1)
          \/ builder' = NoBuilder
          \/ builder' = builder
        BY <1>6 DEF CrankKeepUp
    <2>6. /\ builder'.height = builder.height \/ ErasStored(builder.height', stored)
          /\ builder'.phase # "acquiring" => builder'.height \in stored'
        <3>1. CASE builder' = RegisterBlockByHash(SyncHeight + 1)
            <4>1. builder'.height = SyncHeight + 1 /\ builder'.phase = "acquiring"
                BY <3>1 DEF RegisterBlockByHash
            <4> QED
                BY <2>3, <4>1
        <3>2. CASE builder' = NoBuilder
            <4>1. builder'.height = 0
                BY <3>2 DEF NoBuilder
            <4> QED
                BY <2>1, <2>4, <4>1
        <3>3. CASE builder' = builder
            BY <1>a, <2>1, <3>3
        <3> QED
            BY <2>5, <3>1, <3>2, <3>3
    <2>7. Asked' = Asked
        BY <2>1 DEF Asked
    <2> QED
        BY <1>c, <2>1, <2>6, <2>7
<1>7. CASE BlockAcquired
    <2>1. /\ switch' = switch /\ stored' = stored \cup {builder.height} /\ executed' = executed
          /\ Asked' = Asked \cup {Request(builder.height, {"stored"})}
        BY <1>7 DEF BlockAcquired, Asked
    <2>2. builder'.height = builder.height
        BY <1>0, <1>7 DEF BlockAcquired
    <2>3. Request(builder.height, {"stored"}).height = builder.height
        BY DEF Request
    <2> QED
        BY <1>a, <1>c, <2>1, <2>2, <2>3
<1>8. CASE SwitchToCatchUp
    <2>1. /\ switch' = switch /\ stored' = stored /\ executed' = executed
          /\ requests' = requests /\ queue' = queue /\ tasks' = tasks /\ builder' = NoBuilder
        BY <1>8 DEF SwitchToCatchUp
    <2>2. ErasStored(0, stored) /\ 0 \in stored
        <3>1. switch \subseteq Nat
            BY <1>0, HeightAssumption DEF TypeRest, Heights
        <3>2. 0 \in stored
            BY <1>0 DEF SoundRest, Done
        <3> QED
            BY <3>1, <3>2 DEF ErasStored
    <2>3. builder'.height = 0
        BY <2>1 DEF NoBuilder
    <2>4. Asked' = Asked
        BY <2>1 DEF Asked
    <2> QED
        BY <1>c, <2>1, <2>2, <2>3, <2>4
<1> QED
    BY <1>1, <1>2, <1>3, <1>4, <1>5, <1>6, <1>7, <1>8 DEF Next

LEMMA OrderStep ==
    ASSUME Truth, Order, [Next]_vars
    PROVE  Order'
<1>1. CASE Next
    <2>1. ExecutionEnded(next - 1)'
        BY <1>1, NextEnded DEF Order
    <2>2. \A t \in tasks' : ExecutionEnded(t.request.height - 1)'
        BY <1>1, TasksEnded DEF Order
    <2> QED
        BY <1>1, <2>1, <2>2, ErasStep DEF Order
<1>2. CASE UNCHANGED vars
    BY <1>2 DEF vars, runtimeVars, storageVars, Order, Asked, ExecutionEnded, ErasStored
<1> QED
    BY <1>1, <1>2

\* Blocks are executed on the state of their parents, with the switch blocks before them
\* in storage.
THEOREM ParentExecutedHolds == Spec => []ParentExecuted
<1>1. Init => Truth /\ Order
    <2>1. ASSUME Init PROVE Order
        <3>1. switch \subseteq Nat
            BY <2>1, SwitchAssumption, HeightAssumption DEF Init, Heights
        <3>2. /\ next = 1 /\ queue = {} /\ requests = {} /\ tasks = {} /\ builder = NoBuilder
              /\ stored = {0} /\ executed = {0}
            BY <2>1 DEF Init
        <3> QED
            BY <3>1, <3>2 DEF Order, ExecutionEnded, ErasStored, Asked, NoBuilder
    <2> QED
        BY <2>1, TruthInit
<1>2. Truth /\ Order /\ [Next]_vars => Truth' /\ Order'
    BY TruthStep, OrderStep
<1>3. Truth /\ Order => ParentExecuted
    BY DEF Order, ExecutionEnded, ErasStored, Asked, ParentExecuted
<1> QED
    BY <1>1, <1>2, <1>3, PTL DEF Spec

-----------------------------------------------------------------------------
(* The event stream is told of a block once                                 *)

\* The heights in meta blocks and writes are those of blocks.
LEMMA KnownBlocks ==
    ASSUME Truth
    PROVE  /\ \A i \in DOMAIN metas : metas[i].height \in Heights /\ metas[i] \in MetaBlocks
           /\ \A w \in accumulator.writes : w.height \in Heights
           /\ metas \in Seq(MetaBlocks)
<1>1. metas \in Seq(MetaBlocks) /\ \A w \in accumulator.writes : w.height \in Heights
    BY DEF Truth, TypeOK, Accumulators
<1>2. \A i \in DOMAIN metas : metas[i] \in MetaBlocks
    BY <1>1
<1> QED
    BY <1>1, <1>2 DEF MetaBlocks

\* An operation of the accumulator, while marked meta blocks move up by `shift` places and
\* the stream may be told of a block that was on its way as a meta block.
LEMMA OnceAdvances ==
    ASSUME Truth, Once, NEW known, Steps(accumulator, accumulator', known),
           accumulator' \in Accumulators, complete \subseteq complete', NEW shift \in {0, 1},
           \A i \in DOMAIN metas' : i \in Nat,
           \A i \in DOMAIN metas' : Marked(metas'[i]) =>
               i + shift \in DOMAIN metas /\ metas'[i] = metas[i + shift],
           \A h \in Heights : streamed'[h] # streamed[h] =>
               /\ streamed'[h] = 1 /\ streamed[h] = 0 /\ h \in complete /\ Past(accumulator, h)
               /\ \A w \in accumulator.writes : Completing(w) => w.height # h
               /\ \A i \in DOMAIN metas' : Marked(metas'[i]) => metas'[i].height # h
    PROVE  Once'
<1> DEFINE a == accumulator
           b == accumulator'
<1>1. /\ \A w \in a.writes : w.height \in Heights
      /\ \A w \in b.writes : w.height \in Heights
      /\ \A i \in DOMAIN metas : metas[i].height \in Heights
      /\ \A i \in DOMAIN metas' : Marked(metas'[i]) => metas'[i].height \in Heights
    BY KnownBlocks DEF Accumulators
<1>2. /\ \A h \in Heights : Past(a, h) => Past(b, h)
      /\ \A w \in b.writes : w \notin a.writes /\ Completing(w) =>
             ~Past(a, w.height) /\ Past(b, w.height)
      /\ \A v, w \in b.writes : v \notin a.writes /\ w \notin a.writes =>
             (Completing(v) /\ Completing(w) /\ v.height = w.height => v = w)
    BY DEF Steps
<1>3. /\ \A h \in Heights : streamed[h] # 0 => streamed[h] = 1 /\ h \in complete /\ Past(a, h)
      /\ \A w \in a.writes : Completing(w) =>
             /\ Past(a, w.height) /\ streamed[w.height] = 0
             /\ \A i \in DOMAIN metas : Marked(metas[i]) => metas[i].height # w.height
      /\ \A v, w \in a.writes :
             Completing(v) /\ Completing(w) /\ v.height = w.height => v = w
      /\ \A i \in DOMAIN metas : Marked(metas[i]) =>
             Past(a, metas[i].height) /\ streamed[metas[i].height] = 0
      /\ \A i, j \in DOMAIN metas :
             Marked(metas[i]) /\ Marked(metas[j]) /\ metas[i].height = metas[j].height => i = j
    BY DEF Once
<1> HIDE DEF a, b
<1>4. \A h \in Heights : streamed'[h] # 0 =>
          streamed'[h] = 1 /\ h \in complete' /\ Past(b, h)
    BY <1>2, <1>3 DEF a
<1>5. ASSUME NEW w \in b.writes, Completing(w)
      PROVE  /\ Past(b, w.height) /\ streamed'[w.height] = 0
             /\ \A i \in DOMAIN metas' : Marked(metas'[i]) => metas'[i].height # w.height
    <2>1. CASE w \in a.writes
        BY <1>1, <1>2, <1>3, <1>5, <2>1 DEF a
    <2>2. CASE w \notin a.writes
        <3>1. ~Past(a, w.height) /\ Past(b, w.height) /\ w.height \in Heights
            BY <1>1, <1>2, <1>5, <2>2
        <3>2. streamed'[w.height] = 0
            BY <1>3, <3>1 DEF a
        <3>3. \A i \in DOMAIN metas' : Marked(metas'[i]) => Past(a, metas'[i].height)
            BY <1>3
        <3> QED
            BY <3>1, <3>2, <3>3
    <2> QED
        BY <2>1, <2>2
<1>6. ASSUME NEW v \in b.writes, NEW w \in b.writes, Completing(v), Completing(w),
             v.height = w.height
      PROVE  v = w
    <2>1. v \in a.writes => Past(a, v.height)
        BY <1>3, <1>6
    <2>2. w \in a.writes => Past(a, w.height)
        BY <1>3, <1>6
    <2>3. v \notin a.writes => ~Past(a, v.height)
        BY <1>2, <1>6
    <2>4. w \notin a.writes => ~Past(a, w.height)
        BY <1>2, <1>6
    <2>5. CASE v \in a.writes /\ w \in a.writes
        BY <1>3, <1>6, <2>5
    <2>6. CASE v \notin a.writes /\ w \notin a.writes
        BY <1>2, <1>6, <2>6
    <2> QED
        BY <1>6, <2>1, <2>2, <2>3, <2>4, <2>5, <2>6
<1>7. ASSUME NEW i \in DOMAIN metas', Marked(metas'[i])
      PROVE  Past(b, metas'[i].height) /\ streamed'[metas'[i].height] = 0
    <2>1. i + shift \in DOMAIN metas /\ metas'[i] = metas[i + shift]
        BY <1>7
    <2>2. /\ metas'[i].height \in Heights /\ Past(a, metas'[i].height)
          /\ streamed[metas'[i].height] = 0
        BY <1>1, <1>3, <1>7, <2>1
    <2> QED
        BY <1>2, <1>7, <2>2
<1>8. ASSUME NEW i \in DOMAIN metas', NEW j \in DOMAIN metas', Marked(metas'[i]),
             Marked(metas'[j]), metas'[i].height = metas'[j].height
      PROVE  i = j
    <2>1. /\ i + shift \in DOMAIN metas /\ metas'[i] = metas[i + shift]
          /\ j + shift \in DOMAIN metas /\ metas'[j] = metas[j + shift]
          /\ i \in Nat /\ j \in Nat
        BY <1>8
    <2>2. i + shift = j + shift
        BY <1>3, <1>8, <2>1
    <2> QED
        BY <2>1, <2>2
<1> QED
    BY <1>4, <1>5, <1>6, <1>7, <1>8 DEF Once, b

\* The end of a write that marks a block complete turns it into a meta block.
LEMMA OnceWritten ==
    ASSUME Truth, Once, NEW w \in accumulator.writes, Write(w)
    PROVE  Once'
<1> DEFINE a == accumulator
           b == accumulator'
           meta == [height |-> w.height, state |-> w.state]
<1>1. /\ b.acceptors = a.acceptors /\ b.local_tip = a.local_tip /\ b.writes = a.writes \ {w}
    BY WriteMoves
<1>2. /\ metas' = Append(metas, meta) /\ streamed' = streamed /\ complete \subseteq complete'
    BY DEF Write
<1>3. meta.height = w.height /\ meta.state = w.state /\ w.height \in Heights /\ meta \in MetaBlocks
    BY DEF Truth, TypeOK, Accumulators, MetaBlocks
<1>4. Marked(meta) => Completing(w)
    BY <1>3 DEF Truth, AccSound, Orderly, WriteSound, Marked, Completing
<1>5. \A h : Past(b, h) <=> Past(a, h)
    BY <1>1 DEF Past
<1> HIDE DEF a, b, meta
<1>6. /\ \A i \in DOMAIN metas' :
             (i \in DOMAIN metas /\ metas'[i] = metas[i]) \/ (i = Len(metas) + 1 /\ metas'[i] = meta)
    BY <1>2, <1>3, KnownBlocks, AppendEntries
<1>7. /\ \A h \in Heights : streamed[h] # 0 => streamed[h] = 1 /\ h \in complete /\ Past(a, h)
      /\ \A v \in a.writes : Completing(v) =>
             /\ Past(a, v.height) /\ streamed[v.height] = 0
             /\ \A i \in DOMAIN metas : Marked(metas[i]) => metas[i].height # v.height
      /\ \A u, v \in a.writes :
             Completing(u) /\ Completing(v) /\ u.height = v.height => u = v
      /\ \A i \in DOMAIN metas : Marked(metas[i]) =>
             Past(a, metas[i].height) /\ streamed[metas[i].height] = 0
      /\ \A i, j \in DOMAIN metas :
             Marked(metas[i]) /\ Marked(metas[j]) /\ metas[i].height = metas[j].height => i = j
      /\ w \in a.writes
    BY DEF Once, a
<1>8. \A h \in Heights : streamed'[h] # 0 =>
          streamed'[h] = 1 /\ h \in complete' /\ Past(b, h)
    BY <1>2, <1>5, <1>7
<1>9. ASSUME NEW v \in b.writes, Completing(v)
      PROVE  /\ Past(b, v.height) /\ streamed'[v.height] = 0
             /\ \A i \in DOMAIN metas' : Marked(metas'[i]) => metas'[i].height # v.height
    <2>1. v \in a.writes /\ v # w
        BY <1>1
    <2>2. Completing(w) => v.height # w.height
        BY <1>7, <1>9, <2>1
    <2>3. Past(b, v.height) /\ streamed'[v.height] = 0
        BY <1>2, <1>5, <1>7, <1>9, <2>1
    <2>4. ASSUME NEW i \in DOMAIN metas', Marked(metas'[i])
          PROVE  metas'[i].height # v.height
        <3>1. CASE i \in DOMAIN metas /\ metas'[i] = metas[i]
            BY <1>7, <1>9, <2>1, <2>4, <3>1
        <3>2. CASE metas'[i] = meta
            BY <1>3, <1>4, <2>2, <2>4, <3>2
        <3> QED
            BY <1>6, <3>1, <3>2
    <2> QED
        BY <2>3, <2>4
<1>10. \A u, v \in b.writes : Completing(u) /\ Completing(v) /\ u.height = v.height => u = v
    BY <1>1, <1>7
<1>11. ASSUME NEW i \in DOMAIN metas', Marked(metas'[i])
       PROVE  Past(b, metas'[i].height) /\ streamed'[metas'[i].height] = 0
    <2>1. CASE i \in DOMAIN metas /\ metas'[i] = metas[i]
        BY <1>2, <1>5, <1>7, <1>11, <2>1
    <2>2. CASE metas'[i] = meta
        BY <1>2, <1>3, <1>4, <1>5, <1>7, <1>11, <2>2
    <2> QED
        BY <1>6, <2>1, <2>2
<1>12. ASSUME NEW i \in DOMAIN metas', NEW j \in DOMAIN metas', Marked(metas'[i]),
              Marked(metas'[j]), metas'[i].height = metas'[j].height
       PROVE  i = j
    <2>1. Marked(meta) => \A k \in DOMAIN metas : Marked(metas[k]) => metas[k].height # meta.height
        BY <1>3, <1>4, <1>7
    <2> QED
        BY <1>6, <1>7, <1>12, <2>1
<1> QED
    BY <1>8, <1>9, <1>10, <1>11, <1>12 DEF Once, b

\* Steps that announce no complete block, and of which the stream is not told.
LEMMA QuietSteps ==
    ASSUME Truth, Next
    PROVE  \/ \E w \in accumulator.writes : Write(w)
           \/ HandleMetaBlock
           \/ /\ streamed' = streamed /\ complete' = complete
              /\ \/ metas' = metas
                 \/ \E meta \in MetaBlocks :
                        ~Marked(meta) /\ metas' = Append(metas, meta)
<1> USE DEF runtimeVars, storageVars, consensusVars, reactorVars
<1>1. CASE \E t \in tasks : BlockStored(t)
    <2>1. PICK t \in tasks : BlockStored(t)
        BY <1>1
    <2> DEFINE meta == [height |-> t.request.height,
                        state |-> t.request.state \cup {"stored", "executed"}]
    <2>2. t.request \in MetaBlocks /\ t.request \in Asked
        BY DEF Truth, TypeOK, Asked
    <2>3. t.request.height \in Heights /\ t.request.state \subseteq {"stored"}
        BY <2>2 DEF MetaBlocks, Truth, RequestSound
    <2>4. meta \in MetaBlocks /\ ~Marked(meta)
        BY <2>3 DEF MetaBlocks, Marked, Flags
    <2>5. metas' = Append(metas, meta) /\ streamed' = streamed /\ complete' = complete
        BY <2>1 DEF BlockStored
    <2> HIDE DEF meta
    <2> QED
        BY <2>4, <2>5
<1>2. CASE \/ \E h \in Heights : Finalize(h)
           \/ \E r \in requests : EnqueueBlockForExecution(r)
           \/ \E t \in tasks : BlockExecuted(t) \/ BlockAbandoned(t)
           \/ \E h \in Heights : ReceivedBlock(h)
           \/ \E s \in Signatures : ReceivedFinalitySignature(s[1], s[2])
    BY <1>2 DEF Finalize, EnqueueBlockForExecution, BlockExecuted, BlockAbandoned, ReceivedBlock,
                ReceivedFinalitySignature
<1>3. CASE \/ CrankKeepUp \/ BlockAcquired
           \/ SwitchToValidate \/ CrankValidate \/ SwitchToCatchUp \/ SwitchToKeepUp
    BY <1>3 DEF CrankKeepUp, BlockAcquired, SwitchToValidate, CrankValidate, SwitchToCatchUp,
                SwitchToKeepUp
<1> QED
    BY <1>1, <1>2, <1>3 DEF Next

LEMMA OnceStep ==
    ASSUME Truth, Once, [Next]_vars
    PROVE  Once'
<1>0. Truth'
    BY TruthStep
<1>a. accumulator' \in Accumulators /\ metas' \in Seq(MetaBlocks) /\ metas \in Seq(MetaBlocks)
      /\ 0 \in {0, 1} /\ 1 \in {0, 1} /\ \A i \in DOMAIN metas' : i \in Nat
    BY <1>0 DEF Truth, TypeOK
<1> DEFINE known == KnownIn(eras)'
<1>1. CASE Next /\ \E w \in accumulator.writes : Write(w)
    BY <1>1, OnceWritten
<1>2. CASE HandleMetaBlock
    <2> DEFINE meta == Head(metas)
    <2>1. Steps(accumulator, accumulator', known)
        BY <1>2, MetaBlockMoves DEF Advances
    <2>2. /\ metas # <<>> /\ metas' = Tail(metas) /\ complete' = complete
          /\ HandleUnexecuted(meta) \/ HandleExecuted(meta) \/ HandleComplete(meta)
        BY <1>2 DEF HandleMetaBlock, storageVars
    <2>3. /\ meta \in MetaBlocks /\ 1 \in DOMAIN metas /\ meta = metas[1]
          /\ MetaSound(meta, stored, executed, complete)
        BY <2>2, HeadSound
    <2>4. \A i \in DOMAIN metas' : i + 1 \in DOMAIN metas /\ i + 1 # 1 /\ metas'[i] = metas[i + 1]
        BY <1>a, <2>2, TailEntries
    <2> HIDE DEF meta, known
    <2>5. ASSUME NEW h \in Heights, streamed'[h] # streamed[h]
          PROVE  /\ streamed'[h] = 1 /\ streamed[h] = 0 /\ h \in complete /\ Past(accumulator, h)
                 /\ \A w \in accumulator.writes : Completing(w) => w.height # h
                 /\ \A i \in DOMAIN metas' : Marked(metas'[i]) => metas'[i].height # h
        <3>1. HandleComplete(meta)
            BY <2>2, <2>5 DEF HandleUnexecuted, HandleExecuted
        <3>2. CompleteState(meta.state) /\ meta.height \in complete
            BY <2>3, <3>1 DEF MetaSound, HandleComplete
        <3>3. h = meta.height /\ streamed'[h] = streamed[h] + 1
            <4>1. streamed \in [Heights -> Nat] /\ meta.height \in Heights
                BY <2>3 DEF Truth, TypeOK, MetaBlocks
            <4> QED
                BY <2>5, <3>1, <3>2, <4>1 DEF HandleComplete, CompleteState
        <3>4. Marked(metas[1])
            BY <2>3, <3>2 DEF Marked, CompleteState
        <3>5. Past(accumulator, h) /\ streamed[h] = 0
            BY <2>3, <3>3, <3>4 DEF Once
        <3>6. \A w \in accumulator.writes : Completing(w) => w.height # h
            BY <2>3, <3>3, <3>4 DEF Once
        <3>7. ASSUME NEW i \in DOMAIN metas', Marked(metas'[i]) PROVE metas'[i].height # h
            <4>1. i + 1 \in DOMAIN metas /\ i + 1 # 1 /\ metas'[i] = metas[i + 1]
                BY <2>4
            <4> QED
                BY <2>3, <3>3, <3>4, <3>7, <4>1 DEF Once
        <3> QED
            BY <3>2, <3>3, <3>5, <3>6, <3>7
    <2> QED
        BY <1>a, <2>1, <2>2, <2>4, <2>5, OnceAdvances
<1>3. CASE /\ Next /\ ~HandleMetaBlock /\ ~\E w \in accumulator.writes : Write(w)
    <2>1. Steps(accumulator, accumulator', known)
        BY <1>3, AccumulatorMoves DEF Advances
    <2>2. /\ streamed' = streamed /\ complete' = complete
          /\ \/ metas' = metas
             \/ \E meta \in MetaBlocks : ~Marked(meta) /\ metas' = Append(metas, meta)
        BY <1>3, QuietSteps
    <2>3. \A i \in DOMAIN metas' : Marked(metas'[i]) =>
              i + 0 \in DOMAIN metas /\ metas'[i] = metas[i + 0]
        <3>1. CASE metas' = metas
            BY <1>a, <3>1
        <3>2. CASE \E meta \in MetaBlocks : ~Marked(meta) /\ metas' = Append(metas, meta)
            <4>1. PICK meta \in MetaBlocks : ~Marked(meta) /\ metas' = Append(metas, meta)
                BY <3>2
            <4>2. \A i \in DOMAIN metas' :
                      (i \in DOMAIN metas /\ metas'[i] = metas[i]) \/ metas'[i] = meta
                BY <1>a, <4>1, AppendEntries
            <4> QED
                BY <1>a, <4>1, <4>2
        <3> QED
            BY <2>2, <3>1, <3>2
    <2> HIDE DEF known
    <2> QED
        BY <1>a, <2>1, <2>2, <2>3, OnceAdvances
<1>4. CASE UNCHANGED vars
    BY <1>4 DEF vars, storageVars, Once
<1> QED
    BY <1>1, <1>2, <1>3, <1>4 DEF Next

\* The event stream is told of a block once, when it is complete, and complete blocks are
\* stored with their results.
THEOREM StreamedOnceHolds == Spec => []StreamedOnce
<1>1. Init => Truth /\ Once
    <2>1. Init => /\ accumulator.writes = {} /\ DOMAIN metas = {}
                  /\ \A h \in Heights : streamed[h] = 0
        BY DEF Init
    <2> QED
        BY <2>1, TruthInit DEF Once
<1>2. Truth /\ Once /\ [Next]_vars => Truth' /\ Once'
    BY TruthStep, OnceStep
<1>3. Truth /\ Once => StreamedOnce
    BY DEF Truth, Once, StreamedOnce, Done
<1> QED
    BY <1>1, <1>2, <1>3, PTL DEF Spec

-----------------------------------------------------------------------------
(* No block with enough signatures is overlooked                            *)

\* A switch block is below the blocks of the era that it begins.
LEMMA EraOrder ==
    ASSUME switch \subseteq Heights, NEW s \in Heights, NEW h \in Heights,
           EraOf(s) + 1 = EraOf(h)
    PROVE  s < h
<1> SUFFICES ASSUME ~(s < h) PROVE FALSE
    OBVIOUS
<1> DEFINE below(k) == {x \in switch : x < k}
<1>1. switch \subseteq Nat /\ s \in Nat /\ h \in Nat
    BY HeightAssumption DEF Heights
<1>2. below(h) \subseteq below(s)
    <2>1. h <= s
        BY <1>1
    <2>2. ASSUME NEW x \in switch, x < h PROVE x < s
        BY <1>1, <2>1, <2>2
    <2> QED
        BY <2>2
<1>3. IsFiniteSet(below(s))
    <2>1. IsFiniteSet(Heights)
        BY HeightAssumption, FS_Interval DEF Heights
    <2> QED
        BY <2>1, FS_Subset
<1>4. Cardinality(below(h)) <= Cardinality(below(s))
    BY <1>2, <1>3, FS_Subset
<1>5. EraOf(h) \in Nat /\ EraOf(s) \in Nat
    BY EraNatural
<1>6. EraOf(h) <= EraOf(s)
    BY <1>4 DEF EraOf
<1> QED
    BY <1>5, <1>6

\* Steps that do not handle a meta block: the validators that are coming still are, and
\* those of a new era are coming.
LEMMA ComingStays ==
    ASSUME Truth, Next, ~HandleMetaBlock
    PROVE  /\ \A s : Coming(s) => Coming(s)'
           /\ eras' # eras => \E s \in switch : eras' = eras \cup {EraOf(s) + 1} /\ Coming(s)'
<1> USE DEF runtimeVars, storageVars, consensusVars, reactorVars
<1>0. /\ tasks \subseteq [request : MetaBlocks, phase : {"executing", "executed"}]
      /\ metas \in Seq(MetaBlocks)
    BY DEF Truth, TypeOK
<1> DEFINE Goal == /\ \A s : Coming(s) => Coming(s)'
                   /\ eras' # eras => \E s \in switch : eras' = eras \cup {EraOf(s) + 1} /\ Coming(s)'
<1>1. CASE \E t \in tasks : BlockExecuted(t)
    <2>1. PICK t \in tasks : BlockExecuted(t)
        BY <1>1
    <2> DEFINE u == [t EXCEPT !.phase = "executed"]
    <2>2. /\ tasks' = (tasks \ {t}) \cup {u} /\ metas' = metas /\ t.phase = "executing"
          /\ u.phase = "executed" /\ u.request = t.request
          /\ eras' # eras => /\ t.request.height \in switch
                             /\ eras' = eras \cup {EraOf(t.request.height) + 1}
        BY <1>0, <2>1 DEF BlockExecuted
    <2> HIDE DEF u
    <2>3. \A s : Coming(s) => Coming(s)'
        BY <2>2 DEF Coming
    <2>4. Coming(t.request.height)'
        BY <2>2 DEF Coming
    <2> QED
        BY <2>2, <2>3, <2>4
<1>2. CASE \E t \in tasks : BlockStored(t)
    <2>1. PICK t \in tasks : BlockStored(t)
        BY <1>2
    <2> DEFINE meta == [height |-> t.request.height,
                        state |-> t.request.state \cup {"stored", "executed"}]
    <2>2. t.request \in MetaBlocks /\ t.request \in Asked
        BY <1>0 DEF Asked
    <2>3. t.request.height \in Heights /\ t.request.state \subseteq {"stored"}
        BY <2>2 DEF MetaBlocks, Truth, RequestSound
    <2>4. /\ meta \in MetaBlocks /\ meta.height = t.request.height
          /\ "updated_validator_matrix" \notin meta.state
        BY <2>3 DEF MetaBlocks, Flags
    <2>5. metas' = Append(metas, meta) /\ tasks' = tasks \ {t} /\ eras' = eras
        BY <2>1 DEF BlockStored
    <2> HIDE DEF meta
    <2>6. /\ \A i \in DOMAIN metas : i \in DOMAIN metas' /\ metas'[i] = metas[i]
          /\ Len(metas) + 1 \in DOMAIN metas' /\ metas'[Len(metas) + 1] = meta
        BY <1>0, <2>4, <2>5, AppendEntries
    <2>7. Coming(t.request.height)'
        BY <2>4, <2>6 DEF Coming
    <2>8. \A s : Coming(s) => Coming(s)'
        BY <2>5, <2>6, <2>7 DEF Coming
    <2> QED
        BY <2>5, <2>8
<1>3. CASE \E w \in accumulator.writes : Write(w)
    <2>1. PICK w \in accumulator.writes : Write(w)
        BY <1>3
    <2> DEFINE meta == [height |-> w.height, state |-> w.state]
    <2>2. metas' = Append(metas, meta) /\ tasks' = tasks /\ eras' = eras
        BY <2>1 DEF Write
    <2>3. meta \in MetaBlocks
        BY DEF Truth, TypeOK, Accumulators, MetaBlocks
    <2> HIDE DEF meta
    <2>4. \A i \in DOMAIN metas : i \in DOMAIN metas' /\ metas'[i] = metas[i]
        BY <1>0, <2>2, <2>3, AppendEntries
    <2> QED
        BY <2>2, <2>4 DEF Coming
<1>4. CASE \E t \in tasks : BlockAbandoned(t)
    <2>1. PICK t \in tasks : BlockAbandoned(t)
        BY <1>4
    <2>2. tasks' = tasks \ {t} /\ t.phase = "executing" /\ metas' = metas /\ eras' = eras
        BY <2>1 DEF BlockAbandoned
    <2> QED
        BY <2>2 DEF Coming
<1>5. CASE metas' = metas /\ eras' = eras /\ tasks \subseteq tasks'
    BY <1>5 DEF Coming
<1>6. CASE \/ \E h \in Heights : Finalize(h)
           \/ \E r \in requests : EnqueueBlockForExecution(r)
           \/ \E h \in Heights : ReceivedBlock(h)
           \/ \E s \in Signatures : ReceivedFinalitySignature(s[1], s[2])
    <2>1. metas' = metas /\ eras' = eras /\ tasks \subseteq tasks'
        BY <1>6 DEF Finalize, EnqueueBlockForExecution, ReceivedBlock, ReceivedFinalitySignature
    <2> QED
        BY <1>5, <2>1
<1>7. CASE \/ CrankKeepUp \/ BlockAcquired
           \/ SwitchToValidate \/ CrankValidate \/ SwitchToCatchUp \/ SwitchToKeepUp
    <2>1. metas' = metas /\ eras' = eras /\ tasks \subseteq tasks'
        BY <1>7 DEF CrankKeepUp, BlockAcquired, SwitchToValidate, CrankValidate, SwitchToCatchUp,
                    SwitchToKeepUp, RefreshContractRuntime
    <2> QED
        BY <1>5, <2>1
<1> QED
    BY <1>1, <1>2, <1>3, <1>4, <1>6, <1>7 DEF Next

\* A meta block that brings no validators takes none away from those that are coming.
LEMMA ComingHandled ==
    ASSUME Truth, HandleMetaBlock, ~BringsValidators(Head(metas)), NEW s \in switch, Coming(s)
    PROVE  Coming(s)'
<1>1. metas # <<>> /\ metas' = Tail(metas) /\ tasks' = tasks /\ metas \in Seq(MetaBlocks)
    BY DEF HandleMetaBlock, runtimeVars, Truth, TypeOK
<1>2. Head(metas) = metas[1]
    BY <1>1, HeadSound
<1>3. CASE \E t \in tasks : t.request.height = s /\ t.phase = "executed"
    BY <1>1, <1>3 DEF Coming
<1>4. CASE \E i \in DOMAIN metas :
               metas[i].height = s /\ "updated_validator_matrix" \notin metas[i].state
    <2>1. PICK i \in DOMAIN metas :
              metas[i].height = s /\ "updated_validator_matrix" \notin metas[i].state
        BY <1>4
    <2>2. i # 1
        BY <1>2, <2>1 DEF BringsValidators
    <2>3. i - 1 \in DOMAIN metas' /\ metas'[i - 1] = metas[i]
        BY <1>1, <2>2, TailEntries
    <2> QED
        BY <2>1, <2>3 DEF Coming
<1> QED
    BY <1>3, <1>4 DEF Coming

LEMMA NoticingStep ==
    ASSUME Truth, Noticing, [Next]_vars
    PROVE  Noticing'
<1>0. switch \subseteq Heights /\ KnownIn(eras) \subseteq Heights
    BY DEF Truth, TypeOK, KnownIn
<1>1. CASE Next
    <2> USE DEF runtimeVars, storageVars, consensusVars, reactorVars
    <2>1. switch' = switch
        <3>1. CASE \/ \E h \in Heights : Finalize(h)
                   \/ \E r \in requests : EnqueueBlockForExecution(r)
                   \/ \E t \in tasks : BlockExecuted(t) \/ BlockAbandoned(t) \/ BlockStored(t)
                   \/ \E h \in Heights : ReceivedBlock(h)
                   \/ \E s \in Signatures : ReceivedFinalitySignature(s[1], s[2])
            BY <3>1 DEF Finalize, EnqueueBlockForExecution, BlockExecuted, BlockAbandoned,
                        BlockStored, ReceivedBlock, ReceivedFinalitySignature
        <3>2. CASE \/ \E w \in accumulator.writes : Write(w)
                   \/ HandleMetaBlock
                   \/ CrankKeepUp \/ BlockAcquired
                   \/ SwitchToValidate \/ CrankValidate \/ SwitchToCatchUp \/ SwitchToKeepUp
            BY <3>2 DEF Write, HandleMetaBlock, CrankKeepUp, BlockAcquired, SwitchToValidate,
                        CrankValidate, SwitchToCatchUp, SwitchToKeepUp
        <3> QED
            BY <1>1, <3>1, <3>2 DEF Next
    <2>2. KnownIn(eras)' = KnownIn(eras') /\ \A h : EraOf(h)' = EraOf(h)
        BY <2>1, KnownPrimed DEF EraOf
    <2>3. \A h \in KnownIn(eras') :
              Noticed(accumulator.acceptors[h]) => Noticed(accumulator'.acceptors[h])
        BY <1>1, <2>2, AccumulatorMoves, WriteMoves DEF Advances, Steps
    <2>4. ASSUME NEW h \in KnownIn(eras')
          PROVE  \/ Noticed(accumulator'.acceptors[h])
                 \/ \E s \in switch : EraOf(s) + 1 = EraOf(h) /\ Coming(s)'
        <3>1. CASE ~HandleMetaBlock
            <4>1. CASE h \in KnownIn(eras)
                BY <1>1, <2>3, <3>1, <4>1, ComingStays DEF Noticing
            <4>2. CASE h \notin KnownIn(eras)
                <5>1. PICK s \in switch : eras' = eras \cup {EraOf(s) + 1} /\ Coming(s)'
                    BY <1>1, <3>1, <4>2, ComingStays
                <5>2. EraOf(h) = EraOf(s) + 1
                    BY <4>2, <5>1 DEF KnownIn
                <5> QED
                    BY <5>1, <5>2
            <4> QED
                BY <4>1, <4>2
        <3>2. CASE HandleMetaBlock /\ BringsValidators(Head(metas))
            BY <2>2, <3>2, MetaBlockMoves
        <3>3. CASE HandleMetaBlock /\ ~BringsValidators(Head(metas))
            <4>1. eras' = eras
                BY <3>3 DEF HandleMetaBlock, ErasAfter
            <4> QED
                BY <2>3, <3>3, <4>1, ComingHandled DEF Noticing
        <3> QED
            BY <3>1, <3>2, <3>3
    <2> QED
        BY <2>1, <2>2, <2>4 DEF Noticing
<1>2. CASE UNCHANGED vars
    BY <1>2 DEF vars, runtimeVars, Noticing, Coming, KnownIn, EraOf
<1> QED
    BY <1>1, <1>2

\* A block with enough signatures is known to have them and is marked complete if it was
\* executed, unless the validators of its era are still to be made known.
THEOREM StrictWeightNoticedHolds == Spec => []StrictWeightNoticed
<1>1. Init => Truth /\ Noticing
    <2>1. ASSUME Init, NEW h \in Heights PROVE Noticed(accumulator.acceptors[h])
        BY <2>1 DEF Init, NewAcceptor, Noticed
    <2> QED
        BY <2>1, TruthInit DEF Noticing, KnownIn
<1>2. Truth /\ Noticing /\ [Next]_vars => Truth' /\ Noticing'
    BY TruthStep, NoticingStep
<1>3. Truth /\ Noticing => StrictWeightNoticed
    <2> SUFFICES ASSUME Truth, Noticing, NEW h \in KnownIn(eras),
                        accumulator.acceptors[h].block, Strict(accumulator.acceptors[h].signatures)
                 PROVE  \/ /\ HasSufficientFinality(accumulator.acceptors[h])
                           /\ "executed" \in accumulator.acceptors[h].state =>
                                  "marked_complete" \in accumulator.acceptors[h].state
                        \/ \E s \in switch : s < h /\ ValidatorsUnderWay(s)
        BY DEF StrictWeightNoticed
    <2>1. h \in Heights /\ switch \subseteq Heights
        BY DEF KnownIn, Truth, TypeOK
    <2>2. Settled(accumulator.acceptors[h])
        BY <2>1 DEF Truth, AccSound
    <2>3. CASE Noticed(accumulator.acceptors[h])
        BY <2>2, <2>3 DEF Noticed, Settled
    <2>4. CASE \E s \in switch : EraOf(s) + 1 = EraOf(h) /\ Coming(s)
        <3>1. PICK s \in switch : EraOf(s) + 1 = EraOf(h) /\ Coming(s)
            BY <2>4
        <3>2. s < h
            BY <2>1, <3>1, EraOrder
        <3>3. ValidatorsUnderWay(s)
            BY <3>1 DEF Coming, ValidatorsUnderWay
        <3> QED
            BY <3>2, <3>3
    <2> QED
        BY <2>3, <2>4 DEF Noticing
<1> QED
    BY <1>1, <1>2, <1>3, PTL DEF Spec
=============================================================================
