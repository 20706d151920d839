------------------------- MODULE ConversationProofs -------------------------
(***************************************************************************)
(* Proofs about Conversation for every set of conversations, clients and   *)
(* images, and every bound.                                                *)
(***************************************************************************)
EXTENDS Conversation, FiniteSetFacts

-----------------------------------------------------------------------------
(* A file of messages, read as positions.                                  *)

Asks(s, n) == {j \in DOMAIN s : s[j].role = "humano" /\ s[j].turn = n}
Replies(s, n) == {j \in DOMAIN s : s[j].role = "orquestrador" /\ s[j].turn = n}
Cut(s, n) == {j \in Replies(s, n) : s[j].status = "interrompida"}
Given(s, n) == Replies(s, n) \ Cut(s, n)

\* Every image a question names is among these.
ImagesIn(s, imgs) == \A j \in DOMAIN s : s[j].role = "humano" => s[j].images \subseteq imgs

\* A turn's thread is past its record.
Past(t) == t.at \in {"finally", "over"}

\* The turns of a question that are open, and those whose thread may still write.
Open(ts, c, n) == {i \in DOMAIN ts : ~ts[i].done /\ ts[i].cid = c /\ ts[i].turn = n}
Writers(ts, c, n) == {i \in DOMAIN ts : ~Past(ts[i]) /\ ts[i].cid = c /\ ts[i].turn = n}

\* Each question is marked as interrupted or will be, and answered or will be, at most
\* as often as it was asked.
Budget(s, ts, c, n) ==
    /\ Cardinality(Cut(s, n)) + Cardinality(Open(ts, c, n)) <= Cardinality(Asks(s, n))
    /\ Cardinality(Given(s, n)) + Cardinality(Writers(ts, c, n)) <= Cardinality(Asks(s, n))

\* Each question has a reply of its number or an open turn.
Owed(s, ts, c) ==
    \A j \in DOMAIN s : s[j].role = "humano" =>
        Replies(s, s[j].turn) # {} \/ Open(ts, c, s[j].turn) # {}

\* Whatever is counted is finite.
LEMMA CountsFinite ==
    ASSUME NEW s, IsSequence(s), NEW n
    PROVE  /\ IsFiniteSet(Asks(s, n)) /\ IsFiniteSet(Cut(s, n)) /\ IsFiniteSet(Given(s, n))
           /\ Cardinality(Asks(s, n)) \in Nat /\ Cardinality(Cut(s, n)) \in Nat
           /\ Cardinality(Given(s, n)) \in Nat
<1>1. IsFiniteSet(DOMAIN s)
  BY DomainOf
<1>2. Asks(s, n) \subseteq DOMAIN s /\ Cut(s, n) \subseteq DOMAIN s /\ Given(s, n) \subseteq DOMAIN s
  BY DEF Asks, Cut, Given, Replies
<1>3. IsFiniteSet(Asks(s, n)) /\ IsFiniteSet(Cut(s, n)) /\ IsFiniteSet(Given(s, n))
  BY <1>1, <1>2, FS_Subset
<1> QED
  BY <1>3, FS_CardinalityType

\* Turns that are counted are finitely many too.
LEMMA TurnsFinite ==
    ASSUME NEW ts, IsSequence(ts), NEW c, NEW n
    PROVE  /\ IsFiniteSet(Open(ts, c, n)) /\ IsFiniteSet(Writers(ts, c, n))
           /\ Cardinality(Open(ts, c, n)) \in Nat /\ Cardinality(Writers(ts, c, n)) \in Nat
<1>1. IsFiniteSet(DOMAIN ts)
  BY DomainOf
<1>2. Open(ts, c, n) \subseteq DOMAIN ts /\ Writers(ts, c, n) \subseteq DOMAIN ts
  BY DEF Open, Writers
<1>3. IsFiniteSet(Open(ts, c, n)) /\ IsFiniteSet(Writers(ts, c, n))
  BY <1>1, <1>2, FS_Subset
<1> QED
  BY <1>3, FS_CardinalityType

\* What one more message adds to the counts.
LEMMA CountAppended ==
    ASSUME NEW s, IsSequence(s), NEW m, NEW n
    PROVE  /\ Cardinality(Asks(Append(s, m), n)) =
                IF m.role = "humano" /\ m.turn = n
                  THEN Cardinality(Asks(s, n)) + 1 ELSE Cardinality(Asks(s, n))
           /\ Cardinality(Cut(Append(s, m), n)) =
                IF m.role = "orquestrador" /\ m.turn = n /\ m.status = "interrompida"
                  THEN Cardinality(Cut(s, n)) + 1 ELSE Cardinality(Cut(s, n))
           /\ Cardinality(Given(Append(s, m), n)) =
                IF m.role = "orquestrador" /\ m.turn = n /\ m.status # "interrompida"
                  THEN Cardinality(Given(s, n)) + 1 ELSE Cardinality(Given(s, n))
<1> DEFINE s2 == Append(s, m)
           new == Len(s) + 1
<1>1. /\ DOMAIN s2 = DOMAIN s \cup {new} /\ new \notin DOMAIN s
      /\ (\A j \in DOMAIN s : s2[j] = s[j]) /\ s2[new] = m
  BY Appended
<1> HIDE DEF s2, new
<1>2. Asks(s2, n) = IF m.role = "humano" /\ m.turn = n THEN Asks(s, n) \cup {new} ELSE Asks(s, n)
  BY <1>1 DEF Asks
<1>3. Cut(s2, n) = IF m.role = "orquestrador" /\ m.turn = n /\ m.status = "interrompida"
                     THEN Cut(s, n) \cup {new} ELSE Cut(s, n)
  BY <1>1 DEF Cut, Replies
<1>4. Given(s2, n) = IF m.role = "orquestrador" /\ m.turn = n /\ m.status # "interrompida"
                       THEN Given(s, n) \cup {new} ELSE Given(s, n)
  BY <1>1 DEF Given, Cut, Replies
<1>5. new \notin Asks(s, n) /\ new \notin Cut(s, n) /\ new \notin Given(s, n)
  BY <1>1 DEF Asks, Cut, Given, Replies
<1>6. /\ Cardinality(Asks(s, n) \cup {new}) = Cardinality(Asks(s, n)) + 1
      /\ Cardinality(Cut(s, n) \cup {new}) = Cardinality(Cut(s, n)) + 1
      /\ Cardinality(Given(s, n) \cup {new}) = Cardinality(Given(s, n)) + 1
  BY <1>5, CountsFinite, FS_AddElement
<1> QED
  BY <1>2, <1>3, <1>4, <1>6 DEF s2

\* A turn that was changed: it leaves what it was counted in, or nothing changes.
LEMMA CountTurn ==
    ASSUME NEW ts, IsSequence(ts), NEW i \in DOMAIN ts, NEW u, NEW c, NEW n,
           u.cid = ts[i].cid, u.turn = ts[i].turn,
           ts[i].done => u.done, Past(ts[i]) => Past(u)
    PROVE  /\ IsSequence([ts EXCEPT ![i] = u])
           /\ Open([ts EXCEPT ![i] = u], c, n) \subseteq Open(ts, c, n)
           /\ Writers([ts EXCEPT ![i] = u], c, n) \subseteq Writers(ts, c, n)
           /\ u.done => i \notin Open([ts EXCEPT ![i] = u], c, n)
           /\ Past(u) => i \notin Writers([ts EXCEPT ![i] = u], c, n)
<1> DEFINE ts2 == [ts EXCEPT ![i] = u]
<1>1. ts2 = [j \in 1..Len(ts) |-> IF j = i THEN u ELSE ts[j]] /\ DOMAIN ts = 1..Len(ts) /\ Len(ts) \in Nat
  BY DEF IsSequence
<1>2. DOMAIN ts2 = DOMAIN ts /\ ts2[i] = u /\ \A j \in DOMAIN ts : j # i => ts2[j] = ts[j]
  BY <1>1
<1>3. Len(ts2) = Len(ts) /\ ts2 = [j \in 1..Len(ts) |-> ts2[j]]
  BY <1>1
<1> HIDE DEF ts2
<1>4. Open(ts2, c, n) \subseteq Open(ts, c, n) /\ (u.done => i \notin Open(ts2, c, n))
  BY <1>2 DEF Open
<1>5. Writers(ts2, c, n) \subseteq Writers(ts, c, n) /\ (Past(u) => i \notin Writers(ts2, c, n))
  BY <1>2 DEF Writers
<1> QED
  BY <1>1, <1>3, <1>4, <1>5 DEF ts2, IsSequence

\* What lost an element has one less at least.
LEMMA OneLess ==
    ASSUME NEW T, IsFiniteSet(T), NEW x, NEW S, S \subseteq T \ {x}
    PROVE  /\ Cardinality(S) <= Cardinality(T) /\ Cardinality(S) \in Nat /\ Cardinality(T) \in Nat
           /\ x \in T => Cardinality(S) + 1 <= Cardinality(T)
<1>1. IsFiniteSet(T \ {x}) /\ Cardinality(T \ {x}) = IF x \in T THEN Cardinality(T) - 1 ELSE Cardinality(T)
  BY FS_RemoveElement
<1>2. Cardinality(S) <= Cardinality(T \ {x}) /\ IsFiniteSet(S)
  BY <1>1, FS_Subset
<1>3. Cardinality(S) \in Nat /\ Cardinality(T) \in Nat
  BY <1>2, FS_CardinalityType
<1> QED
  BY <1>1, <1>2, <1>3

\* A step of a turn that writes nothing.
LEMMA QuietBudget ==
    ASSUME NEW ts, IsSequence(ts), NEW i \in DOMAIN ts, NEW u, NEW c, NEW n, NEW s, IsSequence(s),
           u.cid = ts[i].cid, u.turn = ts[i].turn,
           ts[i].done => u.done, Past(ts[i]) => Past(u), Budget(s, ts, c, n)
    PROVE  Budget(s, [ts EXCEPT ![i] = u], c, n)
<1> DEFINE ts2 == [ts EXCEPT ![i] = u]
<1>1. /\ Open(ts2, c, n) \subseteq Open(ts, c, n)
      /\ Writers(ts2, c, n) \subseteq Writers(ts, c, n)
      /\ IsSequence(ts2)
  BY CountTurn
<1> HIDE DEF ts2
<1>2. /\ Cardinality(Open(ts2, c, n)) <= Cardinality(Open(ts, c, n))
      /\ Cardinality(Writers(ts2, c, n)) <= Cardinality(Writers(ts, c, n))
  BY <1>1, TurnsFinite, FS_Subset
<1>3. /\ Cardinality(Open(ts2, c, n)) \in Nat /\ Cardinality(Open(ts, c, n)) \in Nat
      /\ Cardinality(Writers(ts2, c, n)) \in Nat /\ Cardinality(Writers(ts, c, n)) \in Nat
  BY <1>1, TurnsFinite
<1>4. Budget(s, ts2, c, n)
  BY <1>2, <1>3, CountsFinite DEF Budget
<1> QED
  BY <1>4 DEF ts2

\* An open turn is closed with an interruption.
LEMMA CloseBudget ==
    ASSUME NEW ts, IsSequence(ts), NEW i \in DOMAIN ts, NEW u, NEW c, NEW n, NEW s, IsSequence(s),
           u.cid = ts[i].cid, ts[i].cid = c, u.turn = ts[i].turn,
           ~ts[i].done, u.done, Past(ts[i]) => Past(u), Budget(s, ts, c, n)
    PROVE  Budget(Append(s, Answer(ts[i].turn, "interrompida")), [ts EXCEPT ![i] = u], c, n)
<1> DEFINE ts2 == [ts EXCEPT ![i] = u]
           m == Answer(ts[i].turn, "interrompida")
           s2 == Append(s, m)
<1>a. ts[i].done => u.done
  OBVIOUS
<1>b. Past(ts[i]) => Past(u)
  OBVIOUS
<1>1. Open(ts2, c, n) \subseteq Open(ts, c, n) \ {i} /\ Writers(ts2, c, n) \subseteq Writers(ts, c, n)
      /\ IsSequence(ts2)
  <2> HIDE DEF m, s2
  <2>1. Open(ts2, c, n) \subseteq Open(ts, c, n) /\ Writers(ts2, c, n) \subseteq Writers(ts, c, n)
        /\ IsSequence(ts2)
    BY <1>a, <1>b, CountTurn
  <2>2. u.done => i \notin Open(ts2, c, n)
    BY <1>a, <1>b, CountTurn
  <2> QED
    BY <2>1, <2>2
<1>2. IsSequence(s2)
  BY Appended
<1>3. m.role = "orquestrador" /\ m.turn = ts[i].turn /\ m.status = "interrompida"
  BY DEF Answer
<1> HIDE DEF m
<1>4. /\ Cardinality(Asks(s2, n)) = Cardinality(Asks(s, n))
      /\ Cardinality(Cut(s2, n)) = IF ts[i].turn = n THEN Cardinality(Cut(s, n)) + 1 ELSE Cardinality(Cut(s, n))
      /\ Cardinality(Given(s2, n)) = Cardinality(Given(s, n))
  <2>1. m.role # "humano" /\ ~ (m.role = "orquestrador" /\ m.turn = n /\ m.status # "interrompida")
    BY <1>3
  <2> QED
    BY <1>3, <2>1, CountAppended
<1>5. ts[i].turn = n => i \in Open(ts, c, n)
  BY DEF Open
<1> HIDE DEF ts2, s2
<1>6. /\ Cardinality(Open(ts2, c, n)) <= Cardinality(Open(ts, c, n))
      /\ i \in Open(ts, c, n) => Cardinality(Open(ts2, c, n)) + 1 <= Cardinality(Open(ts, c, n))
      /\ Cardinality(Writers(ts2, c, n)) <= Cardinality(Writers(ts, c, n))
  BY <1>1, TurnsFinite, FS_Subset, OneLess
<1>7. /\ Cardinality(Open(ts2, c, n)) \in Nat /\ Cardinality(Open(ts, c, n)) \in Nat
      /\ Cardinality(Writers(ts2, c, n)) \in Nat /\ Cardinality(Writers(ts, c, n)) \in Nat
  BY <1>1, TurnsFinite
<1>8. /\ Cardinality(Asks(s, n)) \in Nat /\ Cardinality(Cut(s, n)) \in Nat /\ Cardinality(Given(s, n)) \in Nat
  BY CountsFinite
<1>9. Budget(s2, ts2, c, n)
  BY <1>4, <1>5, <1>6, <1>7, <1>8 DEF Budget
<1> QED
  BY <1>9 DEF ts2, s2, m

\* A turn's thread writes its record, whoever closed the turn before.
LEMMA WriteBudget ==
    ASSUME NEW ts, IsSequence(ts), NEW i \in DOMAIN ts, NEW u, NEW c, NEW n, NEW s, IsSequence(s), NEW st,
           u.cid = ts[i].cid, ts[i].cid = c, u.turn = ts[i].turn, st # "interrompida",
           ts[i].done => u.done, ~Past(ts[i]), Past(u), Budget(s, ts, c, n)
    PROVE  Budget(Append(s, Answer(ts[i].turn, st)), [ts EXCEPT ![i] = u], c, n)
<1> DEFINE ts2 == [ts EXCEPT ![i] = u]
           m == Answer(ts[i].turn, st)
           s2 == Append(s, m)
<1>a. ts[i].done => u.done
  OBVIOUS
<1>b. Past(ts[i]) => Past(u)
  OBVIOUS
<1>1. Writers(ts2, c, n) \subseteq Writers(ts, c, n) \ {i} /\ Open(ts2, c, n) \subseteq Open(ts, c, n)
      /\ IsSequence(ts2)
  <2> HIDE DEF m, s2
  <2>1. Open(ts2, c, n) \subseteq Open(ts, c, n) /\ Writers(ts2, c, n) \subseteq Writers(ts, c, n)
        /\ IsSequence(ts2)
    BY <1>a, <1>b, CountTurn
  <2>2. Past(u) => i \notin Writers(ts2, c, n)
    BY <1>a, <1>b, CountTurn
  <2> QED
    BY <2>1, <2>2
<1>2. IsSequence(s2)
  BY Appended
<1>3. m.role = "orquestrador" /\ m.turn = ts[i].turn /\ m.status = st
  BY DEF Answer
<1> HIDE DEF m
<1>4. /\ Cardinality(Asks(s2, n)) = Cardinality(Asks(s, n))
      /\ Cardinality(Given(s2, n)) = IF ts[i].turn = n THEN Cardinality(Given(s, n)) + 1 ELSE Cardinality(Given(s, n))
      /\ Cardinality(Cut(s2, n)) = Cardinality(Cut(s, n))
  <2>1. m.role # "humano" /\ ~ (m.role = "orquestrador" /\ m.turn = n /\ m.status = "interrompida")
        /\ ((m.role = "orquestrador" /\ m.turn = n /\ m.status # "interrompida") <=> ts[i].turn = n)
    BY <1>3
  <2> QED
    BY <2>1, CountAppended
<1>5. ts[i].turn = n => i \in Writers(ts, c, n)
  BY DEF Writers
<1> HIDE DEF ts2, s2
<1>6. /\ Cardinality(Writers(ts2, c, n)) <= Cardinality(Writers(ts, c, n))
      /\ i \in Writers(ts, c, n) => Cardinality(Writers(ts2, c, n)) + 1 <= Cardinality(Writers(ts, c, n))
      /\ Cardinality(Open(ts2, c, n)) <= Cardinality(Open(ts, c, n))
  BY <1>1, TurnsFinite, FS_Subset, OneLess
<1>7. /\ Cardinality(Open(ts2, c, n)) \in Nat /\ Cardinality(Open(ts, c, n)) \in Nat
      /\ Cardinality(Writers(ts2, c, n)) \in Nat /\ Cardinality(Writers(ts, c, n)) \in Nat
  BY <1>1, TurnsFinite
<1>8. /\ Cardinality(Asks(s, n)) \in Nat /\ Cardinality(Cut(s, n)) \in Nat /\ Cardinality(Given(s, n)) \in Nat
  BY CountsFinite
<1>9. Budget(s2, ts2, c, n)
  BY <1>4, <1>5, <1>6, <1>7, <1>8 DEF Budget
<1> QED
  BY <1>9 DEF ts2, s2, m

\* A turn made: it may count once more, of its own question.
LEMMA CountNewTurn ==
    ASSUME NEW ts, IsSequence(ts), NEW t, NEW c, NEW n
    PROVE  /\ IsSequence(Append(ts, t))
           /\ Open(Append(ts, t), c, n) \subseteq Open(ts, c, n) \cup {Len(ts) + 1}
           /\ Writers(Append(ts, t), c, n) \subseteq Writers(ts, c, n) \cup {Len(ts) + 1}
           /\ ~ (t.cid = c /\ t.turn = n) =>
                 /\ Open(Append(ts, t), c, n) \subseteq Open(ts, c, n)
                 /\ Writers(Append(ts, t), c, n) \subseteq Writers(ts, c, n)
<1> DEFINE ts2 == Append(ts, t)
           new == Len(ts) + 1
<1>1. /\ IsSequence(ts2) /\ DOMAIN ts2 = DOMAIN ts \cup {new}
      /\ (\A j \in DOMAIN ts : ts2[j] = ts[j]) /\ ts2[new] = t
  BY Appended
<1> HIDE DEF ts2, new
<1>2. /\ Open(ts2, c, n) \subseteq Open(ts, c, n) \cup {new}
      /\ ~ (t.cid = c /\ t.turn = n) => Open(ts2, c, n) \subseteq Open(ts, c, n)
  BY <1>1 DEF Open
<1>3. /\ Writers(ts2, c, n) \subseteq Writers(ts, c, n) \cup {new}
      /\ ~ (t.cid = c /\ t.turn = n) => Writers(ts2, c, n) \subseteq Writers(ts, c, n)
  BY <1>1 DEF Writers
<1> QED
  BY <1>1, <1>2, <1>3 DEF ts2, new

\* What gained an element has one more at most.
LEMMA OneMore ==
    ASSUME NEW T, IsFiniteSet(T), NEW x, NEW S, S \subseteq T \cup {x}
    PROVE  Cardinality(S) <= Cardinality(T) + 1 /\ Cardinality(S) \in Nat /\ Cardinality(T) \in Nat
<1>1. IsFiniteSet(T \cup {x}) /\ Cardinality(T \cup {x}) = IF x \in T THEN Cardinality(T) ELSE Cardinality(T) + 1
  BY FS_AddElement
<1>2. Cardinality(S) <= Cardinality(T \cup {x}) /\ IsFiniteSet(S)
  BY <1>1, FS_Subset
<1>3. Cardinality(S) \in Nat /\ Cardinality(T) \in Nat
  BY <1>2, FS_CardinalityType
<1> QED
  BY <1>1, <1>2, <1>3

\* A question with the turn that owes its answer.
LEMMA AskBudget ==
    ASSUME NEW ts, IsSequence(ts), NEW t, NEW c, NEW n, NEW s, IsSequence(s), NEW m,
           m.role = "humano", t.turn = m.turn, Budget(s, ts, c, n)
    PROVE  Budget(Append(s, m), Append(ts, t), c, n)
<1> DEFINE ts2 == Append(ts, t)
           s2 == Append(s, m)
<1>1. /\ IsSequence(ts2)
      /\ Open(ts2, c, n) \subseteq Open(ts, c, n) \cup {Len(ts) + 1}
      /\ Writers(ts2, c, n) \subseteq Writers(ts, c, n) \cup {Len(ts) + 1}
  BY CountNewTurn
<1>2. m.turn # n => /\ Open(ts2, c, n) \subseteq Open(ts, c, n)
                    /\ Writers(ts2, c, n) \subseteq Writers(ts, c, n)
  <2> SUFFICES ASSUME m.turn # n
               PROVE  /\ Open(ts2, c, n) \subseteq Open(ts, c, n)
                      /\ Writers(ts2, c, n) \subseteq Writers(ts, c, n)
    OBVIOUS
  <2>1. ~ (t.cid = c /\ t.turn = n)
    OBVIOUS
  <2> QED
    BY <2>1, CountNewTurn
<1>3. /\ Cardinality(Given(s2, n)) = Cardinality(Given(s, n))
      /\ Cardinality(Cut(s2, n)) = Cardinality(Cut(s, n))
      /\ Cardinality(Asks(s2, n)) = IF m.turn = n THEN Cardinality(Asks(s, n)) + 1 ELSE Cardinality(Asks(s, n))
  <2>1. m.role # "orquestrador" /\ (m.role = "humano" /\ m.turn = n <=> m.turn = n)
    OBVIOUS
  <2> QED
    BY <2>1, CountAppended
<1> HIDE DEF ts2, s2
<1>4. /\ Cardinality(Open(ts2, c, n)) <= Cardinality(Open(ts, c, n)) + 1
      /\ Cardinality(Writers(ts2, c, n)) <= Cardinality(Writers(ts, c, n)) + 1
  BY <1>1, TurnsFinite, OneMore
<1>5. m.turn # n => /\ Cardinality(Open(ts2, c, n)) <= Cardinality(Open(ts, c, n))
                    /\ Cardinality(Writers(ts2, c, n)) <= Cardinality(Writers(ts, c, n))
  BY <1>2, TurnsFinite, FS_Subset
<1>6. /\ Cardinality(Open(ts2, c, n)) \in Nat /\ Cardinality(Open(ts, c, n)) \in Nat
      /\ Cardinality(Writers(ts2, c, n)) \in Nat /\ Cardinality(Writers(ts, c, n)) \in Nat
  BY <1>1, TurnsFinite
<1>7. /\ Cardinality(Asks(s, n)) \in Nat /\ Cardinality(Cut(s, n)) \in Nat /\ Cardinality(Given(s, n)) \in Nat
  BY CountsFinite
<1>8. Budget(s2, ts2, c, n)
  BY <1>3, <1>4, <1>5, <1>6, <1>7 DEF Budget
<1> QED
  BY <1>8 DEF ts2, s2

\* A turn of another conversation.
LEMMA OtherBudget ==
    ASSUME NEW ts, IsSequence(ts), NEW t, NEW c, t.cid # c, NEW n, NEW s, IsSequence(s),
           Budget(s, ts, c, n)
    PROVE  Budget(s, Append(ts, t), c, n)
<1> DEFINE ts2 == Append(ts, t)
<1>1. /\ IsSequence(ts2)
      /\ Open(ts2, c, n) \subseteq Open(ts, c, n)
      /\ Writers(ts2, c, n) \subseteq Writers(ts, c, n)
  <2>1. ~ (t.cid = c /\ t.turn = n)
    OBVIOUS
  <2> QED
    BY <2>1, CountNewTurn
<1> HIDE DEF ts2
<1>2. /\ Cardinality(Open(ts2, c, n)) <= Cardinality(Open(ts, c, n))
      /\ Cardinality(Writers(ts2, c, n)) <= Cardinality(Writers(ts, c, n))
  BY <1>1, TurnsFinite, FS_Subset
<1>3. /\ Cardinality(Open(ts2, c, n)) \in Nat /\ Cardinality(Open(ts, c, n)) \in Nat
      /\ Cardinality(Writers(ts2, c, n)) \in Nat /\ Cardinality(Writers(ts, c, n)) \in Nat
  BY <1>1, TurnsFinite
<1>4. Budget(s, ts2, c, n)
  BY <1>2, <1>3, CountsFinite DEF Budget
<1> QED
  BY <1>4 DEF ts2

\* A question answered where it was asked.
LEMMA AnsweredBudget ==
    ASSUME NEW ts, IsSequence(ts), NEW c, NEW n, NEW s, IsSequence(s), NEW q, NEW a,
           q.role = "humano", a.role = "orquestrador", a.turn = q.turn, a.status # "interrompida",
           Budget(s, ts, c, n)
    PROVE  Budget(Append(Append(s, q), a), ts, c, n)
<1> DEFINE s1 == Append(s, q)
           s2 == Append(s1, a)
<1>1. IsSequence(s1)
  BY Appended
<1>2. /\ Cardinality(Given(s1, n)) = Cardinality(Given(s, n))
      /\ Cardinality(Cut(s1, n)) = Cardinality(Cut(s, n))
      /\ Cardinality(Asks(s1, n)) = IF q.turn = n THEN Cardinality(Asks(s, n)) + 1 ELSE Cardinality(Asks(s, n))
  <2>1. q.role # "orquestrador" /\ (q.role = "humano" /\ q.turn = n <=> q.turn = n)
    OBVIOUS
  <2> HIDE DEF s2
  <2> QED
    BY <2>1, CountAppended
<1> HIDE DEF s1
<1>3. /\ Cardinality(Asks(s2, n)) = Cardinality(Asks(s1, n))
      /\ Cardinality(Cut(s2, n)) = Cardinality(Cut(s1, n))
      /\ Cardinality(Given(s2, n)) = IF q.turn = n THEN Cardinality(Given(s1, n)) + 1 ELSE Cardinality(Given(s1, n))
  <2>1. a.role # "humano" /\ ~ (a.role = "orquestrador" /\ a.turn = n /\ a.status = "interrompida")
        /\ ((a.role = "orquestrador" /\ a.turn = n /\ a.status # "interrompida") <=> q.turn = n)
    OBVIOUS
  <2> QED
    BY <1>1, <2>1, CountAppended
<1> HIDE DEF s2
<1>4. /\ Cardinality(Asks(s, n)) \in Nat /\ Cardinality(Cut(s, n)) \in Nat /\ Cardinality(Given(s, n)) \in Nat
      /\ Cardinality(Open(ts, c, n)) \in Nat /\ Cardinality(Writers(ts, c, n)) \in Nat
  BY CountsFinite, TurnsFinite
<1>5. Budget(s2, ts, c, n)
  BY <1>2, <1>3, <1>4 DEF Budget
<1> QED
  BY <1>5 DEF s1, s2

\* The process ended: no turn is open, none writes.
LEMMA NoTurns ==
    ASSUME NEW c, NEW n
    PROVE  Open(<<>>, c, n) = {} /\ Writers(<<>>, c, n) = {} /\ IsSequence(<<>>)
<1>1. DOMAIN <<>> = {} /\ Len(<<>>) = 0 /\ <<>> = [j \in 1..0 |-> <<>>[j]]
  OBVIOUS
<1> QED
  BY <1>1 DEF Open, Writers, IsSequence

\* When the process ends, what was due is no longer counted, and what was written stays within bounds.
LEMMA EndedBudget ==
    ASSUME NEW ts, IsSequence(ts), NEW c, NEW n, NEW s, IsSequence(s), Budget(s, ts, c, n)
    PROVE  /\ Budget(s, <<>>, c, n)
           /\ Cardinality(Cut(s, n)) <= Cardinality(Asks(s, n))
           /\ Cardinality(Given(s, n)) <= Cardinality(Asks(s, n))
<1>1. Cardinality(Open(<<>>, c, n)) = 0 /\ Cardinality(Writers(<<>>, c, n)) = 0
  BY NoTurns, FS_EmptySet
<1>2. /\ Cardinality(Asks(s, n)) \in Nat /\ Cardinality(Cut(s, n)) \in Nat /\ Cardinality(Given(s, n)) \in Nat
      /\ Cardinality(Open(ts, c, n)) \in Nat /\ Cardinality(Writers(ts, c, n)) \in Nat
  BY CountsFinite, TurnsFinite
<1> QED
  BY <1>1, <1>2 DEF Budget

-----------------------------------------------------------------------------
(* The recovery of a file.                                                 *)

\* The questions without a reply, and the file with theirs.
Silent(s) == {j \in DOMAIN s : s[j].role = "humano" /\ Replies(s, s[j].turn) = {}}
Recovered(s) ==
    s \o [j \in 1..Cardinality(Silent(s)) |-> Answer(s[InOrder(Silent(s))[j]].turn, "interrompida")]

\* The file keeps what it had, and gets an interruption for each silent question.
LEMMA RecoveredIs ==
    ASSUME NEW s, IsSequence(s)
    PROVE  /\ IsSequence(Recovered(s)) /\ DOMAIN s \subseteq DOMAIN Recovered(s)
           /\ \A j \in DOMAIN s : Recovered(s)[j] = s[j]
           /\ \A j \in DOMAIN Recovered(s) \ DOMAIN s :
                 /\ j - Len(s) \in 1..Cardinality(Silent(s))
                 /\ InOrder(Silent(s))[j - Len(s)] \in Silent(s)
                 /\ Recovered(s)[j] = Answer(s[InOrder(Silent(s))[j - Len(s)]].turn, "interrompida")
           /\ \A q \in Silent(s) : \E j \in DOMAIN Recovered(s) :
                 Recovered(s)[j] = Answer(s[q].turn, "interrompida")
<1> DEFINE k == Cardinality(Silent(s))
           o == InOrder(Silent(s))
           r == [j \in 1..k |-> Answer(s[o[j]].turn, "interrompida")]
           s2 == Recovered(s)
<1>1. DOMAIN s = 1..Len(s) /\ Len(s) \in Nat /\ IsFiniteSet(DOMAIN s)
  BY DomainOf
<1>2. Silent(s) \subseteq Nat /\ IsFiniteSet(Silent(s))
  <2>1. Silent(s) \subseteq DOMAIN s
    BY DEF Silent
  <2> QED
    BY <1>1, <2>1, FS_Subset
<1>3. k \in Nat /\ o \in [1..k -> Silent(s)] /\ \A q \in Silent(s) : \E i \in 1..k : o[i] = q
  BY <1>2, InOrderIs
<1>4. IsSequence(r) /\ Len(r) = k /\ DOMAIN r = 1..k
  <2> HIDE DEF k, o
  <2>1. DOMAIN r = 1..k /\ Len(r) = k
    BY <1>3
  <2> QED
    BY <1>3, <2>1 DEF IsSequence
<1>5. s2 = s \o r
  BY DEF Recovered
<1> HIDE DEF r
<1>6. /\ IsSequence(s2) /\ Len(s2) = Len(s) + k
      /\ (\A j \in DOMAIN s : s2[j] = s[j]) /\ \A j \in 1..k : s2[Len(s) + j] = r[j]
  <2> HIDE DEF s2, k
  <2>1. IsSequence(r)
    BY <1>4
  <2>2. IsSequence(s2) /\ Len(s2) = Len(s) + k
    BY <1>4, <1>5, <2>1, Concatenated
  <2>3. \A i \in 1..Len(s) + k : s2[i] = IF i <= Len(s) THEN s[i] ELSE r[i - Len(s)]
    BY <1>4, <1>5, <2>1, Concatenated
  <2>4. ASSUME NEW j \in DOMAIN s PROVE s2[j] = s[j]
    BY <1>1, <1>3, <2>3
  <2>5. ASSUME NEW j \in 1..k PROVE s2[Len(s) + j] = r[j]
    <3>1. Len(s) + j \in 1..Len(s) + k /\ ~ Len(s) + j <= Len(s) /\ (Len(s) + j) - Len(s) = j
      BY <1>1, <1>3
    <3> QED
      BY <2>3, <3>1
  <2> QED
    BY <2>2, <2>4, <2>5
<1> HIDE DEF s2
<1>7. DOMAIN s2 = 1..(Len(s) + k)
  BY <1>6, DomainOf
<1> HIDE DEF k, o
<1>8. ASSUME NEW j \in DOMAIN s2, j \notin DOMAIN s
      PROVE  /\ j - Len(s) \in 1..k /\ o[j - Len(s)] \in Silent(s)
             /\ s2[j] = Answer(s[o[j - Len(s)]].turn, "interrompida")
  <2>1. j - Len(s) \in 1..k /\ Len(s) + (j - Len(s)) = j
    BY <1>1, <1>3, <1>7, <1>8
  <2>2. s2[j] = r[j - Len(s)]
    BY <1>6, <2>1
  <2> QED
    BY <1>3, <2>1, <2>2 DEF r
<1>9. ASSUME NEW q \in Silent(s)
      PROVE  \E j \in DOMAIN s2 : s2[j] = Answer(s[q].turn, "interrompida")
  <2>1. PICK i \in 1..k : o[i] = q
    BY <1>3
  <2>2. Len(s) + i \in DOMAIN s2
    BY <1>1, <1>3, <1>7
  <2>3. s2[Len(s) + i] = Answer(s[q].turn, "interrompida")
    BY <1>6, <2>1 DEF r
  <2> QED
    BY <2>2, <2>3
<1>10. DOMAIN s \subseteq DOMAIN s2
  BY <1>1, <1>3, <1>7
<1> QED
  BY <1>6, <1>8, <1>9, <1>10 DEF s2, k, o

\* An interruption is owed to each silent question, and only to it.
LEMMA RecoveredBudget ==
    ASSUME NEW s, IsSequence(s), NEW c, NEW n, Budget(s, <<>>, c, n)
    PROVE  Budget(Recovered(s), <<>>, c, n)
<1> DEFINE s2 == Recovered(s)
           o == InOrder(Silent(s))
           k == Cardinality(Silent(s))
<1>1. /\ IsSequence(s2) /\ DOMAIN s \subseteq DOMAIN s2
      /\ (\A j \in DOMAIN s : s2[j] = s[j])
      /\ \A j \in DOMAIN s2 \ DOMAIN s :
            /\ j - Len(s) \in 1..k /\ o[j - Len(s)] \in Silent(s)
            /\ s2[j] = Answer(s[o[j - Len(s)]].turn, "interrompida")
  BY RecoveredIs
<1>2. DOMAIN s = 1..Len(s) /\ Len(s) \in Nat /\ DOMAIN s2 = 1..Len(s2) /\ Len(s2) \in Nat
  BY <1>1, DomainOf
<1>3. \A i, j \in 1..k : i # j => o[i] # o[j]
  <2>1. Silent(s) \subseteq DOMAIN s /\ IsFiniteSet(DOMAIN s) /\ DOMAIN s \subseteq Nat
    BY <1>2, DomainOf DEF Silent
  <2>2. Silent(s) \subseteq Nat /\ IsFiniteSet(Silent(s))
    BY <2>1, FS_Subset
  <2> QED
    BY <2>2, InOrderIs
<1> HIDE DEF s2, o, k
<1>4. \A j \in DOMAIN s2 \ DOMAIN s :
         /\ s2[j].role = "orquestrador" /\ s2[j].status = "interrompida"
         /\ s2[j].turn = s[o[j - Len(s)]].turn
  BY <1>1 DEF Answer
<1>5. Asks(s2, n) = Asks(s, n) /\ Given(s2, n) = Given(s, n)
  BY <1>1, <1>4 DEF Asks, Given, Cut, Replies
<1>6. Cardinality(Cut(s2, n)) <= Cardinality(Asks(s, n))
  <2>1. CASE Replies(s, n) # {}
    <3>1. Cut(s2, n) = Cut(s, n)
      BY <1>1, <1>4, <2>1 DEF Cut, Replies, Silent
    <3> QED
      BY <3>1, NoTurns, EndedBudget
  <2>2. CASE Replies(s, n) = {}
    <3> DEFINE f == [j \in Cut(s2, n) |-> o[j - Len(s)]]
    <3>1. \A j \in Cut(s2, n) : j \in DOMAIN s2 \ DOMAIN s /\ s2[j].turn = n
      BY <1>1, <2>2 DEF Cut, Replies
    <3>2. \A j \in Cut(s2, n) : f[j] \in Asks(s, n)
      BY <1>1, <1>4, <3>1 DEF Asks, Silent
    <3>3. \A i, j \in Cut(s2, n) : i # j => f[i] # f[j]
      <4> SUFFICES ASSUME NEW i \in Cut(s2, n), NEW j \in Cut(s2, n), i # j
                   PROVE  o[i - Len(s)] # o[j - Len(s)]
        OBVIOUS
      <4>1. i - Len(s) \in 1..k /\ j - Len(s) \in 1..k /\ i - Len(s) # j - Len(s)
        BY <1>1, <1>2, <3>1
      <4> QED
        BY <1>3, <4>1
    <3>4. f \in Injection(Cut(s2, n), Asks(s, n))
      BY <3>2, <3>3 DEF Injection, IsInjective
    <3> QED
      BY <3>4, CountsFinite, FS_Injection
  <2> QED
    BY <2>1, <2>2
<1>7. Cardinality(Given(s2, n)) <= Cardinality(Asks(s, n))
  BY <1>5, NoTurns, EndedBudget
<1>8. Cardinality(Open(<<>>, c, n)) = 0 /\ Cardinality(Writers(<<>>, c, n)) = 0
  BY NoTurns, FS_EmptySet
<1>9. Cardinality(Cut(s2, n)) \in Nat /\ Cardinality(Given(s2, n)) \in Nat
  BY <1>1, CountsFinite
<1>10. Budget(s2, <<>>, c, n)
  BY <1>5, <1>6, <1>7, <1>8, <1>9 DEF Budget
<1> QED
  BY <1>10 DEF s2

\* Afterwards every question has its reply.
LEMMA RecoveredOwed ==
    ASSUME NEW s, IsSequence(s), NEW ts, NEW c
    PROVE  Owed(Recovered(s), ts, c)
<1> DEFINE s2 == Recovered(s)
<1>1. /\ DOMAIN s \subseteq DOMAIN s2 /\ (\A j \in DOMAIN s : s2[j] = s[j])
      /\ (\A j \in DOMAIN s2 \ DOMAIN s : s2[j].role = "orquestrador")
      /\ \A q \in Silent(s) : \E j \in DOMAIN s2 : s2[j] = Answer(s[q].turn, "interrompida")
  BY RecoveredIs DEF Answer
<1> HIDE DEF s2
<1>2. ASSUME NEW j \in DOMAIN s2, s2[j].role = "humano" PROVE Replies(s2, s2[j].turn) # {}
  <2>1. j \in DOMAIN s /\ s2[j] = s[j]
    BY <1>1, <1>2
  <2>2. CASE j \in Silent(s)
    <3>1. PICK l \in DOMAIN s2 : s2[l] = Answer(s[j].turn, "interrompida")
      BY <1>1, <2>2
    <3>2. s2[l].role = "orquestrador" /\ s2[l].turn = s2[j].turn
      BY <2>1, <3>1 DEF Answer
    <3> QED
      BY <3>2 DEF Replies
  <2>3. CASE j \notin Silent(s)
    <3>1. PICK l \in Replies(s, s[j].turn) : TRUE
      BY <1>2, <2>1, <2>3 DEF Silent
    <3> QED
      BY <1>1, <2>1, <3>1 DEF Replies
  <2> QED
    BY <2>2, <2>3
<1>3. Owed(s2, ts, c)
  BY <1>2 DEF Owed
<1> QED
  BY <1>3 DEF s2

\* No question is added, so no image is.
LEMMA RecoveredImages ==
    ASSUME NEW s, IsSequence(s), NEW imgs, ImagesIn(s, imgs)
    PROVE  ImagesIn(Recovered(s), imgs)
<1> DEFINE s2 == Recovered(s)
<1>1. /\ (\A j \in DOMAIN s : s2[j] = s[j])
      /\ (\A j \in DOMAIN s2 \ DOMAIN s : s2[j].role = "orquestrador")
  BY RecoveredIs DEF Answer
<1> HIDE DEF s2
<1>2. ImagesIn(s2, imgs)
  BY <1>1 DEF ImagesIn
<1> QED
  BY <1>2 DEF s2

-----------------------------------------------------------------------------
(* What keeps each question answered or about to be.                       *)

\* A file that grew, of which each new question is provided for, and turns that
\* closed leaving a reply.
LEMMA OwedStep ==
    ASSUME NEW s, NEW s2, NEW ts, NEW ts2, NEW c, Owed(s, ts, c),
           DOMAIN s \subseteq DOMAIN s2, \A j \in DOMAIN s : s2[j] = s[j],
           \A j \in DOMAIN s2 \ DOMAIN s : s2[j].role = "humano" =>
              Replies(s2, s2[j].turn) # {} \/ Open(ts2, c, s2[j].turn) # {},
           \A n : Open(ts, c, n) # {} => Replies(s2, n) # {} \/ Open(ts2, c, n) # {}
    PROVE  Owed(s2, ts2, c)
<1> SUFFICES ASSUME NEW j \in DOMAIN s2, s2[j].role = "humano"
             PROVE  Replies(s2, s2[j].turn) # {} \/ Open(ts2, c, s2[j].turn) # {}
  BY DEF Owed
<1>1. CASE j \in DOMAIN s
  <2>1. s[j].role = "humano" /\ s2[j].turn = s[j].turn
    BY <1>1
  <2>2. Replies(s, s[j].turn) # {} \/ Open(ts, c, s[j].turn) # {}
    BY <1>1, <2>1 DEF Owed
  <2>3. Replies(s, s[j].turn) \subseteq Replies(s2, s[j].turn)
    BY DEF Replies
  <2> QED
    BY <2>1, <2>2, <2>3
<1>2. CASE j \notin DOMAIN s
  BY <1>2
<1> QED
  BY <1>1, <1>2

\* A changed turn, and what stays open.
LEMMA OpenAfter ==
    ASSUME NEW ts, IsSequence(ts), NEW i \in DOMAIN ts, NEW u, NEW c, NEW n,
           u.cid = ts[i].cid, u.turn = ts[i].turn
    PROVE  /\ Open(ts, c, n) \subseteq Open([ts EXCEPT ![i] = u], c, n) \cup {i}
           /\ u.done = ts[i].done => Open(ts, c, n) \subseteq Open([ts EXCEPT ![i] = u], c, n)
           /\ i \in Open(ts, c, n) => ts[i].cid = c /\ ts[i].turn = n
<1> DEFINE ts2 == [ts EXCEPT ![i] = u]
<1>1. DOMAIN ts2 = DOMAIN ts /\ ts2[i] = u /\ \A j \in DOMAIN ts : j # i => ts2[j] = ts[j]
  BY DEF IsSequence
<1> HIDE DEF ts2
<1>2. /\ Open(ts, c, n) \subseteq Open(ts2, c, n) \cup {i}
      /\ u.done = ts[i].done => Open(ts, c, n) \subseteq Open(ts2, c, n)
      /\ i \in Open(ts, c, n) => ts[i].cid = c /\ ts[i].turn = n
  BY <1>1 DEF Open
<1> QED
  BY <1>2 DEF ts2

\* A step of a turn that closes nothing, or a turn of another conversation.
LEMMA QuietOwed ==
    ASSUME NEW ts, IsSequence(ts), NEW i \in DOMAIN ts, NEW u, NEW c, NEW s,
           u.cid = ts[i].cid, u.turn = ts[i].turn,
           u.done = ts[i].done \/ ts[i].cid # c, Owed(s, ts, c)
    PROVE  Owed(s, [ts EXCEPT ![i] = u], c)
<1> DEFINE ts2 == [ts EXCEPT ![i] = u]
<1>1. ASSUME NEW n, Open(ts, c, n) # {} PROVE Open(ts2, c, n) # {}
  <2> HIDE DEF ts2
  <2>1. PICK j \in Open(ts, c, n) : TRUE
    BY <1>1
  <2>2. j \in Open(ts2, c, n)
    BY <2>1, OpenAfter DEF ts2
  <2> QED
    BY <2>2
<1> HIDE DEF ts2
<1>2. Owed(s, ts2, c)
  BY <1>1 DEF Owed
<1> QED
  BY <1>2 DEF ts2

\* A turn changed, and a reply of its number written.
LEMMA WriteOwed ==
    ASSUME NEW ts, IsSequence(ts), NEW i \in DOMAIN ts, NEW u, NEW c, NEW s, IsSequence(s), NEW a,
           u.cid = ts[i].cid, u.turn = ts[i].turn,
           a.role = "orquestrador", a.turn = ts[i].turn, Owed(s, ts, c)
    PROVE  Owed(Append(s, a), [ts EXCEPT ![i] = u], c)
<1> DEFINE ts2 == [ts EXCEPT ![i] = u]
           s2 == Append(s, a)
           new == Len(s) + 1
<1>1. /\ DOMAIN s2 = DOMAIN s \cup {new} /\ new \notin DOMAIN s
      /\ (\A j \in DOMAIN s : s2[j] = s[j]) /\ s2[new] = a
  BY Appended
<1> HIDE DEF s2, new
<1>2. ASSUME NEW n, Open(ts, c, n) # {} PROVE Replies(s2, n) # {} \/ Open(ts2, c, n) # {}
  <2> HIDE DEF ts2
  <2>1. PICK j \in Open(ts, c, n) : TRUE
    BY <1>2
  <2>2. j \in Open(ts2, c, n) \/ (j = i /\ ts[i].turn = n)
    BY <2>1, OpenAfter DEF ts2
  <2>3. ts[i].turn = n => new \in Replies(s2, n)
    BY <1>1 DEF Replies
  <2> QED
    BY <2>2, <2>3
<1> HIDE DEF ts2
<1>3. \A j \in DOMAIN s2 \ DOMAIN s : s2[j].role # "humano"
  BY <1>1
<1>4. Owed(s2, ts2, c)
  BY <1>1, <1>2, <1>3, OwedStep
<1> QED
  BY <1>4 DEF s2, ts2

\* A turn made: what was open stays open.
LEMMA OpenAppended ==
    ASSUME NEW ts, IsSequence(ts), NEW t, NEW c, NEW n
    PROVE  /\ Open(ts, c, n) \subseteq Open(Append(ts, t), c, n)
           /\ ~t.done /\ t.cid = c /\ t.turn = n => Open(Append(ts, t), c, n) # {}
<1> DEFINE ts2 == Append(ts, t)
           new == Len(ts) + 1
<1>1. /\ DOMAIN ts2 = DOMAIN ts \cup {new}
      /\ (\A j \in DOMAIN ts : ts2[j] = ts[j]) /\ ts2[new] = t
  BY Appended
<1> HIDE DEF ts2, new
<1>2. Open(ts, c, n) \subseteq Open(ts2, c, n)
  BY <1>1 DEF Open
<1>3. ~t.done /\ t.cid = c /\ t.turn = n => new \in Open(ts2, c, n)
  BY <1>1 DEF Open
<1> QED
  BY <1>2, <1>3 DEF ts2

\* A turn made for any conversation closes nothing.
LEMMA OtherOwed ==
    ASSUME NEW ts, IsSequence(ts), NEW t, NEW c, NEW s, Owed(s, ts, c)
    PROVE  Owed(s, Append(ts, t), c)
<1> DEFINE ts2 == Append(ts, t)
<1>1. \A n : Open(ts, c, n) \subseteq Open(ts2, c, n)
  BY OpenAppended
<1> HIDE DEF ts2
<1>2. Owed(s, ts2, c)
  <2>1. \A n : Open(ts, c, n) # {} => Open(ts2, c, n) # {}
    BY <1>1
  <2> QED
    BY <2>1 DEF Owed
<1> QED
  BY <1>2 DEF ts2

\* A question with its turn.
LEMMA AskOwed ==
    ASSUME NEW ts, IsSequence(ts), NEW t, NEW c, NEW s, IsSequence(s), NEW q,
           ~t.done, t.cid = c, t.turn = q.turn, Owed(s, ts, c)
    PROVE  Owed(Append(s, q), Append(ts, t), c)
<1> DEFINE ts2 == Append(ts, t)
           s2 == Append(s, q)
           new == Len(s) + 1
<1>1. /\ DOMAIN s2 = DOMAIN s \cup {new} /\ new \notin DOMAIN s
      /\ (\A j \in DOMAIN s : s2[j] = s[j]) /\ s2[new] = q
  BY Appended
<1> HIDE DEF s2, new
<1>2. /\ \A n : Open(ts, c, n) \subseteq Open(ts2, c, n)
      /\ Open(ts2, c, q.turn) # {}
  BY OpenAppended
<1> HIDE DEF ts2
<1>3. \A n : Open(ts, c, n) # {} => Open(ts2, c, n) # {}
  BY <1>2
<1>4. \A j \in DOMAIN s2 \ DOMAIN s : Open(ts2, c, s2[j].turn) # {}
  BY <1>1, <1>2
<1>5. Owed(s2, ts2, c)
  BY <1>1, <1>3, <1>4, OwedStep
<1> QED
  BY <1>5 DEF s2, ts2

\* A question answered where it was asked.
LEMMA AnsweredOwed ==
    ASSUME NEW ts, NEW c, NEW s, IsSequence(s), NEW q, NEW a,
           q.role = "humano", a.role = "orquestrador", a.turn = q.turn, Owed(s, ts, c)
    PROVE  Owed(Append(Append(s, q), a), ts, c)
<1> DEFINE s1 == Append(s, q)
           s2 == Append(s1, a)
           n1 == Len(s) + 1
           n2 == Len(s1) + 1
<1>1. /\ IsSequence(s1) /\ DOMAIN s1 = DOMAIN s \cup {n1}
      /\ (\A j \in DOMAIN s : s1[j] = s[j]) /\ s1[n1] = q
  BY Appended
<1> HIDE DEF s1, n1
<1>2. /\ DOMAIN s2 = DOMAIN s1 \cup {n2}
      /\ (\A j \in DOMAIN s1 : s2[j] = s1[j]) /\ s2[n2] = a
  BY <1>1, Appended
<1> HIDE DEF s2, n2
<1>3. n2 \in Replies(s2, q.turn)
  BY <1>2 DEF Replies
<1>4. DOMAIN s \subseteq DOMAIN s2 /\ \A j \in DOMAIN s : s2[j] = s[j]
  BY <1>1, <1>2
<1>5. \A j \in DOMAIN s2 \ DOMAIN s : s2[j].role = "humano" => Replies(s2, s2[j].turn) # {}
  <2> SUFFICES ASSUME NEW j \in DOMAIN s2 \ DOMAIN s, s2[j].role = "humano"
               PROVE  Replies(s2, s2[j].turn) # {}
    OBVIOUS
  <2>1. j = n1 /\ s2[j] = q
    BY <1>1, <1>2
  <2> QED
    BY <1>3, <2>1
<1>6. Owed(s2, ts, c)
  BY <1>4, <1>5, OwedStep
<1> QED
  BY <1>6 DEF s1, s2

-----------------------------------------------------------------------------
(* The images of a file.                                                   *)

\* One more message, whose images are there.
LEMMA ImagesAppended ==
    ASSUME NEW s, IsSequence(s), NEW m, NEW imgs, ImagesIn(s, imgs),
           m.role = "humano" => m.images \subseteq imgs
    PROVE  ImagesIn(Append(s, m), imgs)
<1> DEFINE s2 == Append(s, m)
           new == Len(s) + 1
<1>1. /\ DOMAIN s2 = DOMAIN s \cup {new}
      /\ (\A j \in DOMAIN s : s2[j] = s[j]) /\ s2[new] = m
  BY Appended
<1> HIDE DEF s2, new
<1>2. ImagesIn(s2, imgs)
  BY <1>1 DEF ImagesIn
<1> QED
  BY <1>2 DEF s2

\* `\o` with two messages.
LEMMA TwoMore ==
    ASSUME NEW s, IsSequence(s), NEW q, NEW a
    PROVE  s \o <<q, a>> = Append(Append(s, q), a)
<1> DEFINE r == <<q, a>>
           s1 == Append(s, q)
           s2 == Append(s1, a)
<1>1. DOMAIN s = 1..Len(s) /\ Len(s) \in Nat
  BY DomainOf
<1>2. IsSequence(r) /\ Len(r) = 2 /\ r[1] = q /\ r[2] = a
  BY DEF IsSequence
<1>3. /\ IsSequence(s1) /\ Len(s1) = Len(s) + 1 /\ DOMAIN s1 = DOMAIN s \cup {Len(s) + 1}
      /\ (\A j \in DOMAIN s : s1[j] = s[j]) /\ s1[Len(s) + 1] = q
  BY Appended
<1> HIDE DEF r, s1
<1>4. /\ IsSequence(s2) /\ Len(s2) = Len(s1) + 1
      /\ (\A j \in DOMAIN s1 : s2[j] = s1[j]) /\ s2[Len(s1) + 1] = a
  BY <1>3, Appended
<1>5. /\ IsSequence(s \o r) /\ Len(s \o r) = Len(s) + Len(r)
      /\ \A i \in 1..Len(s) + Len(r) : (s \o r)[i] = IF i <= Len(s) THEN s[i] ELSE r[i - Len(s)]
  BY <1>2, Concatenated
<1> HIDE DEF s2
<1>6. ASSUME NEW i \in 1..Len(s) + 2 PROVE (s \o r)[i] = s2[i]
  <2>1. CASE i \in 1..Len(s)
    <3>1. i <= Len(s)
      BY <1>1, <2>1
    <3>2. (s \o r)[i] = s[i]
      BY <1>2, <1>5, <1>6, <3>1
    <3> QED
      BY <1>1, <1>3, <1>4, <2>1, <3>2
  <2>2. CASE i = Len(s) + 1
    <3>1. ~ i <= Len(s) /\ i - Len(s) = 1
      BY <1>1, <2>2
    <3>2. (s \o r)[i] = q
      BY <1>2, <1>5, <1>6, <3>1
    <3> QED
      BY <1>3, <1>4, <2>2, <3>2
  <2>3. CASE i = Len(s) + 2
    <3>1. ~ i <= Len(s) /\ i - Len(s) = 2 /\ Len(s1) + 1 = i
      BY <1>1, <1>3, <2>3
    <3>2. (s \o r)[i] = a
      BY <1>2, <1>5, <1>6, <3>1
    <3> QED
      BY <1>4, <3>1, <3>2
  <2>4. \A n \in Nat : \A l \in 1..n + 2 : l \in 1..n \/ l = n + 1 \/ l = n + 2
    OBVIOUS
  <2>5. i \in 1..Len(s) \/ i = Len(s) + 1 \/ i = Len(s) + 2
    BY <1>1, <1>6, <2>4
  <2> QED
    BY <2>1, <2>2, <2>3, <2>5
<1>7. Len(s2) = Len(s) + 2 /\ Len(s \o r) = Len(s) + 2
  BY <1>1, <1>2, <1>3, <1>4, <1>5
<1>8. s \o r = s2
  BY <1>4, <1>5, <1>6, <1>7 DEF IsSequence
<1> QED
  BY <1>8 DEF r, s1, s2

-----------------------------------------------------------------------------
(* One open turn in the whole server.                                      *)

Fields == {"cid", "turn", "stop", "done", "at", "proc", "killed", "reset", "status"}

\* A Turn object: what the class declares.
IsTurn(t) ==
    /\ t = [f \in Fields |-> t[f]]
    /\ t.done \in BOOLEAN
    /\ t.at \in {"finally", "over"} => t.done

\* Turns are a sequence of Turn objects, and only the active one may be open:
\* the thread that empties `active` has finished its own turn before.
TurnsInv ==
    /\ Len(turns) \in Nat
    /\ turns = [i \in 1..Len(turns) |-> turns[i]]
    /\ \A i \in DOMAIN turns : IsTurn(turns[i])
    /\ \A i \in Living : active = i

-----------------------------------------------------------------------------
(* A new Turn is one, and so is a changed one.                             *)

\* A new Turn is open.
LEMMA TurnIsTurn == \A c, n : IsTurn(Turn(c, n)) /\ Turn(c, n).done = FALSE
BY DEF IsTurn, Turn, Fields

\* A finished Turn is one, and done.
LEMMA FinishedIsTurn == \A t : IsTurn(Finished(t)) /\ Finished(t).done = TRUE
BY TurnIsTurn DEF IsTurn, Finished, Turn, Fields

\* A turn replaced by a turn that is open only if the old one was.
LEMMA SetTurn ==
    ASSUME TurnsInv, NEW i \in DOMAIN turns, NEW t, IsTurn(t),
           turns[i].done => t.done, Set(i, t), UNCHANGED active
    PROVE  TurnsInv'
<1>1. DOMAIN turns = 1..Len(turns)
  BY DEF TurnsInv
<1>2. turns' = [j \in 1..Len(turns) |-> IF j = i THEN t ELSE turns[j]]
  BY <1>1 DEF Set
<1>3. Len(turns') = Len(turns) /\ DOMAIN turns' = DOMAIN turns
  BY <1>1, <1>2 DEF TurnsInv
<1> QED
  BY <1>1, <1>2, <1>3 DEF TurnsInv, Living

\* One open turn follows: all of them are the active one.
LEMMA TurnsInvImplies == TurnsInv => OneActiveTurn
<1> SUFFICES ASSUME TurnsInv PROVE Cardinality(Living) <= 1
  BY DEF OneActiveTurn
<1>1. Living \subseteq {active}
  BY DEF TurnsInv
<1>2. IsFiniteSet({active}) /\ Cardinality({active}) = 1
  BY FS_Singleton
<1> QED
  BY <1>1, <1>2, FS_Subset, FS_CardinalityType

-----------------------------------------------------------------------------
(* The steps.                                                              *)

\* A Turn appended to the turns.
LEMMA SendTurns ==
    ASSUME TurnsInv, NEW t, turns' = Append(turns, t)
    PROVE  /\ Len(turns') = Len(turns) + 1
           /\ turns' = [i \in 1..(Len(turns) + 1) |-> IF i = Len(turns) + 1 THEN t ELSE turns[i]]
<1> DEFINE n == Len(turns)
           S == {turns[i] : i \in 1..n} \cup {t}
<1>1. n \in Nat /\ turns \in [1..n -> S] /\ t \in S
  BY DEF TurnsInv
<1>2. turns \in Seq(S)
  BY <1>1, SeqDef
<1> HIDE DEF S
<1>3. Append(turns, t) \in Seq(S) /\ Len(turns') = n + 1
  BY <1>1, <1>2, AppendProperties
<1>4. \A i \in 1..(n + 1) : turns'[i] = IF i = n + 1 THEN t ELSE turns[i]
  BY <1>1, <1>2, AppendProperties
<1> HIDE DEF n
<1>5. turns' = [i \in 1..(n + 1) |-> IF i = n + 1 THEN t ELSE turns[i]]
  BY <1>3, <1>4, LenProperties
<1> QED
  BY <1>3, <1>5 DEF n

\* A new turn: the lock is held, and the old one is done.
LEMMA SendStep ==
    ASSUME TurnsInv, NEW k \in Clients, send(k)
    PROVE  TurnsInv'
<1>1. CASE sendUnavailable(k)
  BY <1>1 DEF sendUnavailable, TurnsInv, Living
<1>2. CASE sendAccepted(k)
  <2> DEFINE n == Len(turns)
             t == Turn(sending[k].cid, NextTurn(Seen(k)))
  <2>1. turns' = Append(turns, t) /\ active' = n + 1
    BY <1>2 DEF sendAccepted
  <2>2. n \in Nat /\ DOMAIN turns = 1..n
    BY DEF TurnsInv
  <2>4. IsTurn(t) /\ ~t.done
    BY TurnIsTurn
  <2> HIDE DEF t
  <2>5. /\ turns' = [i \in 1..(n + 1) |-> IF i = n + 1 THEN t ELSE turns[i]]
        /\ Len(turns') = n + 1
    BY <2>1, SendTurns
  <2> HIDE DEF n
  <2>6. \A i \in 1..n : turns[i].done
    <3> SUFFICES ASSUME NEW i \in 1..n, ~turns[i].done PROVE FALSE
      OBVIOUS
    <3>1. active = i
      BY <2>2 DEF TurnsInv, Living
    <3>2. Busy
      BY <3>1, <2>2 DEF Busy
    <3> QED
      BY <3>2 DEF send, Admitted
  <2> QED
    BY <2>1, <2>2, <2>4, <2>5, <2>6 DEF TurnsInv, Living
<1> QED
  BY <1>1, <1>2 DEF send

\* The end of a thread: its own turn is done, so no open turn loses `active`.
LEMMA FinallyStep ==
    ASSUME TurnsInv, NEW i \in DOMAIN turns, finally(i)
    PROVE  TurnsInv'
<1> DEFINE t == [turns[i] EXCEPT !.at = "over"]
<1>1. turns[i].at = "finally" /\ Set(i, t) /\ active' = IF active = i THEN 0 ELSE active
  BY DEF finally, Step
<1>2. IsTurn(turns[i]) /\ turns[i].done /\ DOMAIN turns = 1..Len(turns)
  BY <1>1 DEF TurnsInv, IsTurn
<1>3. IsTurn(t) /\ t.done
  BY <1>2 DEF IsTurn, Fields
<1> HIDE DEF t
<1>4. turns' = [j \in 1..Len(turns) |-> IF j = i THEN t ELSE turns[j]]
  BY <1>1, <1>2 DEF Set
<1>5. Len(turns') = Len(turns) /\ DOMAIN turns' = DOMAIN turns
  BY <1>2, <1>4 DEF TurnsInv
<1> QED
  BY <1>1, <1>2, <1>3, <1>4, <1>5 DEF TurnsInv, Living

\* Every other step of a thread leaves `active`, and a closed turn closed.
LEMMA ThreadStep ==
    ASSUME TurnsInv, NEW i \in DOMAIN turns, Thread(i)
    PROVE  TurnsInv'
<1> USE DEF Step, Fields, process, files
<1>1. IsTurn(turns[i])
  BY DEF TurnsInv
<1>2. CASE spawn(i)
  <2>1. CASE Set(i, [turns[i] EXCEPT !.at = "spawned", !.proc = "alive", !.killed = FALSE])
             /\ turns[i].at = "starting"
    BY <1>1, <1>2, <2>1, SetTurn DEF spawn, IsTurn
  <2>2. CASE Set(i, [turns[i] EXCEPT !.at = "ended", !.status = "erro"])
             /\ turns[i].at = "starting"
    BY <1>1, <1>2, <2>2, SetTurn DEF spawn, IsTurn
  <2> QED
    BY <1>2, <2>1, <2>2 DEF spawn
<1>3. CASE checkStop(i)
  BY <1>1, <1>3, SetTurn DEF checkStop, IsTurn
<1>4. CASE timeOut(i)
  BY <1>1, <1>4, SetTurn DEF timeOut, IsTurn, Kill
<1>5. CASE readEnds(i)
  BY <1>1, <1>5, SetTurn DEF readEnds, IsTurn
<1>6. CASE sessionReset(i)
  BY <1>1, <1>6, SetTurn DEF sessionReset, IsTurn
<1>7. CASE finishInterrupted(i)
  BY <1>7, FinishedIsTurn, SetTurn DEF finishInterrupted
<1>8. CASE finishOrdinary(i)
  BY <1>1, <1>8, SetTurn DEF finishOrdinary, IsTurn
<1>9. CASE finishWrites(i)
  BY <1>9, FinishedIsTurn, SetTurn DEF finishWrites
<1>10. CASE fails(i)
  <2>1. CASE turns[i].done
    BY <1>10, <2>1, FinishedIsTurn, SetTurn DEF fails
  <2>2. CASE ~turns[i].done
    BY <1>1, <1>10, <2>2, SetTurn DEF fails, IsTurn
  <2> QED
    BY <2>1, <2>2
<1>11. CASE finally(i)
  BY <1>11, FinallyStep
<1> QED
  BY <1>2, <1>3, <1>4, <1>5, <1>6, <1>7, <1>8, <1>9, <1>10, <1>11 DEF Thread

\* Whoever stops a turn or closes it for the server never opens one.
LEMMA StopStep ==
    ASSUME TurnsInv,
           \/ \E i \in DOMAIN turns : cancel(i)
           \/ shutdown \/ shutdownCloses \/ exit,
           active \in {0} \cup DOMAIN turns, closing \in {0} \cup DOMAIN turns
    PROVE  TurnsInv'
<1> USE DEF process, files
<1>1. ASSUME NEW i \in DOMAIN turns, cancel(i)
      PROVE  TurnsInv'
  <2>1. PICK reason : Set(i, Kill([turns[i] EXCEPT !.stop = reason])) /\ UNCHANGED active
    BY <1>1 DEF cancel
  <2>2. IsTurn(turns[i])
    BY DEF TurnsInv
  <2> QED
    BY <2>1, <2>2, SetTurn DEF IsTurn, Kill, Fields
<1>2. CASE shutdown
  <2>1. CASE Busy
    <3>1. active \in DOMAIN turns /\ IsTurn(turns[active])
      BY <2>1 DEF Busy, TurnsInv
    <3>2. Set(active, Kill([turns[active] EXCEPT !.stop = "reinicio"])) /\ UNCHANGED active
      BY <1>2, <2>1 DEF shutdown
    <3> QED
      BY <3>1, <3>2, SetTurn DEF IsTurn, Kill, Fields
  <2>2. CASE ~Busy
    BY <1>2, <2>2 DEF shutdown, TurnsInv, Living
  <2> QED
    BY <2>1, <2>2
<1>3. CASE shutdownCloses
  <2>1. closing \in DOMAIN turns /\ IsTurn(turns[closing])
    BY <1>3 DEF shutdownCloses, TurnsInv
  <2>2. CASE turns[closing].done
    BY <1>3, <2>2 DEF shutdownCloses, TurnsInv, Living
  <2>3. CASE ~turns[closing].done
    BY <1>3, <2>1, <2>3, SetTurn DEF shutdownCloses, IsTurn, Fields
  <2> QED
    BY <2>2, <2>3
<1>4. CASE exit
  BY <1>4 DEF exit, TurnsInv, Living
<1> QED
  BY <1>1, <1>2, <1>3, <1>4

\* The numbers the engine keeps are numbers of turns.
Numbers == active \in {0} \cup DOMAIN turns /\ closing \in {0} \cup DOMAIN turns

Inv == TurnsInv /\ Numbers

\* Turns are added and replaced, never dropped before the process ends.
LEMMA NumbersStep ==
    ASSUME Inv, [Next]_vars
    PROVE  Numbers'
<1> USE DEF Inv, Numbers, process, files
<1>1. ASSUME NEW k \in Clients, send(k)
      PROVE  Numbers'
  <2>1. CASE sendUnavailable(k)
    BY <1>1, <2>1 DEF send, sendUnavailable
  <2>2. CASE sendAccepted(k)
    <3>1. Len(turns) \in Nat /\ DOMAIN turns = 1..Len(turns)
      BY DEF TurnsInv
    <3>2. DOMAIN turns' = 1..(Len(turns) + 1)
      BY <2>2, <3>1, SendTurns DEF sendAccepted
    <3> QED
      BY <1>1, <2>2, <3>1, <3>2 DEF send, sendAccepted
  <2> QED
    BY <1>1, <2>1, <2>2 DEF send
<1>2. CASE \E i \in DOMAIN turns : Thread(i) \/ cancel(i)
  <2>1. DOMAIN turns' = DOMAIN turns
    BY <1>2 DEF Thread, spawn, checkStop, timeOut, readEnds, sessionReset, finishInterrupted,
       finishOrdinary, finishWrites, fails, finally, cancel, Step, Set
  <2> QED
    BY <1>2, <2>1 DEF Thread, spawn, checkStop, timeOut, readEnds, sessionReset,
       finishInterrupted, finishOrdinary, finishWrites, fails, finally, cancel
<1>3. CASE shutdown \/ shutdownCloses \/ exit
  BY <1>3 DEF shutdown, shutdownCloses, exit, Set
<1> QED
  BY <1>1, <1>2, <1>3 DEF Next, vars, upload, remove_attachment, sendReads, sendRefused, signal, start

\* Every step keeps the turns exclusive.
LEMMA TurnsStep ==
    ASSUME Inv, [Next]_vars
    PROVE  TurnsInv'
<1> USE DEF Inv, process, files
<1>1. ASSUME UNCHANGED <<turns, active>>
      PROVE  TurnsInv'
  BY <1>1 DEF TurnsInv, Living
<1> QED
  BY <1>1, SendStep, ThreadStep, StopStep
  DEF Next, vars, upload, remove_attachment, sendReads, sendRefused, signal, start, Numbers

\* One turn is open in the whole server, for any number of conversations,
\* clients, questions and restarts (Engine.send, _run, shutdown).
THEOREM TurnsAreExclusive == Spec => []OneActiveTurn
<1>1. Init => Inv
  BY DEF Init, Inv, TurnsInv, Numbers, Living
<1>2. Inv /\ [Next]_vars => Inv'
  BY NumbersStep, TurnsStep DEF Inv
<1>3. Inv => OneActiveTurn
  BY TurnsInvImplies DEF Inv
<1> QED
  BY <1>1, <1>2, <1>3, PTL DEF Spec

-----------------------------------------------------------------------------
(* The invariant of files, turns and the requests inside `send`.           *)

\* Files are sequences of messages, and the images they name are there.
FilesInv ==
    /\ store = [c \in Conversations |-> store[c]]
    /\ images = [c \in Conversations |-> images[c]]
    /\ \A c \in Conversations : IsSequence(store[c])
    /\ \A c \in Conversations : ImagesIn(store[c], images[c])

\* Questions are answered or owed an answer, and no answer is given or due twice.
AnswersInv ==
    /\ server # "down" => \A c \in Conversations : Owed(store[c], turns, c)
    /\ \A c \in Conversations : \A n : Budget(store[c], turns, c, n)

\* A turn's own record is never an interruption; nothing survives the process.
Ordinary(t) == t.cid \in Conversations /\ t.stop # "interrompida" /\ t.status # "interrompida"
CallsInv ==
    /\ \A i \in DOMAIN turns : Ordinary(turns[i])
    /\ sending = [k \in Clients |-> sending[k]]
    /\ \A k \in Clients : sending[k] # Idle => sending[k].cid \in Conversations
    /\ server = "down" => turns = <<>> /\ \A k \in Clients : sending[k] = Idle

ConversationInv == Inv /\ FilesInv /\ AnswersInv /\ CallsInv

\* The properties follow.
LEMMA InvImpliesAnswers == ConversationInv => AnswersAreSound
<1> SUFFICES ASSUME ConversationInv PROVE AnswersAreSound
  OBVIOUS
<1>1. ASSUME NEW c \in Conversations, NEW n
      PROVE  Questions(c, n) = Asks(store[c], n) /\ Answers(c, n) = Replies(store[c], n)
  BY DEF Questions, Answers, Asks, Replies
<1>2. ASSUME server # "down", NEW c \in Conversations, NEW m \in ToSet(store[c]), m.role = "humano"
      PROVE  Answers(c, m.turn) # {} \/ \E i \in Living : turns[i].cid = c /\ turns[i].turn = m.turn
  <2>1. PICK j \in DOMAIN store[c] : store[c][j] = m
    BY <1>2 DEF ToSet
  <2>2. Replies(store[c], m.turn) # {} \/ Open(turns, c, m.turn) # {}
    BY <1>2, <2>1 DEF ConversationInv, AnswersInv, Owed
  <2>3. Open(turns, c, m.turn) # {} => \E i \in Living : turns[i].cid = c /\ turns[i].turn = m.turn
    BY DEF Open, Living
  <2> QED
    BY <1>1, <2>2, <2>3
<1>3. ASSUME NEW c \in Conversations, NEW n \in TurnNumbers
      PROVE  LET Interrupted == {j \in Answers(c, n) : store[c][j].status = "interrompida"}
                 Q == Cardinality(Questions(c, n)) IN
             /\ Cardinality(Interrupted) <= Q
             /\ Cardinality(Answers(c, n) \ Interrupted) <= Q
  <2> DEFINE I == {j \in Answers(c, n) : store[c][j].status = "interrompida"}
  <2>1. I = Cut(store[c], n) /\ Answers(c, n) \ I = Given(store[c], n)
    BY <1>1 DEF Cut, Given
  <2>2. IsSequence(store[c]) /\ Budget(store[c], turns, c, n) /\ IsSequence(turns)
    BY DEF ConversationInv, FilesInv, AnswersInv, Inv, TurnsInv, IsSequence
  <2>3. /\ Cardinality(Cut(store[c], n)) <= Cardinality(Asks(store[c], n))
        /\ Cardinality(Given(store[c], n)) <= Cardinality(Asks(store[c], n))
    BY <2>2, EndedBudget
  <2> QED
    BY <1>1, <2>1, <2>3
<1> QED
  BY <1>2, <1>3 DEF AnswersAreSound, QuestionsAnswered, AnswersPerTurn

\* The images are a part of the invariant of files.
LEMMA InvImpliesImages == ConversationInv => ImagesKept
BY DEF ConversationInv, FilesInv, ImagesIn, ImagesKept, Referenced, ToSet

-----------------------------------------------------------------------------
(* The steps of turns.                                                     *)

StillSound == FilesInv' /\ AnswersInv' /\ CallsInv'

\* What a changed turn leaves to show: the counts of each conversation.
LEMMA TurnStep ==
    ASSUME ConversationInv, NEW i \in DOMAIN turns, NEW u, Set(i, u), Ordinary(u),
           UNCHANGED <<images, sending>>, server' # "down",
           store' = [c \in Conversations |-> store'[c]],
           \A c \in Conversations : IsSequence(store'[c]),
           \A c \in Conversations : ImagesIn(store'[c], images[c]),
           \A c \in Conversations : Owed(store'[c], turns', c),
           \A c \in Conversations : \A n : Budget(store'[c], turns', c, n)
    PROVE  StillSound
<1>1. DOMAIN turns' = DOMAIN turns /\ turns'[i] = u /\ \A j \in DOMAIN turns : j # i => turns'[j] = turns[j]
  BY DEF Set, ConversationInv, Inv, TurnsInv
<1>2. CallsInv'
  BY <1>1 DEF CallsInv, ConversationInv, Ordinary
<1>3. AnswersInv'
  BY DEF AnswersInv
<1>4. FilesInv'
  BY DEF FilesInv, ConversationInv
<1> QED
  BY <1>2, <1>3, <1>4 DEF StillSound

\* A turn in a running server.
LEMMA Running ==
    ASSUME ConversationInv, NEW i \in DOMAIN turns
    PROVE  /\ server # "down" /\ IsSequence(turns) /\ Ordinary(turns[i]) /\ turns[i].cid \in Conversations
           /\ IsTurn(turns[i])
<1>1. server # "down"
  <2>1. DOMAIN <<>> = {}
    OBVIOUS
  <2> QED
    BY <2>1 DEF ConversationInv, CallsInv
<1> QED
  BY <1>1 DEF ConversationInv, Inv, TurnsInv, CallsInv, Ordinary, IsSequence

\* A step that writes nothing and closes nothing.
LEMMA QuietStep ==
    ASSUME ConversationInv, NEW i \in DOMAIN turns, NEW u, Set(i, u), Ordinary(u),
           u.cid = turns[i].cid, u.turn = turns[i].turn, u.done = turns[i].done,
           Past(turns[i]) => Past(u), UNCHANGED <<files, sending>>, server' # "down"
    PROVE  StillSound
<1>1. IsSequence(turns) /\ server # "down" /\ turns' = [turns EXCEPT ![i] = u] /\ UNCHANGED <<store, images>>
  BY Running DEF Set, files
<1>2. ASSUME NEW c \in Conversations PROVE Owed(store[c], turns', c)
  <2>1. Owed(store[c], turns, c)
    BY <1>1 DEF ConversationInv, AnswersInv
  <2>2. u.done = turns[i].done \/ turns[i].cid # c
    OBVIOUS
  <2> QED
    BY <1>1, <2>1, <2>2, QuietOwed
<1>3. ASSUME NEW c \in Conversations, NEW n PROVE Budget(store[c], turns', c, n)
  <2>1. Budget(store[c], turns, c, n) /\ IsSequence(store[c]) /\ (turns[i].done => u.done)
    BY DEF ConversationInv, AnswersInv, FilesInv
  <2> QED
    BY <1>1, <2>1, QuietBudget
<1>4. store' = [c \in Conversations |-> store'[c]]
      /\ \A c \in Conversations : IsSequence(store'[c]) /\ ImagesIn(store'[c], images[c])
  BY <1>1 DEF ConversationInv, FilesInv
<1> QED
  BY <1>1, <1>2, <1>3, <1>4, TurnStep

\* One more message in the file of a conversation.
LEMMA FileAppended ==
    ASSUME FilesInv, NEW c \in Conversations, NEW m, append(c, m),
           m.role = "humano" => m.images \subseteq images[c]
    PROVE  /\ store'[c] = Append(store[c], m)
           /\ \A d \in Conversations : d # c => store'[d] = store[d]
           /\ store' = [d \in Conversations |-> store'[d]]
           /\ \A d \in Conversations : IsSequence(store'[d])
           /\ \A d \in Conversations : ImagesIn(store'[d], images[d])
<1>1. store' = [d \in Conversations |-> IF d = c THEN Append(store[c], m) ELSE store[d]]
  BY DEF append, FilesInv
<1>2. IsSequence(Append(store[c], m)) /\ ImagesIn(Append(store[c], m), images[c])
  <2>1. IsSequence(store[c]) /\ ImagesIn(store[c], images[c])
    BY DEF FilesInv
  <2> QED
    BY <2>1, Appended, ImagesAppended
<1> QED
  BY <1>1, <1>2 DEF FilesInv

\* An open turn closed for the server's stop, with an interruption.
LEMMA CloseStep ==
    ASSUME ConversationInv, NEW i \in DOMAIN turns, NEW u, Set(i, u), Ordinary(u),
           u.cid = turns[i].cid, u.turn = turns[i].turn, ~turns[i].done, u.done,
           Past(turns[i]) => Past(u), UNCHANGED <<images, sending>>, server' # "down",
           append(turns[i].cid, Answer(turns[i].turn, "interrompida"))
    PROVE  StillSound
<1> DEFINE d == turns[i].cid
           m == Answer(turns[i].turn, "interrompida")
<1>1. IsSequence(turns) /\ server # "down" /\ turns' = [turns EXCEPT ![i] = u] /\ d \in Conversations
  BY Running DEF Set
<1>2. m.role = "orquestrador" /\ m.turn = turns[i].turn
  BY DEF Answer
<1>3. /\ store'[d] = Append(store[d], m)
      /\ \A c \in Conversations : c # d => store'[c] = store[c]
      /\ store' = [c \in Conversations |-> store'[c]]
      /\ \A c \in Conversations : IsSequence(store'[c])
      /\ \A c \in Conversations : ImagesIn(store'[c], images[c])
  <2>1. FilesInv /\ (m.role = "humano" => m.images \subseteq images[d])
    BY <1>2 DEF ConversationInv
  <2> HIDE DEF m, d
  <2> QED
    BY <1>1, <2>1, FileAppended DEF m, d
<1>4. ASSUME NEW c \in Conversations PROVE Owed(store'[c], turns', c)
  <2>1. Owed(store[c], turns, c) /\ IsSequence(store[c])
    BY <1>1 DEF ConversationInv, AnswersInv, FilesInv
  <2>2. CASE c = d
    <3>1. Owed(Append(store[c], m), [turns EXCEPT ![i] = u], c)
      <4> HIDE DEF m
      <4> QED
        BY <1>1, <1>2, <2>1, WriteOwed
    <3> QED
      BY <1>1, <1>3, <2>2, <3>1
  <2>3. CASE c # d
    <3>1. u.done = turns[i].done \/ turns[i].cid # c
      BY <2>3
    <3>2. Owed(store[c], [turns EXCEPT ![i] = u], c)
      BY <1>1, <2>1, <3>1, QuietOwed
    <3> QED
      BY <1>1, <1>3, <2>3, <3>2
  <2> QED
    BY <2>2, <2>3
<1>5. ASSUME NEW c \in Conversations, NEW n PROVE Budget(store'[c], turns', c, n)
  <2>1. Budget(store[c], turns, c, n) /\ IsSequence(store[c]) /\ (turns[i].done => u.done)
    BY DEF ConversationInv, AnswersInv, FilesInv
  <2>2. CASE c = d
    <3>1. Budget(Append(store[c], Answer(turns[i].turn, "interrompida")), [turns EXCEPT ![i] = u], c, n)
      BY <1>1, <2>1, <2>2, CloseBudget
    <3> QED
      BY <1>1, <1>3, <2>2, <3>1
  <2>3. CASE c # d
    <3>1. Budget(store[c], [turns EXCEPT ![i] = u], c, n)
      BY <1>1, <2>1, QuietBudget
    <3> QED
      BY <1>1, <1>3, <2>3, <3>1
  <2> QED
    BY <2>2, <2>3
<1> HIDE DEF m, d
<1> QED
  BY <1>1, <1>3, <1>4, <1>5, TurnStep

\* A turn's thread writes its record.
LEMMA WriteStep ==
    ASSUME ConversationInv, NEW i \in DOMAIN turns, NEW u, Set(i, u), Ordinary(u),
           u.cid = turns[i].cid, u.turn = turns[i].turn, u.done, ~Past(turns[i]), Past(u),
           UNCHANGED <<images, sending>>, server' # "down",
           append(turns[i].cid, Answer(turns[i].turn, turns[i].status))
    PROVE  StillSound
<1> DEFINE d == turns[i].cid
           st == turns[i].status
           m == Answer(turns[i].turn, st)
<1>1. IsSequence(turns) /\ server # "down" /\ turns' = [turns EXCEPT ![i] = u] /\ d \in Conversations
      /\ st # "interrompida"
  BY Running DEF Set, Ordinary
<1>2. m.role = "orquestrador" /\ m.turn = turns[i].turn
  BY DEF Answer
<1>3. /\ store'[d] = Append(store[d], m)
      /\ \A c \in Conversations : c # d => store'[c] = store[c]
      /\ store' = [c \in Conversations |-> store'[c]]
      /\ \A c \in Conversations : IsSequence(store'[c])
      /\ \A c \in Conversations : ImagesIn(store'[c], images[c])
  <2>1. FilesInv /\ (m.role = "humano" => m.images \subseteq images[d])
    BY <1>2 DEF ConversationInv
  <2> HIDE DEF m, d
  <2> QED
    BY <1>1, <2>1, FileAppended DEF m, d
<1>4. ASSUME NEW c \in Conversations PROVE Owed(store'[c], turns', c)
  <2>1. Owed(store[c], turns, c) /\ IsSequence(store[c])
    BY <1>1 DEF ConversationInv, AnswersInv, FilesInv
  <2>2. CASE c = d
    <3>1. Owed(Append(store[c], m), [turns EXCEPT ![i] = u], c)
      <4> HIDE DEF m
      <4> QED
        BY <1>1, <1>2, <2>1, WriteOwed
    <3> QED
      BY <1>1, <1>3, <2>2, <3>1
  <2>3. CASE c # d
    <3>1. u.done = turns[i].done \/ turns[i].cid # c
      BY <2>3
    <3>2. Owed(store[c], [turns EXCEPT ![i] = u], c)
      BY <1>1, <2>1, <3>1, QuietOwed
    <3> QED
      BY <1>1, <1>3, <2>3, <3>2
  <2> QED
    BY <2>2, <2>3
<1>5. ASSUME NEW c \in Conversations, NEW n PROVE Budget(store'[c], turns', c, n)
  <2>1. Budget(store[c], turns, c, n) /\ IsSequence(store[c]) /\ (turns[i].done => u.done)
        /\ (Past(turns[i]) => Past(u))
    BY DEF ConversationInv, AnswersInv, FilesInv
  <2>2. CASE c = d
    <3>1. Budget(Append(store[c], Answer(turns[i].turn, st)), [turns EXCEPT ![i] = u], c, n)
      <4> HIDE DEF st, m
      <4> QED
        BY <1>1, <2>1, <2>2, WriteBudget
    <3> QED
      BY <1>1, <1>3, <2>2, <3>1
  <2>3. CASE c # d
    <3>1. Budget(store[c], [turns EXCEPT ![i] = u], c, n)
      BY <1>1, <2>1, QuietBudget
    <3> QED
      BY <1>1, <1>3, <2>3, <3>1
  <2> QED
    BY <2>2, <2>3
<1> HIDE DEF m, d, st
<1> QED
  BY <1>1, <1>3, <1>4, <1>5, TurnStep

\* A turn that is done, of the same question.
LEMMA FinishedIs ==
    ASSUME NEW t, t.cid \in Conversations
    PROVE  /\ Finished(t).cid = t.cid /\ Finished(t).turn = t.turn /\ Finished(t).done
           /\ Past(Finished(t)) /\ Ordinary(Finished(t))
BY DEF Finished, Turn, Past, Ordinary

\* The thread of a turn.
LEMMA AnswersThread ==
    ASSUME ConversationInv, NEW i \in DOMAIN turns, Thread(i)
    PROVE  StillSound
<1> USE DEF Step, process, files
<1> DEFINE t == turns[i]
<1>1. server # "down" /\ IsTurn(t) /\ Ordinary(t) /\ t.cid \in Conversations
  BY Running
<1>2. ASSUME NEW u, Set(i, u), u = [f \in Fields |-> u[f]],
             u.cid = t.cid, u.turn = t.turn, u.done = t.done, u.stop # "interrompida",
             u.status # "interrompida", Past(t) => Past(u), UNCHANGED <<files, sending, server>>
      PROVE  StillSound
  <2>1. Ordinary(u) /\ server' # "down"
    BY <1>1, <1>2 DEF Ordinary
  <2> QED
    BY <1>2, <2>1, QuietStep
<1>3. CASE spawn(i)
  <2>1. CASE Set(i, [t EXCEPT !.at = "spawned", !.proc = "alive", !.killed = FALSE]) /\ t.at = "starting"
    <3> DEFINE u == [t EXCEPT !.at = "spawned", !.proc = "alive", !.killed = FALSE]
    <3>1. /\ u = [f \in Fields |-> u[f]] /\ u.cid = t.cid /\ u.turn = t.turn /\ u.done = t.done
          /\ u.stop = t.stop /\ u.status = t.status /\ ~Past(t)
      BY <1>1, <2>1 DEF IsTurn, Fields, Past
    <3> QED
      BY <1>1, <1>2, <1>3, <2>1, <3>1 DEF spawn, Ordinary
  <2>2. CASE Set(i, [t EXCEPT !.at = "ended", !.status = "erro"]) /\ t.at = "starting"
    <3> DEFINE u == [t EXCEPT !.at = "ended", !.status = "erro"]
    <3>1. /\ u = [f \in Fields |-> u[f]] /\ u.cid = t.cid /\ u.turn = t.turn /\ u.done = t.done
          /\ u.stop = t.stop /\ u.status = "erro" /\ ~Past(t)
      BY <1>1, <2>2 DEF IsTurn, Fields, Past
    <3> QED
      BY <1>1, <1>2, <1>3, <2>2, <3>1 DEF spawn, Ordinary
  <2> QED
    BY <1>3, <2>1, <2>2 DEF spawn
<1>4. CASE checkStop(i)
  <2> DEFINE u == [t EXCEPT !.at = "reading", !.killed = @ \/ t.stop # "none"]
  <2>1. /\ u = [f \in Fields |-> u[f]] /\ u.cid = t.cid /\ u.turn = t.turn /\ u.done = t.done
        /\ u.stop = t.stop /\ u.status = t.status /\ ~Past(t) /\ Set(i, u)
    BY <1>1, <1>4 DEF checkStop, IsTurn, Fields, Past
  <2> QED
    BY <1>1, <1>2, <1>4, <2>1 DEF checkStop, Ordinary
<1>5. CASE timeOut(i)
  <2> DEFINE u == Kill([t EXCEPT !.stop = "tempo_esgotado"])
  <2>1. /\ u = [f \in Fields |-> u[f]] /\ u.cid = t.cid /\ u.turn = t.turn /\ u.done = t.done
        /\ u.stop = "tempo_esgotado" /\ u.status = t.status /\ ~Past(t) /\ Set(i, u)
    BY <1>1, <1>5 DEF timeOut, Kill, IsTurn, Fields, Past
  <2> HIDE DEF u
  <2> QED
    BY <1>1, <1>2, <1>5, <2>1 DEF timeOut, Ordinary
<1>6. CASE readEnds(i)
  <2>1. PICK result \in {"ok", "erro"} :
           Step(i, "reading", [t EXCEPT !.at = "ended", !.proc = "none", !.killed = FALSE, !.status = result])
    BY <1>6 DEF readEnds
  <2> DEFINE u == [t EXCEPT !.at = "ended", !.proc = "none", !.killed = FALSE, !.status = result]
  <2>2. /\ u = [f \in Fields |-> u[f]] /\ u.cid = t.cid /\ u.turn = t.turn /\ u.done = t.done
        /\ u.stop = t.stop /\ u.status = result /\ ~Past(t) /\ Set(i, u)
    BY <1>1, <2>1 DEF IsTurn, Fields, Past
  <2> HIDE DEF u
  <2> QED
    BY <1>1, <1>2, <1>6, <2>2 DEF readEnds, Ordinary
<1>7. CASE sessionReset(i)
  <2> DEFINE u == [t EXCEPT !.at = "starting", !.reset = TRUE, !.status = "none"]
  <2>1. /\ u = [f \in Fields |-> u[f]] /\ u.cid = t.cid /\ u.turn = t.turn /\ u.done = t.done
        /\ u.stop = t.stop /\ u.status = "none" /\ ~Past(t) /\ Set(i, u)
    BY <1>1, <1>7 DEF sessionReset, IsTurn, Fields, Past
  <2> QED
    BY <1>1, <1>2, <1>7, <2>1 DEF sessionReset, Ordinary
<1>8. CASE finishInterrupted(i)
  <2>1. /\ Set(i, Finished(t)) /\ UNCHANGED <<images, sending>> /\ server' # "down"
        /\ IF t.done THEN UNCHANGED store ELSE append(t.cid, Answer(t.turn, "interrompida"))
    BY <1>1, <1>8 DEF finishInterrupted
  <2>2. CASE t.done
    BY <1>1, <2>1, <2>2, FinishedIs, QuietStep
  <2>3. CASE ~t.done
    BY <1>1, <2>1, <2>3, FinishedIs, CloseStep
  <2> QED
    BY <2>2, <2>3
<1>9. CASE finishOrdinary(i)
  <2> DEFINE u == [t EXCEPT !.at = "writing", !.status = IF t.stop # "none" THEN t.stop ELSE @]
  <2>1. /\ u = [f \in Fields |-> u[f]] /\ u.cid = t.cid /\ u.turn = t.turn /\ u.done = t.done
        /\ u.stop = t.stop /\ u.status \in {t.stop, t.status} /\ ~Past(t) /\ Set(i, u)
    BY <1>1, <1>9 DEF finishOrdinary, IsTurn, Fields, Past
  <2> HIDE DEF u
  <2> QED
    BY <1>1, <1>2, <1>9, <2>1 DEF finishOrdinary, Ordinary
<1>10. CASE finishWrites(i)
  <2>1. /\ Set(i, Finished(t)) /\ UNCHANGED <<images, sending>> /\ server' # "down" /\ ~Past(t)
        /\ append(t.cid, Answer(t.turn, t.status))
    BY <1>1, <1>10 DEF finishWrites, Past
  <2> QED
    BY <1>1, <2>1, FinishedIs, WriteStep
<1>11. CASE fails(i)
  <2>1. CASE t.done
    BY <1>1, <1>11, <2>1, FinishedIs, QuietStep DEF fails
  <2>2. CASE ~t.done
    <3> DEFINE u == [t EXCEPT !.at = "writing", !.status = "erro"]
    <3>1. /\ u = [f \in Fields |-> u[f]] /\ u.cid = t.cid /\ u.turn = t.turn /\ u.done = t.done
          /\ u.stop = t.stop /\ u.status = "erro" /\ ~Past(t) /\ Set(i, u)
      BY <1>1, <1>11, <2>2 DEF fails, IsTurn, Fields, Past
    <3> QED
      BY <1>1, <1>2, <1>11, <3>1 DEF fails, Ordinary
  <2> QED
    BY <2>1, <2>2
<1>12. CASE finally(i)
  <2> DEFINE u == [t EXCEPT !.at = "over"]
  <2>1. /\ u = [f \in Fields |-> u[f]] /\ u.cid = t.cid /\ u.turn = t.turn /\ u.done = t.done
        /\ u.stop = t.stop /\ u.status = t.status /\ Past(u) /\ Set(i, u)
    BY <1>1, <1>12 DEF finally, IsTurn, Fields, Past
  <2> HIDE DEF u
  <2> QED
    BY <1>1, <1>2, <1>12, <2>1 DEF finally, Ordinary
<1> QED
  BY <1>3, <1>4, <1>5, <1>6, <1>7, <1>8, <1>9, <1>10, <1>11, <1>12 DEF Thread

\* Whoever stops a turn changes only what it is stopped for.
LEMMA AnswersCancel ==
    ASSUME ConversationInv, NEW i \in DOMAIN turns, NEW reason, reason # "interrompida",
           Set(i, Kill([turns[i] EXCEPT !.stop = reason])), UNCHANGED <<files, sending>>,
           server' # "down"
    PROVE  StillSound
<1> DEFINE t == turns[i]
           u == Kill([t EXCEPT !.stop = reason])
<1>1. server # "down" /\ IsTurn(t) /\ Ordinary(t)
  BY Running
<1>2. /\ u.cid = t.cid /\ u.turn = t.turn /\ u.done = t.done
      /\ u.stop = reason /\ u.status = t.status /\ u.at = t.at
  BY <1>1 DEF Kill, IsTurn, Fields
<1>3. Ordinary(u) /\ (Past(t) => Past(u))
  BY <1>1, <1>2 DEF Ordinary, Past
<1> HIDE DEF u
<1> QED
  BY <1>2, <1>3, QuietStep DEF u

\* A cancellation, and both halves of the graceful stop.
LEMMA AnswersStop ==
    ASSUME ConversationInv,
           \/ \E i \in DOMAIN turns : cancel(i)
           \/ shutdown \/ shutdownCloses
    PROVE  StillSound
<1> USE DEF process, files
<1>1. ASSUME NEW i \in DOMAIN turns, cancel(i) PROVE StillSound
  <2>1. PICK reason \in {"cancelada", turns[i].stop} \ {"none"} :
           Set(i, Kill([turns[i] EXCEPT !.stop = reason]))
    BY <1>1 DEF cancel
  <2>2. reason # "interrompida" /\ server' # "down" /\ UNCHANGED <<files, sending>>
    BY <1>1, <2>1, Running DEF cancel, Ordinary
  <2> QED
    BY <2>1, <2>2, AnswersCancel
<1>2. CASE shutdown
  <2>1. CASE Busy
    <3>1. active \in DOMAIN turns
      BY <2>1 DEF Busy, ConversationInv, Inv, Numbers
    <3>2. Set(active, Kill([turns[active] EXCEPT !.stop = "reinicio"])) /\ UNCHANGED <<files, sending>>
          /\ server' # "down"
      BY <1>2, <2>1 DEF shutdown
    <3> QED
      BY <3>1, <3>2, AnswersCancel
  <2>2. CASE ~Busy
    <3>1. UNCHANGED <<store, images, turns, sending>> /\ server # "down" /\ server' # "down"
      BY <1>2, <2>2 DEF shutdown
    <3> QED
      BY <3>1 DEF StillSound, ConversationInv, FilesInv, AnswersInv, CallsInv
  <2> QED
    BY <2>1, <2>2
<1>3. CASE shutdownCloses
  <2>1. closing \in DOMAIN turns /\ server' # "down" /\ server # "down" /\ UNCHANGED <<images, sending>>
    BY <1>3 DEF shutdownCloses, ConversationInv, Inv, Numbers
  <2>2. CASE turns[closing].done
    <3>1. UNCHANGED <<store, turns>>
      BY <1>3, <2>2 DEF shutdownCloses
    <3> QED
      BY <2>1, <3>1 DEF StillSound, ConversationInv, FilesInv, AnswersInv, CallsInv
  <2>3. CASE ~turns[closing].done
    <3> DEFINE t == turns[closing]
               u == [t EXCEPT !.done = TRUE]
    <3>1. Set(closing, u) /\ append(t.cid, Answer(t.turn, "interrompida"))
      BY <1>3, <2>3 DEF shutdownCloses
    <3>2. IsTurn(t) /\ Ordinary(t)
      BY <2>1, Running
    <3>3. u.cid = t.cid /\ u.turn = t.turn /\ u.done /\ u.at = t.at /\ u.stop = t.stop /\ u.status = t.status
      BY <3>2 DEF IsTurn, Fields
    <3>4. Ordinary(u) /\ (Past(t) => Past(u))
      BY <3>2, <3>3 DEF Ordinary, Past
    <3> HIDE DEF u
    <3> QED
      BY <2>1, <2>3, <3>1, <3>3, <3>4, CloseStep
  <2> QED
    BY <2>2, <2>3
<1> QED
  BY <1>1, <1>2, <1>3

\* A request let in: the question with its turn, or with the error there and then.
LEMMA AnswersSend ==
    ASSUME ConversationInv, NEW k \in Clients, send(k)
    PROVE  StillSound
<1> DEFINE d == sending[k].cid
           n0 == NextTurn(Seen(k))
<1>1. server # "down" /\ d \in Conversations /\ UNCHANGED <<images, server>> /\ IsSequence(turns)
      /\ sending' = [sending EXCEPT ![k] = Idle]
  BY DEF send, Admitted, ConversationInv, CallsInv, Inv, TurnsInv, IsSequence
<1>2. /\ store = [c \in Conversations |-> store[c]]
      /\ \A c \in Conversations : /\ IsSequence(store[c]) /\ ImagesIn(store[c], images[c])
                                  /\ Owed(store[c], turns, c)
                                  /\ \A n : Budget(store[c], turns, c, n)
  BY <1>1 DEF ConversationInv, FilesInv, AnswersInv
<1>3. /\ sending' = [l \in Clients |-> sending'[l]]
      /\ \A l \in Clients : sending'[l] # Idle => sending'[l].cid \in Conversations
  BY <1>1 DEF ConversationInv, CallsInv
<1> HIDE DEF d, n0
<1>4. CASE sendUnavailable(k)
  <2>1. PICK imgs \in SUBSET images[d] :
           store' = [store EXCEPT ![d] = @ \o <<Question(n0, imgs), Answer(n0, "erro")>>]
    BY <1>4 DEF sendUnavailable, d, n0
  <2> DEFINE q == Question(n0, imgs)
             a == Answer(n0, "erro")
  <2>2. /\ q.role = "humano" /\ q.turn = n0 /\ q.images = imgs
        /\ a.role = "orquestrador" /\ a.turn = n0 /\ a.status = "erro"
    BY DEF Question, Answer
  <2> HIDE DEF q, a
  <2>3. UNCHANGED turns
    BY <1>4 DEF sendUnavailable
  <2>4. /\ store'[d] = Append(Append(store[d], q), a)
        /\ \A c \in Conversations : c # d => store'[c] = store[c]
        /\ store' = [c \in Conversations |-> store'[c]]
    <3>1. store[d] \o <<q, a>> = Append(Append(store[d], q), a)
      BY <1>1, <1>2, TwoMore
    <3>2. store' = [c \in Conversations |-> IF c = d THEN store[d] \o <<q, a>> ELSE store[c]]
      BY <1>1, <1>2, <2>1 DEF q, a
    <3> QED
      BY <1>1, <3>1, <3>2
  <2>5. IsSequence(store'[d]) /\ ImagesIn(store'[d], images[d])
    <3>1. IsSequence(store[d]) /\ ImagesIn(store[d], images[d]) /\ (q.role = "humano" => q.images \subseteq images[d])
      BY <1>1, <1>2, <2>1, <2>2
    <3>2. IsSequence(Append(store[d], q)) /\ ImagesIn(Append(store[d], q), images[d])
      BY <3>1, Appended, ImagesAppended
    <3>3. a.role = "humano" => a.images \subseteq images[d]
      BY <2>2
    <3>4. IsSequence(Append(Append(store[d], q), a)) /\ ImagesIn(Append(Append(store[d], q), a), images[d])
      BY <3>2, <3>3, Appended, ImagesAppended
    <3> QED
      BY <2>4, <3>4
  <2>6. Owed(store'[d], turns, d)
    <3>1. Owed(Append(Append(store[d], q), a), turns, d)
      BY <1>1, <1>2, <2>2, AnsweredOwed
    <3> QED
      BY <2>4, <3>1
  <2>7. ASSUME NEW n PROVE Budget(store'[d], turns, d, n)
    <3>1. Budget(store[d], turns, d, n) /\ IsSequence(store[d]) /\ a.turn = q.turn /\ a.status # "interrompida"
      BY <1>1, <1>2, <2>2
    <3>2. Budget(Append(Append(store[d], q), a), turns, d, n)
      BY <1>1, <2>2, <3>1, AnsweredBudget
    <3> QED
      BY <2>4, <3>2
  <2>8. FilesInv'
    BY <1>1, <1>2, <2>4, <2>5 DEF FilesInv, ConversationInv
  <2>9. AnswersInv'
    BY <1>1, <1>2, <2>3, <2>4, <2>6, <2>7 DEF AnswersInv
  <2>10. CallsInv'
    BY <1>1, <1>3, <2>3 DEF CallsInv, ConversationInv
  <2> QED
    BY <2>8, <2>9, <2>10 DEF StillSound
<1>5. CASE sendAccepted(k)
  <2>1. PICK imgs \in SUBSET images[d] : append(d, Question(n0, imgs))
    BY <1>5 DEF sendAccepted, d, n0
  <2> DEFINE q == Question(n0, imgs)
             t == Turn(d, n0)
  <2>2. /\ q.role = "humano" /\ q.turn = n0 /\ q.images = imgs
        /\ t.cid = d /\ t.turn = n0 /\ ~t.done /\ Ordinary(t)
    BY <1>1 DEF Question, Turn, Ordinary
  <2>3. turns' = Append(turns, t) /\ append(d, q)
    BY <1>5, <2>1 DEF sendAccepted, d, n0
  <2> HIDE DEF q, t
  <2>4. /\ store'[d] = Append(store[d], q)
        /\ \A c \in Conversations : c # d => store'[c] = store[c]
        /\ store' = [c \in Conversations |-> store'[c]]
        /\ \A c \in Conversations : IsSequence(store'[c])
        /\ \A c \in Conversations : ImagesIn(store'[c], images[c])
    <3>1. FilesInv /\ (q.role = "humano" => q.images \subseteq images[d])
      BY <2>1, <2>2 DEF ConversationInv
    <3> QED
      BY <1>1, <2>3, <3>1, FileAppended
  <2>5. ASSUME NEW c \in Conversations PROVE Owed(store'[c], turns', c)
    <3>1. CASE c = d
      <4>1. Owed(Append(store[d], q), Append(turns, t), d)
        BY <1>1, <1>2, <2>2, AskOwed
      <4> QED
        BY <2>3, <2>4, <3>1, <4>1
    <3>2. CASE c # d
      <4>1. Owed(store[c], Append(turns, t), c)
        BY <1>1, <1>2, OtherOwed
      <4> QED
        BY <2>3, <2>4, <3>2, <4>1
    <3> QED
      BY <3>1, <3>2
  <2>6. ASSUME NEW c \in Conversations, NEW n PROVE Budget(store'[c], turns', c, n)
    <3>1. CASE c = d
      <4>1. Budget(store[d], turns, d, n) /\ IsSequence(store[d]) /\ t.turn = q.turn
        BY <1>1, <1>2, <2>2
      <4>2. Budget(Append(store[d], q), Append(turns, t), d, n)
        BY <1>1, <2>2, <4>1, AskBudget
      <4> QED
        BY <2>3, <2>4, <3>1, <4>2
    <3>2. CASE c # d
      <4>1. Budget(store[c], turns, c, n) /\ IsSequence(store[c]) /\ t.cid # c
        BY <1>2, <2>2, <3>2
      <4>2. Budget(store[c], Append(turns, t), c, n)
        BY <1>1, <4>1, OtherBudget
      <4> QED
        BY <2>3, <2>4, <3>2, <4>2
    <3> QED
      BY <3>1, <3>2
  <2>7. FilesInv'
    BY <1>1, <2>4 DEF FilesInv, ConversationInv
  <2>8. AnswersInv'
    BY <2>5, <2>6 DEF AnswersInv
  <2>9. CallsInv'
    <3>1. DOMAIN turns' = DOMAIN turns \cup {Len(turns) + 1} /\ turns'[Len(turns) + 1] = t
          /\ \A i \in DOMAIN turns : turns'[i] = turns[i]
      BY <1>1, <2>3, Appended
    <3>2. \A i \in DOMAIN turns' : Ordinary(turns'[i])
      BY <2>2, <3>1 DEF ConversationInv, CallsInv
    <3>3. \A i \in DOMAIN turns' : Ordinary(turns[i])'
      BY <3>2 DEF Ordinary
    <3> QED
      BY <1>1, <1>3, <3>3 DEF CallsInv
  <2> QED
    BY <2>7, <2>8, <2>9 DEF StillSound
<1> QED
  BY <1>4, <1>5 DEF send

\* A sweep takes no image that a question names.
LEMMA SweptKeeps ==
    ASSUME FilesInv, NEW after, Swept(after), NEW c \in Conversations
    PROVE  ImagesIn(store[c], after[c])
<1> SUFFICES ASSUME NEW j \in DOMAIN store[c], store[c][j].role = "humano"
             PROVE  store[c][j].images \subseteq after[c]
  BY DEF ImagesIn
<1>1. store[c][j] \in ToSet(store[c])
  BY DEF ToSet
<1>2. store[c][j].images \subseteq Referenced(c)
  BY <1>1 DEF Referenced
<1>3. store[c][j].images \subseteq images[c]
  BY DEF FilesInv, ImagesIn
<1>4. images[c] \ after[c] \subseteq images[c] \ Referenced(c)
  BY DEF Swept, Pending
<1> QED
  BY <1>2, <1>3, <1>4

\* An upload with its sweep, and a removal.
LEMMA AnswersImages ==
    ASSUME ConversationInv, NEW c \in Conversations, NEW a, upload(c, a) \/ remove_attachment(c, a)
    PROVE  StillSound
<1> USE DEF process, files
<1>1. UNCHANGED <<store, turns, sending, server>>
  BY DEF upload, remove_attachment
<1>2. images' = [d \in Conversations |-> images'[d]]
      /\ \A d \in Conversations : ImagesIn(store[d], images'[d])
  <2>1. CASE upload(c, a)
    <3>1. PICK kept \in [Conversations -> SUBSET Images] :
             /\ Swept(kept)
             /\ images' = IF Cardinality(kept[c]) < MaxImages THEN [kept EXCEPT ![c] = @ \cup {a}] ELSE kept
      BY <2>1 DEF upload
    <3>2. \A d \in Conversations : ImagesIn(store[d], kept[d])
      BY <3>1, SweptKeeps DEF ConversationInv
    <3>3. images' = [d \in Conversations |-> images'[d]]
      BY <3>1
    <3>4. \A d \in Conversations : kept[d] \subseteq images'[d]
      BY <3>1
    <3> QED
      BY <3>2, <3>3, <3>4 DEF ImagesIn
  <2>2. CASE remove_attachment(c, a)
    <3>1. a \notin Referenced(c) /\ images' = [images EXCEPT ![c] = @ \ {a}]
      BY <2>2 DEF remove_attachment, Pending
    <3>2. images' = [d \in Conversations |-> IF d = c THEN images[c] \ {a} ELSE images[d]]
      BY <3>1 DEF ConversationInv, FilesInv
    <3>3. ASSUME NEW d \in Conversations PROVE ImagesIn(store[d], images'[d])
      <4>1. CASE d = c
        <5>1. ASSUME NEW j \in DOMAIN store[c], store[c][j].role = "humano"
              PROVE  store[c][j].images \subseteq images[c] \ {a}
          <6>1. store[c][j].images \subseteq Referenced(c)
            BY <5>1 DEF Referenced, ToSet
          <6>2. store[c][j].images \subseteq images[c]
            BY <5>1 DEF ConversationInv, FilesInv, ImagesIn
          <6> QED
            BY <3>1, <6>1, <6>2
        <5> QED
          BY <3>2, <4>1, <5>1 DEF ImagesIn
      <4>2. CASE d # c
        BY <3>2, <4>2 DEF ConversationInv, FilesInv
      <4> QED
        BY <4>1, <4>2
    <3> QED
      BY <3>2, <3>3
  <2> QED
    BY <2>1, <2>2
<1>3. FilesInv'
  BY <1>1, <1>2 DEF FilesInv, ConversationInv
<1> QED
  BY <1>1, <1>3 DEF StillSound, ConversationInv, AnswersInv, CallsInv

\* The process ends: what was open is forgotten, and only the files remain.
LEMMA AnswersExit ==
    ASSUME ConversationInv, exit
    PROVE  StillSound
<1>1. /\ UNCHANGED <<store, images>> /\ turns' = <<>> /\ server' = "down"
      /\ sending' = [k \in Clients |-> Idle] /\ IsSequence(turns)
  BY DEF exit, files, ConversationInv, Inv, TurnsInv, IsSequence
<1>2. ASSUME NEW c \in Conversations, NEW n PROVE Budget(store'[c], turns', c, n)
  <2>1. Budget(store[c], turns, c, n) /\ IsSequence(store[c])
    BY DEF ConversationInv, AnswersInv, FilesInv
  <2>2. Budget(store[c], <<>>, c, n)
    BY <1>1, <2>1, EndedBudget
  <2> QED
    BY <1>1, <2>2
<1>3. DOMAIN turns' = {}
  BY <1>1
<1> QED
  BY <1>1, <1>2, <1>3 DEF StillSound, ConversationInv, FilesInv, AnswersInv, CallsInv

\* The next start: the recovery of every file, and a sweep of every image.
LEMMA AnswersStart ==
    ASSUME ConversationInv, start
    PROVE  StillSound
<1>1. /\ store' = [c \in Conversations |-> recover(c)] /\ UNCHANGED <<turns, sending>>
      /\ server' = "up" /\ turns = <<>>
      /\ images' \in [Conversations -> SUBSET Images] /\ Swept(images')
  BY DEF start, ConversationInv, CallsInv
<1>2. ASSUME NEW c \in Conversations PROVE recover(c) = Recovered(store[c])
  <2>1. Unanswered(c) = Silent(store[c])
    BY DEF Unanswered, Silent, Answers, Replies
  <2> QED
    BY <2>1 DEF recover, Recovered
<1>3. ASSUME NEW c \in Conversations PROVE store'[c] = Recovered(store[c]) /\ IsSequence(store[c])
  BY <1>1, <1>2 DEF ConversationInv, FilesInv
<1>4. ASSUME NEW c \in Conversations
      PROVE  IsSequence(store'[c]) /\ ImagesIn(store'[c], images'[c])
  <2>1. ImagesIn(store[c], images'[c])
    BY <1>1, SweptKeeps DEF ConversationInv
  <2> QED
    BY <1>3, <2>1, RecoveredIs, RecoveredImages
<1>5. ASSUME NEW c \in Conversations PROVE Owed(store'[c], turns', c)
  BY <1>3, RecoveredOwed
<1>6. ASSUME NEW c \in Conversations, NEW n PROVE Budget(store'[c], turns', c, n)
  <2>1. Budget(store[c], <<>>, c, n)
    BY <1>1 DEF ConversationInv, AnswersInv
  <2> QED
    BY <1>1, <1>3, <2>1, RecoveredBudget
<1>7. FilesInv'
  <2>1. store' = [c \in Conversations |-> store'[c]] /\ images' = [c \in Conversations |-> images'[c]]
    BY <1>1
  <2> QED
    BY <1>4, <2>1 DEF FilesInv
<1>8. AnswersInv'
  BY <1>5, <1>6 DEF AnswersInv
<1>9. CallsInv'
  BY <1>1 DEF CallsInv, ConversationInv
<1> QED
  BY <1>7, <1>8, <1>9 DEF StillSound

\* Every step.
LEMMA ConversationStep ==
    ASSUME ConversationInv, [Next]_vars
    PROVE  ConversationInv'
<1> USE DEF process, files
<1>1. Inv'
  BY NumbersStep, TurnsStep DEF Inv, ConversationInv
<1>2. ASSUME UNCHANGED <<store, images, turns, sending, server>>
      PROVE  StillSound
  BY <1>2 DEF StillSound, ConversationInv, FilesInv, AnswersInv, CallsInv
<1>3. ASSUME NEW k \in Clients, \/ \E c \in Conversations : sendReads(k, c)
                                \/ sendRefused(k)
      PROVE  StillSound
  <2>1. UNCHANGED <<store, images, turns, server>>
    BY <1>3 DEF sendReads, sendRefused
  <2>2. PICK r : sending' = [sending EXCEPT ![k] = r] /\ (r # Idle => r.cid \in Conversations)
                 /\ (r # Idle => server = "up")
    BY <1>3 DEF sendReads, sendRefused
  <2>3. sending' = [l \in Clients |-> IF l = k THEN r ELSE sending[l]]
    BY <2>2 DEF ConversationInv, CallsInv
  <2>4. CallsInv'
    BY <2>1, <2>2, <2>3 DEF ConversationInv, CallsInv
  <2> QED
    BY <2>1, <2>4 DEF StillSound, ConversationInv, FilesInv, AnswersInv
<1>4. ASSUME signal PROVE StillSound
  <2>1. UNCHANGED <<store, images, turns, sending>> /\ server # "down" /\ server' # "down"
    BY <1>4 DEF signal
  <2>2. FilesInv'
    BY <2>1 DEF ConversationInv, FilesInv
  <2>3. AnswersInv'
    BY <2>1 DEF ConversationInv, AnswersInv
  <2>4. CallsInv'
    BY <2>1 DEF ConversationInv, CallsInv
  <2> QED
    BY <2>2, <2>3, <2>4 DEF StillSound
<1>5. StillSound
  <2>1. CASE UNCHANGED vars
    BY <1>2, <2>1 DEF vars
  <2>2. CASE \E c \in Conversations, a \in Images : upload(c, a) \/ remove_attachment(c, a)
    BY <2>2, AnswersImages
  <2>3. CASE \E k \in Clients : (\E c \in Conversations : sendReads(k, c)) \/ sendRefused(k) \/ send(k)
    BY <1>3, <2>3, AnswersSend
  <2>4. CASE \E i \in DOMAIN turns : Thread(i) \/ cancel(i)
    BY <2>4, AnswersThread, AnswersStop
  <2>5. CASE shutdown \/ shutdownCloses
    BY <2>5, AnswersStop
  <2>6. CASE exit \/ start
    BY <2>6, AnswersExit, AnswersStart
  <2> HIDE DEF process, files
  <2> QED
    BY <1>4, <2>1, <2>2, <2>3, <2>4, <2>5, <2>6 DEF Next
<1> QED
  BY <1>1, <1>5 DEF StillSound, ConversationInv

\* The invariant holds at first.
LEMMA ConversationInit == Init => ConversationInv
<1> SUFFICES ASSUME Init PROVE ConversationInv
  OBVIOUS
<1>1. /\ store = [c \in Conversations |-> <<>>] /\ images = [c \in Conversations |-> {}]
      /\ turns = <<>> /\ sending = [k \in Clients |-> Idle] /\ server = "up"
  BY DEF Init
<1>2. DOMAIN <<>> = {} /\ IsSequence(<<>>)
  BY NoTurns
<1>3. ASSUME NEW c \in Conversations, NEW n PROVE Budget(<<>>, <<>>, c, n)
  <2>1. Asks(<<>>, n) = {} /\ Cut(<<>>, n) = {} /\ Given(<<>>, n) = {}
    BY <1>2 DEF Asks, Cut, Given, Replies
  <2>2. Open(<<>>, c, n) = {} /\ Writers(<<>>, c, n) = {}
    BY NoTurns
  <2>3. /\ Cardinality(Asks(<<>>, n)) = 0 /\ Cardinality(Cut(<<>>, n)) = 0
        /\ Cardinality(Given(<<>>, n)) = 0 /\ Cardinality(Open(<<>>, c, n)) = 0
        /\ Cardinality(Writers(<<>>, c, n)) = 0
    BY <2>1, <2>2, FS_EmptySet
  <2> QED
    BY <2>3 DEF Budget
<1>4. Inv
  BY DEF Init, Inv, TurnsInv, Numbers, Living
<1>5. FilesInv
  BY <1>1, <1>2 DEF FilesInv, ImagesIn
<1>6. AnswersInv
  BY <1>1, <1>2, <1>3 DEF AnswersInv, Owed
<1>7. CallsInv
  BY <1>1, <1>2 DEF CallsInv
<1> QED
  BY <1>4, <1>5, <1>6, <1>7 DEF ConversationInv

\* While the server runs, every question of any file has an answer of its number or a
\* turn that owes it one, and none is answered or marked as interrupted more often
\* than it was asked: for any number of conversations, clients, turns and restarts
\* (Engine.send, _run, _finish, shutdown, recover).
THEOREM AnswersAreSoundAlways == Spec => []AnswersAreSound
<1>1. Init => ConversationInv
  BY ConversationInit
<1>2. ConversationInv /\ [Next]_vars => ConversationInv'
  BY ConversationStep
<1>3. ConversationInv => AnswersAreSound
  BY InvImpliesAnswers
<1> QED
  BY <1>1, <1>2, <1>3, PTL DEF Spec

\* No sweep, removal, restart or failed turn takes an image that a question names
\* (Store.cleanup_attachments, remove_attachment, Engine.send).
THEOREM ImagesKeptAlways == Spec => []ImagesKept
<1>1. Init => ConversationInv
  BY ConversationInit
<1>2. ConversationInv /\ [Next]_vars => ConversationInv'
  BY ConversationStep
<1>3. ConversationInv => ImagesKept
  BY InvImpliesImages
<1> QED
  BY <1>1, <1>2, <1>3, PTL DEF Spec
=============================================================================
