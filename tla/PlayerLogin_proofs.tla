------------------------- MODULE PlayerLogin_proofs -------------------------
(***************************************************************************)
(* For any number of gates, games, sessions and faults: a role never       *)
(* outlives its session (IInv); while nothing fails every login is         *)
(* somewhere until it is answered (Live, Tracked); and a role has its      *)
(* entity, and an entity its role, unless a message under way or the fate  *)
(* of the session says what has come between (JInv).                       *)
(***************************************************************************)
EXTENDS PlayerLogin, SequenceTheorems, TLAPS

-----------------------------------------------------------------------------
(* The invariant. *)

Kinds(q, K)   == {i \in 1 .. Len(q) : q[i].type \in K}
Named(q, K)   == {q[i].session : i \in Kinds(q, K)}
Once(q, K)    == \A i, j \in Kinds(q, K) : q[i].session = q[j].session => i = j

USE DEF wires

Tokens  == {"token"}
Answers == {"ack", "fail"}
Stages  == {"login", "token", "load", "answer", "none"}

\* A login is in one place: with the login process, in a token or a load of one
\* game, or in one answer to its gate; and its session is neither bound nor
\* about to be closed.
Follows(stage, host) ==
    /\ \A s \in verifying : stage[s] = "login"
    /\ \A g \in Games :
          /\ \A s \in Named(toGame[g], Tokens) : stage[s] = "token" /\ host[s] = g
          /\ \A s \in loading[g] : stage[s] = "load" /\ host[s] = g
          /\ \A G \in Gates : \A s \in Named(toGate[g][G], Answers) :
                stage[s] = "answer" /\ host[s] = g /\ gateOf[s] = G
    /\ \A s \in Sessions : stage[s] # "none" =>
          handle[s] \in {"open", "closed"} /\ s \notin closing

Staged == \E stage \in [Sessions -> Stages], host \in [Sessions -> Games \cup {None}] :
              Follows(stage, host)

\* No queue names a login twice.
NoneTwice ==
    \A g \in Games : /\ Once(toGame[g], Tokens)
                     /\ \A G \in Gates : Once(toGate[g][G], Answers)

\* A session that has begun has a gate; one that has not is not being closed.
Opened == \A s \in Sessions : IF handle[s] = "none" THEN s \notin closing ELSE gateOf[s] \in Gates

IInv == TypeOK /\ Opened /\ NoneTwice /\ Staged /\ RoleIsBound

-----------------------------------------------------------------------------
(* Queues. *)

\* A message of another kind at the end names nobody.
LEMMA AppendOther ==
    ASSUME NEW M, NEW q \in Seq(M), NEW m \in M, NEW K, m.type \notin K
    PROVE  /\ Append(q, m) \in Seq(M)
           /\ Named(Append(q, m), K) = Named(q, K)
           /\ Once(q, K) => Once(Append(q, m), K)
<1> DEFINE r == Append(q, m)
<1>1. /\ r \in Seq(M) /\ Len(r) = Len(q) + 1 /\ Len(q) \in Nat
      /\ \A i \in 1 .. Len(q) : r[i] = q[i]
      /\ r[Len(q) + 1] = m
  BY AppendProperties, LenProperties
<1> HIDE DEF r
<1>2. Kinds(r, K) = Kinds(q, K)
  BY <1>1 DEF Kinds
<1>3. \A i \in Kinds(q, K) : r[i] = q[i]
  BY <1>1 DEF Kinds
<1>4. Named(r, K) = Named(q, K)
  BY <1>2, <1>3 DEF Named
<1>5. Once(q, K) => Once(r, K)
  BY <1>2, <1>3 DEF Once
<1> QED BY <1>1, <1>4, <1>5 DEF r

\* A message at the end names one more session.
LEMMA AppendOne ==
    ASSUME NEW M, NEW q \in Seq(M), NEW m \in M, NEW K, m.type \in K,
           m.session \notin Named(q, K)
    PROVE  /\ Append(q, m) \in Seq(M)
           /\ Named(Append(q, m), K) = Named(q, K) \cup {m.session}
           /\ Once(q, K) => Once(Append(q, m), K)
<1> DEFINE r == Append(q, m)
<1>1. /\ r \in Seq(M) /\ Len(r) = Len(q) + 1 /\ Len(q) \in Nat
      /\ \A i \in 1 .. Len(q) : r[i] = q[i]
      /\ r[Len(q) + 1] = m
  BY AppendProperties, LenProperties
<1> HIDE DEF r
<1>2. Kinds(r, K) = Kinds(q, K) \cup {Len(q) + 1}
  BY <1>1 DEF Kinds
<1>3. \A i \in Kinds(q, K) : r[i] = q[i]
  BY <1>1 DEF Kinds
<1>4. Named(r, K) = Named(q, K) \cup {m.session}
  BY <1>1, <1>2, <1>3 DEF Named
<1>5. \A i \in Kinds(q, K) : r[i].session # m.session
  BY <1>3 DEF Named
<1>6. Once(q, K) => Once(r, K)
  BY <1>1, <1>2, <1>3, <1>5 DEF Once
<1> QED BY <1>1, <1>4, <1>6 DEF r

\* Taking the first message names no more, and its session no longer.
LEMMA TailFewer ==
    ASSUME NEW M, NEW q \in Seq(M), q # << >>, NEW K
    PROVE  /\ Tail(q) \in Seq(M)
           /\ Head(q) \in M
           /\ Named(Tail(q), K) \subseteq Named(q, K)
           /\ Once(q, K) => Once(Tail(q), K)
           /\ Head(q).type \in K => Head(q).session \in Named(q, K)
           /\ Once(q, K) /\ Head(q).type \in K => Head(q).session \notin Named(Tail(q), K)
<1> DEFINE r == Tail(q)
<1>1. /\ r \in Seq(M) /\ Head(q) \in M /\ Head(q) = q[1] /\ Len(q) \in Nat /\ Len(q) > 0
      /\ Len(r) = Len(q) - 1
      /\ \A i \in 1 .. Len(r) : r[i] = q[i + 1]
  BY HeadTailProperties, EmptySeq, LenProperties
<1> HIDE DEF r
<1>2. \A i \in Kinds(r, K) : i + 1 \in Kinds(q, K) /\ r[i] = q[i + 1] /\ i \in Nat /\ i # 0
  BY <1>1 DEF Kinds
<1>3. Named(r, K) \subseteq Named(q, K)
  BY <1>2 DEF Named
<1>4. Once(q, K) => Once(r, K)
  BY <1>2 DEF Once
<1>5. Head(q).type \in K => 1 \in Kinds(q, K)
  BY <1>1 DEF Kinds
<1>6. Head(q).type \in K => Head(q).session \in Named(q, K)
  BY <1>1, <1>5 DEF Named
<1>7. ASSUME Once(q, K), Head(q).type \in K, Head(q).session \in Named(r, K) PROVE FALSE
  <2>1. PICK i \in Kinds(r, K) : r[i].session = Head(q).session
    BY <1>7 DEF Named
  <2>2. 1 = i + 1
    BY <2>1, <1>1, <1>2, <1>5, <1>7 DEF Once
  <2> QED BY <2>1, <2>2, <1>2
<1> QED BY <1>1, <1>3, <1>4, <1>6, <1>7 DEF r

\* A queue whose messages are some of another's, each taken once.
LEMMA Fewer ==
    ASSUME NEW q, NEW r, NEW K, NEW f,
           \A i \in Kinds(r, K) : f[i] \in Kinds(q, K) /\ r[i] = q[f[i]],
           \A i, j \in Kinds(r, K) : f[i] = f[j] => i = j
    PROVE  Named(r, K) \subseteq Named(q, K) /\ (Once(q, K) => Once(r, K))
<1>1. Named(r, K) \subseteq Named(q, K)
  BY DEF Named
<1>2. ASSUME Once(q, K), NEW i \in Kinds(r, K), NEW j \in Kinds(r, K), r[i].session = r[j].session
      PROVE  i = j
  BY <1>2 DEF Once
<1> QED BY <1>1, <1>2 DEF Once

\* A queue cut at its end, with the break put in between.
LEMMA CutDown ==
    ASSUME NEW q \in Seq(Messages), NEW got \in 0 .. Len(q), NEW seen \in 0 .. got
    PROVE  LET r == Append(SubSeq(q, 1, seen), Down) \o SubSeq(q, seen + 1, got) IN
           /\ r \in Seq(Messages)
           /\ Len(r) = got + 1 /\ r[seen + 1] = Down
           /\ \A i \in 1 .. seen : r[i] = q[i]
           /\ \A i \in seen + 2 .. got + 1 : r[i] = q[i - 1]
<1> DEFINE a == SubSeq(q, 1, seen)
           b == Append(a, Down)
           c == SubSeq(q, seen + 1, got)
           r == b \o c
<1>1. Len(q) \in Nat /\ got \in Nat /\ seen \in Nat /\ seen <= got /\ got <= Len(q)
  BY LenProperties
<1>2. \A i \in 1 .. seen : i \in 1 .. Len(q)
  BY <1>1
<1>3. /\ a \in Seq(Messages) /\ Len(a) = seen
      /\ \A i \in 1 .. seen : a[i] = q[i]
  BY <1>1, <1>2, SubSeqProperties
<1>4. Down \in Messages
  BY LoginAssumption DEF Down, Messages
<1>5. \A i \in seen + 1 .. got : i \in 1 .. Len(q)
  BY <1>1
<1>6. /\ c \in Seq(Messages) /\ Len(c) = got - seen
      /\ \A i \in 1 .. got - seen : c[i] = q[seen + 1 + i - 1]
  BY <1>1, <1>5, SubSeqProperties
<1> HIDE DEF a, c
<1>7. /\ b \in Seq(Messages) /\ Len(b) = seen + 1 /\ b[seen + 1] = Down
      /\ \A i \in 1 .. seen : b[i] = a[i]
  BY <1>3, <1>4, AppendProperties
<1> HIDE DEF b
<1>12. /\ r \in Seq(Messages) /\ Len(r) = Len(b) + Len(c)
       /\ \A i \in 1 .. Len(b) + Len(c) : r[i] = IF i <= Len(b) THEN b[i] ELSE c[i - Len(b)]
  BY <1>6, <1>7, ConcatProperties
<1> HIDE DEF r
<1>8. /\ Len(r) = got + 1
      /\ \A i \in 1 .. got + 1 : r[i] = IF i <= seen + 1 THEN b[i] ELSE c[i - (seen + 1)]
  <2>1. Len(b) = seen + 1 /\ Len(c) = got - seen
    BY <1>6, <1>7
  <2>2. Len(b) + Len(c) = got + 1
    BY <1>1, <2>1
  <2> QED BY <1>12, <2>1, <2>2
<1>9. \A i \in seen + 2 .. got + 1 :
         /\ i \in 1 .. got + 1 /\ ~(i <= seen + 1)
         /\ i - (seen + 1) \in 1 .. got - seen /\ seen + 1 + (i - (seen + 1)) - 1 = i - 1
  BY <1>1
<1>10. \A i \in seen + 2 .. got + 1 : r[i] = q[i - 1]
  BY <1>6, <1>8, <1>9
<1>11. r[seen + 1] = Down /\ \A i \in 1 .. seen : r[i] = q[i]
  <2>1. seen + 1 \in 1 .. got + 1 /\ \A i \in 1 .. seen : i \in 1 .. got + 1 /\ i <= seen + 1
    BY <1>1
  <2>2. \A i \in 1 .. seen : r[i] = q[i]
    BY <1>3, <1>7, <1>8, <2>1
  <2>3. seen + 1 <= seen + 1
    BY <1>1
  <2> QED BY <1>7, <1>8, <2>1, <2>2, <2>3
<1> QED BY <1>8, <1>10, <1>11, <1>12 DEF r, b, a, c

LEMMA CutDownNames ==
    ASSUME NEW q \in Seq(Messages), NEW got \in 0 .. Len(q), NEW seen \in 0 .. got,
           NEW K, "down" \notin K
    PROVE  LET r == Append(SubSeq(q, 1, seen), Down) \o SubSeq(q, seen + 1, got) IN
           Named(r, K) \subseteq Named(q, K) /\ (Once(q, K) => Once(r, K))
<1> DEFINE r == Append(SubSeq(q, 1, seen), Down) \o SubSeq(q, seen + 1, got)
           f == [i \in 1 .. got + 1 |-> IF i <= seen THEN i ELSE i - 1]
<1>1. /\ Len(r) = got + 1 /\ r[seen + 1] = Down
      /\ \A i \in 1 .. seen : r[i] = q[i]
      /\ \A i \in seen + 2 .. got + 1 : r[i] = q[i - 1]
  BY CutDown
<1> HIDE DEF r
<1>2. Len(q) \in Nat /\ got \in Nat /\ seen \in Nat /\ seen <= got /\ got <= Len(q)
  BY LenProperties
<1>3. \A i \in Kinds(r, K) : i \in 1 .. got + 1 /\ i # seen + 1 /\ r[i].type \in K
  <2>1. Down.type = "down"
    BY DEF Down
  <2> QED BY <1>1, <2>1 DEF Kinds
<1>4. \A i \in Kinds(r, K) : f[i] \in Kinds(q, K) /\ r[i] = q[f[i]]
  <2> TAKE i \in Kinds(r, K)
  <2>1. i \in 1 .. got + 1 /\ i # seen + 1 /\ r[i].type \in K
    BY <1>3
  <2>2. f[i] \in 1 .. Len(q) /\ r[i] = q[f[i]]
    <3>1. CASE i <= seen
      BY <1>1, <1>2, <2>1, <3>1
    <3>2. CASE ~(i <= seen)
      <4>1. i \in seen + 2 .. got + 1 /\ f[i] = i - 1 /\ i - 1 \in 1 .. Len(q)
        BY <1>2, <2>1, <3>2
      <4> QED BY <1>1, <4>1
    <3> QED BY <3>1, <3>2
  <2> QED BY <2>1, <2>2 DEF Kinds
<1>5. \A i, j \in Kinds(r, K) : f[i] = f[j] => i = j
  BY <1>2, <1>3
<1> HIDE DEF f
<1>6. Named(r, K) \subseteq Named(q, K) /\ (Once(q, K) => Once(r, K))
  BY <1>4, <1>5, Fewer
<1> QED BY <1>6 DEF r

\* A queue cut at its end.
LEMMA CutReports ==
    ASSUME NEW q \in Seq(Reports), NEW m \in 1 .. Len(q) + 1, NEW n \in 0 .. Len(q)
    PROVE  SubSeq(q, m, n) \in Seq(Reports)
<1>1. Len(q) \in Nat
  BY LenProperties
<1>2. \A i \in m .. n : i \in 1 .. Len(q)
  BY <1>1
<1> QED BY <1>1, <1>2, SubSeqProperties

LEMMA StraysType ==
    ASSUME NEW q \in Seq(Reports), NEW n
    PROVE  Strays(q, n) \in Seq(Reports)
<1>1. Len(q) \in Nat /\ \A i \in 1 .. Len(q) : q[i] \in Reports
  BY LenProperties, ElementOfSeq
<1>2. \A i \in 1 .. Len(q) : [q[i] EXCEPT !.from = Stranger] \in Reports
  BY <1>1 DEF Reports
<1>3. Strays(q, n) \in [1 .. Len(q) -> Reports]
  BY <1>1, <1>2 DEF Strays
<1> QED BY <1>1, <1>3, SeqDef

LEMMA EmptyNames ==
    ASSUME NEW K PROVE Named(<< >>, K) = {} /\ Once(<< >>, K)
BY DEF Named, Once, Kinds

\* A change of one of the connections between the games and the gates.
LEMMA OneChannel ==
    ASSUME NEW M, NEW f \in [Games -> [Gates -> Seq(M)]], NEW g \in Games, NEW G \in Gates,
           NEW r \in Seq(M)
    PROVE  LET e == [f EXCEPT ![g][G] = r] IN
           /\ e \in [Games -> [Gates -> Seq(M)]]
           /\ \A h \in Games, H \in Gates : e[h][H] = IF h = g /\ H = G THEN r ELSE f[h][H]
OBVIOUS

-----------------------------------------------------------------------------
(* The place of a login. *)

\* Nobody moves.
LEMMA Keeps ==
    ASSUME NEW stage, NEW host, Follows(stage, host),
           verifying' \subseteq verifying,
           \A g \in Games :
              /\ Named(toGame'[g], Tokens) \subseteq Named(toGame[g], Tokens)
              /\ loading'[g] \subseteq loading[g]
              /\ \A G \in Gates : Named(toGate'[g][G], Answers) \subseteq Named(toGate[g][G], Answers),
           gateOf' = gateOf,
           \A s \in Sessions : stage[s] # "none" =>
              handle'[s] \in {"open", "closed"} /\ s \notin closing'
    PROVE  Follows(stage, host)'
BY DEF Follows

\* Whoever is on the way is a session.
LEMMA NamedTypes ==
    ASSUME TypeOK
    PROVE  /\ verifying \subseteq Sessions
           /\ \A g \in Games : /\ Named(toGame[g], Tokens) \subseteq Sessions
                               /\ loading[g] \subseteq Sessions
                               /\ \A G \in Gates : Named(toGate[g][G], Answers) \subseteq Sessions
<1>1. \A K \in {Tokens, Answers}, q \in Seq(Messages) : Named(q, K) \subseteq Sessions
  <2> TAKE K \in {Tokens, Answers}, q \in Seq(Messages)
  <2>1. \A i \in 1 .. Len(q) : q[i] \in Messages
    BY ElementOfSeq
  <2>2. "kick" \notin K /\ "down" \notin K /\ "welcome" \notin K
    BY DEF Tokens, Answers
  <2> QED BY <2>1, <2>2 DEF Named, Kinds, Messages
<1> QED BY <1>1 DEF TypeOK

\* The login of session t, if it is anywhere after the step, is at a of h.
Goes(t, a, h) ==
    /\ verifying' \subseteq verifying \cup {t} /\ (t \in verifying' => a = "login")
    /\ \A g \in Games :
          /\ Named(toGame'[g], Tokens) \subseteq Named(toGame[g], Tokens) \cup {t}
          /\ t \in Named(toGame'[g], Tokens) => a = "token" /\ h = g
          /\ loading'[g] \subseteq loading[g] \cup {t}
          /\ t \in loading'[g] => a = "load" /\ h = g
          /\ \A G \in Gates :
                /\ Named(toGate'[g][G], Answers) \subseteq Named(toGate[g][G], Answers) \cup {t}
                /\ t \in Named(toGate'[g][G], Answers) => a = "answer" /\ h = g /\ gateOf'[t] = G

\* One login moves.
LEMMA Moves ==
    ASSUME TypeOK, NEW stage \in [Sessions -> Stages],
           NEW host \in [Sessions -> Games \cup {None}], Follows(stage, host),
           NEW t \in Sessions, NEW a \in Stages, NEW h \in Games \cup {None}, Goes(t, a, h),
           \A s \in Sessions \ {t} : gateOf'[s] = gateOf[s],
           \A s \in Sessions \ {t} : stage[s] # "none" =>
              handle'[s] \in {"open", "closed"} /\ s \notin closing',
           a # "none" => handle'[t] \in {"open", "closed"} /\ t \notin closing'
    PROVE  Staged'
<1> DEFINE st == [stage EXCEPT ![t] = a]
           ho == [host EXCEPT ![t] = h]
<1>1. st \in [Sessions -> Stages] /\ ho \in [Sessions -> Games \cup {None}]
  OBVIOUS
<1>2. /\ st[t] = a /\ ho[t] = h
      /\ \A s \in Sessions \ {t} : st[s] = stage[s] /\ ho[s] = host[s]
  OBVIOUS
<1> HIDE DEF st, ho
<1> USE NamedTypes DEF Goes
<1>3. Follows(st, ho)'
  <2>1. \A s \in verifying' : st[s] = "login"
    BY <1>2 DEF Follows
  <2>2. ASSUME NEW g \in Games
        PROVE  /\ \A s \in Named(toGame'[g], Tokens) : st[s] = "token" /\ ho[s] = g
               /\ \A s \in loading'[g] : st[s] = "load" /\ ho[s] = g
    <3>1. ASSUME NEW s \in Named(toGame'[g], Tokens) PROVE st[s] = "token" /\ ho[s] = g
      BY <1>2 DEF Follows
    <3>2. ASSUME NEW s \in loading'[g] PROVE st[s] = "load" /\ ho[s] = g
      BY <1>2 DEF Follows
    <3> QED BY <3>1, <3>2
  <2>3. ASSUME NEW g \in Games, NEW G \in Gates, NEW s \in Named(toGate'[g][G], Answers)
        PROVE  st[s] = "answer" /\ ho[s] = g /\ gateOf'[s] = G
    <3>1. s = t \/ s \in Named(toGate[g][G], Answers)
      OBVIOUS
    <3>2. CASE s = t
      BY <3>2, <1>2
    <3>3. CASE s # t
      BY <3>1, <3>3, <1>2 DEF Follows
    <3> QED BY <3>2, <3>3
  <2>4. \A s \in Sessions : st[s] # "none" => handle'[s] \in {"open", "closed"} /\ s \notin closing'
    BY <1>2
  <2> QED BY <2>1, <2>2, <2>3, <2>4 DEF Follows
<1> QED BY <1>1, <1>3 DEF Staged

-----------------------------------------------------------------------------
(* The steps. *)

LEMMA MarkType ==
    ASSUME NEW F, NEW f \in [Sessions -> F], NEW s, NEW what \in F
    PROVE  Mark(f, s, what) \in [Sessions -> F]
BY DEF Mark

LEMMA InitIInv == Init => IInv
<1> SUFFICES ASSUME Init PROVE IInv
  OBVIOUS
<1> USE LoginAssumption DEF Init
<1>1. TypeOK
  BY DEF TypeOK
<1>2. Opened /\ RoleIsBound
  BY DEF Opened, RoleIsBound
<1>3. NoneTwice
  BY EmptyNames DEF NoneTwice
<1>4. Staged
  <2> DEFINE st == [s \in Sessions |-> "none"]
             ho == [s \in Sessions |-> None]
  <2>1. Follows(st, ho)
    BY EmptyNames DEF Follows
  <2>2. st \in [Sessions -> Stages] /\ ho \in [Sessions -> Games \cup {None}]
    BY DEF Stages
  <2> QED BY <2>1, <2>2 DEF Staged
<1> QED BY <1>1, <1>2, <1>3, <1>4 DEF IInv

\* A step that leaves the gates alone and puts no login anywhere.
LEMMA QuietStep ==
    ASSUME IInv, TypeOK', UNCHANGED gateVars, verifying' = verifying,
           \A g \in Games :
              /\ Named(toGame'[g], Tokens) \subseteq Named(toGame[g], Tokens)
              /\ Once(toGame'[g], Tokens)
              /\ loading'[g] \subseteq loading[g]
              /\ \A G \in Gates :
                    /\ Named(toGate'[g][G], Answers) \subseteq Named(toGate[g][G], Answers)
                    /\ Once(toGate'[g][G], Answers)
    PROVE  IInv'
<1>1. Opened' /\ RoleIsBound' /\ NoneTwice'
  BY DEF IInv, Opened, RoleIsBound, NoneTwice, gateVars
<1>2. Staged'
  <2>1. PICK stage \in [Sessions -> Stages], host \in [Sessions -> Games \cup {None}] :
            Follows(stage, host)
    BY DEF IInv, Staged
  <2>2. \A s \in Sessions : stage[s] # "none" =>
            handle'[s] \in {"open", "closed"} /\ s \notin closing'
    BY <2>1 DEF Follows, gateVars
  <2>3. Follows(stage, host)'
    BY <2>1, <2>2, Keeps DEF gateVars
  <2> QED BY <2>3 DEF Staged
<1> QED BY <1>1, <1>2 DEF IInv

\* Nothing but the world's list, or the game's, changes.
LEMMA SameQueues ==
    ASSUME IInv, TypeOK', UNCHANGED << gateVars, verifying, toGame, loading, toGate >>
    PROVE  IInv'
BY QuietStep DEF IInv, NoneTwice

\* The first report of a game.
LEMMA ReportTaken ==
    ASSUME TypeOK, NEW g \in Games, toWorld[g] # << >>
    PROVE  Head(toWorld[g]) \in Reports /\ Tail(toWorld[g]) \in Seq(Reports)
<1>1. toWorld[g] \in Seq(Reports)
  BY DEF TypeOK
<1> QED BY <1>1, TailFewer

LEMMA EnterStep ==
    ASSUME IInv, NEW g \in Games, HandlePlayerEnterWorld(g) PROVE IInv'
<1> USE DEF HandlePlayerEnterWorld, WorldGets
<1>1. Head(toWorld[g]) \in Reports /\ Tail(toWorld[g]) \in Seq(Reports)
  BY ReportTaken DEF IInv
<1>2. toWorld' \in [Games -> Seq(Reports)]
  BY <1>1 DEF IInv, TypeOK
<1>3. online' \in Games \cup {Stranger, None} /\ blind' \subseteq Games
  BY <1>1 DEF IInv, TypeOK, Reports
<1>4. TypeOK'
  BY <1>2, <1>3 DEF IInv, TypeOK, gateVars, gameVars
<1> QED BY <1>4, SameQueues DEF gameVars

LEMMA LeaveStep ==
    ASSUME IInv, NEW g \in Games, HandlePlayerLeaveWorld(g) PROVE IInv'
<1> USE DEF HandlePlayerLeaveWorld, WorldGets
<1>1. Tail(toWorld[g]) \in Seq(Reports)
  BY ReportTaken DEF IInv
<1>2. toWorld' \in [Games -> Seq(Reports)] /\ blind' \subseteq Games
  BY <1>1 DEF IInv, TypeOK
<1>3. TypeOK'
  BY <1>2 DEF IInv, TypeOK, gateVars, gameVars
<1> QED BY <1>3, SameQueues DEF gameVars

\* The queues of the game end with a kick, which names no login.
LEMMA AppendKick ==
    ASSUME NEW q \in Seq(Messages), NEW n \in 0 .. MaxSessions
    PROVE  LET r == Append(q, [Kick EXCEPT !.session = n]) IN
           /\ r \in Seq(Messages)
           /\ Named(r, Tokens) = Named(q, Tokens) /\ Named(r, Answers) = Named(q, Answers)
           /\ (Once(q, Tokens) => Once(r, Tokens)) /\ (Once(q, Answers) => Once(r, Answers))
<1> DEFINE m == [Kick EXCEPT !.session = n]
           r == Append(q, m)
<1>1. m \in Messages /\ m.type \notin Tokens /\ m.type \notin Answers
  BY DEF Kick, Messages, Tokens, Answers
<1> HIDE DEF m
<1>2. r \in Seq(Messages) /\ Named(r, Tokens) = Named(q, Tokens) /\ (Once(q, Tokens) => Once(r, Tokens))
  BY <1>1, AppendOther
<1>3. Named(r, Answers) = Named(q, Answers) /\ (Once(q, Answers) => Once(r, Answers))
  BY <1>1, AppendOther
<1> HIDE DEF r
<1> QED BY <1>2, <1>3 DEF r, m

\* What the world sends that is no token puts no login anywhere.
LEMMA SendToGameTypes ==
    ASSUME NEW q \in [Games -> Seq(Messages)], NEW g \in Games, NEW m \in Messages,
           m.type \notin Tokens, NEW r, r = SendToGame(q, g, m)
    PROVE  /\ r \in [Games -> Seq(Messages)]
           /\ \A h \in Games : /\ Named(r[h], Tokens) = Named(q[h], Tokens)
                               /\ Once(q[h], Tokens) => Once(r[h], Tokens)
<1>1. CASE g \notin conn
  BY <1>1 DEF SendToGame
<1>2. CASE g \in conn
  <2> DEFINE a == Append(q[g], m)
  <2>1. /\ a \in Seq(Messages) /\ Named(a, Tokens) = Named(q[g], Tokens)
        /\ Once(q[g], Tokens) => Once(a, Tokens)
    BY AppendOther
  <2>2. r = [q EXCEPT ![g] = a]
    BY <1>2 DEF SendToGame
  <2> HIDE DEF a
  <2> QED BY <2>1, <2>2
<1> QED BY <1>1, <1>2

LEMMA KickMessage ==
    /\ Kick \in Messages /\ Kick.type \notin Tokens
    /\ Welcome \in Messages /\ Welcome.type \notin Tokens
BY LoginAssumption DEF Kick, Welcome, Messages, Tokens

\* The world kicks the game its list names.
LEMMA KickSent ==
    ASSUME TypeOK, CanKick, NEW r, r = SendToGame(toGame, online, Kick)
    PROVE  /\ r \in [Games -> Seq(Messages)]
           /\ \A h \in Games : /\ Named(r[h], Tokens) = Named(toGame[h], Tokens)
                               /\ Once(toGame[h], Tokens) => Once(r[h], Tokens)
<1>1. online \in Games /\ toGame \in [Games -> Seq(Messages)]
  BY DEF TypeOK, CanKick
<1> QED BY <1>1, KickMessage, SendToGameTypes

\* The world changes its own tables and what it has under way to the games.
LEMMA WorldStep ==
    ASSUME IInv, TypeOK', UNCHANGED << gateVars, verifying, loading, toGate >>,
           \A g \in Games : /\ Named(toGame'[g], Tokens) \subseteq Named(toGame[g], Tokens)
                            /\ Once(toGame[g], Tokens) => Once(toGame'[g], Tokens)
    PROVE  IInv'
BY QuietStep DEF IInv, NoneTwice

LEMMA HttpKickStep ==
    ASSUME IInv, HttpKick PROVE IInv'
<1>1. /\ online \in ring /\ toGame' = SendToGame(toGame, online, Kick) /\ online' = None
      /\ UNCHANGED << gateVars, verifying, ring, blind, gameVars, wires, toGate, toHost, faults, fate >>
  BY DEF HttpKick, CanKick
<1>2. online \in Games /\ toGame \in [Games -> Seq(Messages)]
  BY <1>1 DEF IInv, TypeOK
<1>3. /\ toGame' \in [Games -> Seq(Messages)]
      /\ \A h \in Games : /\ Named(toGame'[h], Tokens) = Named(toGame[h], Tokens)
                          /\ Once(toGame[h], Tokens) => Once(toGame'[h], Tokens)
  BY <1>1, <1>2, KickMessage, SendToGameTypes
<1>4. TypeOK'
  BY <1>1, <1>3 DEF IInv, TypeOK, gateVars, gameVars
<1> QED BY <1>1, <1>3, <1>4, WorldStep DEF gameVars

LEMMA LostGameStep ==
    ASSUME IInv, NEW g \in Games, OnServerLostGame(g) PROVE IInv'
<1> USE DEF OnServerLostGame
<1>1. TypeOK'
  BY DEF IInv, TypeOK, gateVars, gameVars
<1> QED BY <1>1, SameQueues DEF gameVars

LEMMA RegisterStep ==
    ASSUME IInv, NEW g \in Games, HandleRegister(g) PROVE IInv'
<1> DEFINE rest == Tail(toWorld[g])
<1>1. /\ toWorld[g] # << >>
      /\ UNCHANGED << gateVars, verifying, online, blind, gameVars, conn, unsent, toGate, toHost,
                     faults, fate >>
  BY DEF HandleRegister, WorldGets
<1>2. rest \in Seq(Reports)
  BY <1>1, ReportTaken DEF IInv
<1>3. \/ toWorld' = [toWorld EXCEPT ![g] = rest] /\ UNCHANGED << ring, toGame >>
      \/ /\ ring' = ring \cup {g} /\ toGame' = SendToGame(toGame, g, Welcome)
         /\ \E n \in 0 .. Len(rest) : toWorld' = [toWorld EXCEPT ![g] = Strays(rest, n)]
  BY DEF HandleRegister
<1> HIDE DEF rest
<1>4. toWorld' \in [Games -> Seq(Reports)]
  <2>1. CASE toWorld' = [toWorld EXCEPT ![g] = rest]
    BY <1>2, <2>1 DEF IInv, TypeOK
  <2>2. CASE \E n \in 0 .. Len(rest) : toWorld' = [toWorld EXCEPT ![g] = Strays(rest, n)]
    <3>1. PICK n \in 0 .. Len(rest) : toWorld' = [toWorld EXCEPT ![g] = Strays(rest, n)]
      BY <2>2
    <3>2. Strays(rest, n) \in Seq(Reports)
      BY <1>2, StraysType
    <3> QED BY <3>1, <3>2 DEF IInv, TypeOK
  <2> QED BY <1>3, <2>1, <2>2
<1>5. ring' \subseteq Games
  BY <1>3 DEF IInv, TypeOK
<1>6. /\ toGame' \in [Games -> Seq(Messages)]
      /\ \A h \in Games : /\ Named(toGame'[h], Tokens) = Named(toGame[h], Tokens)
                          /\ Once(toGame[h], Tokens) => Once(toGame'[h], Tokens)
  <2>1. toGame \in [Games -> Seq(Messages)]
    BY DEF IInv, TypeOK
  <2>2. CASE toGame' = toGame
    BY <2>1, <2>2
  <2>3. CASE toGame' = SendToGame(toGame, g, Welcome)
    BY <2>1, <2>3, KickMessage, SendToGameTypes
  <2> QED BY <1>3, <2>2, <2>3
<1>7. TypeOK'
  BY <1>1, <1>4, <1>5, <1>6 DEF IInv, TypeOK, gateVars, gameVars
<1> QED BY <1>1, <1>6, <1>7, WorldStep DEF gameVars

\* The connection of a game.
LEMMA BreakStep ==
    ASSUME IInv, NEW g \in Games, Break(g) PROVE IInv'
<1>1. /\ faults < MaxFaults /\ faults' = faults + 1 /\ conn' = conn \ {g}
      /\ UNCHANGED << gateVars, verifying, worldVars, alive, linked, loading, unasked, entity,
                     toGate, toHost, fate >>
  BY DEF Break
<1>2. PICK got \in 0 .. Len(toWorld[g]) : \E kept \in got .. Len(toWorld[g]) :
         /\ toWorld' = [toWorld EXCEPT ![g] = SubSeq(toWorld[g], 1, got)]
         /\ unsent' = [unsent EXCEPT ![g] = SubSeq(toWorld[g], kept + 1, Len(toWorld[g]))]
         /\ missed' \in {missed, missed \cup {g}}
  BY DEF Break
<1>3. PICK kept \in got .. Len(toWorld[g]) :
         /\ toWorld' = [toWorld EXCEPT ![g] = SubSeq(toWorld[g], 1, got)]
         /\ unsent' = [unsent EXCEPT ![g] = SubSeq(toWorld[g], kept + 1, Len(toWorld[g]))]
         /\ missed' \in {missed, missed \cup {g}}
  BY <1>2
<1>4. PICK end \in 0 .. Len(toGame[g]) : \E seen \in 0 .. end :
         toGame' = [toGame EXCEPT ![g] =
                       Append(SubSeq(@, 1, seen), Down) \o SubSeq(@, seen + 1, end)]
  BY DEF Break
<1>5. PICK seen \in 0 .. end :
         toGame' = [toGame EXCEPT ![g] =
                       Append(SubSeq(toGame[g], 1, seen), Down) \o SubSeq(toGame[g], seen + 1, end)]
  BY <1>4
<1>6. toWorld[g] \in Seq(Reports) /\ toGame[g] \in Seq(Messages)
  BY DEF IInv, TypeOK
<1>7. Len(toWorld[g]) \in Nat
  BY <1>6, LenProperties
<1>8. SubSeq(toWorld[g], 1, got) \in Seq(Reports)
  <2>1. 1 \in 1 .. Len(toWorld[g]) + 1
    BY <1>7
  <2> QED BY <1>6, <2>1, CutReports
<1>9. SubSeq(toWorld[g], kept + 1, Len(toWorld[g])) \in Seq(Reports)
  <2>1. kept + 1 \in 1 .. Len(toWorld[g]) + 1 /\ Len(toWorld[g]) \in 0 .. Len(toWorld[g])
    BY <1>7
  <2> QED BY <1>6, <2>1, CutReports
<1> DEFINE r == Append(SubSeq(toGame[g], 1, seen), Down) \o SubSeq(toGame[g], seen + 1, end)
<1>10. r \in Seq(Messages)
  BY <1>6, CutDown
<1>11. Named(r, Tokens) \subseteq Named(toGame[g], Tokens) /\ (Once(toGame[g], Tokens) => Once(r, Tokens))
  BY <1>6, CutDownNames DEF Tokens
<1>12. toGame' = [toGame EXCEPT ![g] = r]
  BY <1>5
<1> HIDE DEF r
<1>13. toWorld' \in [Games -> Seq(Reports)] /\ unsent' \in [Games -> Seq(Reports)]
  BY <1>3, <1>8, <1>9 DEF IInv, TypeOK
<1>14. toGame' \in [Games -> Seq(Messages)]
  BY <1>10, <1>12 DEF IInv, TypeOK
<1>15. conn' \subseteq Games /\ missed' \subseteq Games /\ faults' \in 0 .. MaxFaults
  BY <1>1, <1>3, LoginAssumption DEF IInv, TypeOK
<1>16. TypeOK'
  BY <1>1, <1>13, <1>14, <1>15 DEF IInv, TypeOK, gateVars, worldVars
<1>17. \A h \in Games : /\ Named(toGame'[h], Tokens) \subseteq Named(toGame[h], Tokens)
                        /\ Once(toGame[h], Tokens) => Once(toGame'[h], Tokens)
  BY <1>11, <1>12 DEF IInv, TypeOK
<1> QED BY <1>1, <1>16, <1>17, WorldStep

LEMMA ConnectStep ==
    ASSUME IInv, NEW g \in Games, Connect(g) PROVE IInv'
<1> DEFINE s == Strays(unsent[g], Len(unsent[g]))
           m == [type |-> "register", from |-> Stranger]
           a == toWorld[g] \o s
           r == Append(a, m)
<1>1. /\ conn' = conn \cup {g} /\ unsent' = [unsent EXCEPT ![g] = << >>]
      /\ toWorld' = [toWorld EXCEPT ![g] = r]
      /\ UNCHANGED << gateVars, verifying, worldVars, gameVars, toGame, toGate, toHost, faults, fate >>
  BY DEF Connect
<1>2. toWorld[g] \in Seq(Reports) /\ unsent[g] \in Seq(Reports)
  BY DEF IInv, TypeOK
<1>3. s \in Seq(Reports)
  BY <1>2, StraysType
<1>4. m \in Reports
  BY DEF Reports
<1> HIDE DEF s, m
<1>5. a \in Seq(Reports)
  BY <1>2, <1>3, ConcatProperties
<1> HIDE DEF a
<1>6. r \in Seq(Reports)
  BY <1>4, <1>5, AppendProperties
<1> HIDE DEF r
<1>7. /\ toWorld' \in [Games -> Seq(Reports)] /\ unsent' \in [Games -> Seq(Reports)]
      /\ conn' \subseteq Games
  BY <1>1, <1>6 DEF IInv, TypeOK
<1>8. TypeOK'
  BY <1>1, <1>7 DEF IInv, TypeOK, gateVars, worldVars, gameVars
<1> QED BY <1>1, <1>8, SameQueues DEF gameVars

LEMMA SendToWorldType ==
    ASSUME TypeOK, NEW g \in Games, NEW type \in {"enter", "leave"}, NEW known,
           SendToWorld(g, type, known)
    PROVE  toWorld' \in [Games -> Seq(Reports)] /\ unsent' \in [Games -> Seq(Reports)]
<1> DEFINE m == [type |-> type, from |-> g]
           a == Append(toWorld[g], m)
           b == Append(unsent[g], m)
<1>1. m \in Reports
  BY DEF Reports
<1>2. /\ toWorld' \in {toWorld, [toWorld EXCEPT ![g] = a]}
      /\ unsent' \in {unsent, [unsent EXCEPT ![g] = b]}
  BY DEF SendToWorld
<1> HIDE DEF m
<1>3. a \in Seq(Reports) /\ b \in Seq(Reports)
  <2>1. toWorld[g] \in Seq(Reports) /\ unsent[g] \in Seq(Reports)
    BY DEF TypeOK
  <2> QED BY <1>1, <2>1, AppendProperties
<1> HIDE DEF a, b
<1>4. toWorld' \in [Games -> Seq(Reports)]
  BY <1>2, <1>3 DEF TypeOK
<1>5. unsent' \in [Games -> Seq(Reports)]
  BY <1>2, <1>3 DEF TypeOK
<1> QED BY <1>4, <1>5

\* What is left of a game when an entity leaves it.
LEMMA RemoveEntityTypes ==
    ASSUME TypeOK, NEW g \in Games, RemoveEntity(g)
    PROVE  /\ entity' \in [Games -> Places \cup {None}]
           /\ toWorld' \in [Games -> Seq(Reports)] /\ unsent' \in [Games -> Seq(Reports)]
           /\ missed' \subseteq Games
<1> USE DEF RemoveEntity
<1>2. CASE entity[g] = None
  BY <1>2 DEF TypeOK
<1>3. CASE entity[g] # None
  <2>1. toWorld' \in [Games -> Seq(Reports)] /\ unsent' \in [Games -> Seq(Reports)]
    BY <1>3, SendToWorldType DEF TypeOK
  <2>2. entity' \in [Games -> Places \cup {None}] /\ missed' \subseteq Games
    BY <1>3 DEF TypeOK
  <2> QED BY <2>1, <2>2
<1> QED BY <1>2, <1>3

\* A kick of the player puts no login anywhere.
LEMMA KickPlayerTypes ==
    ASSUME IInv, NEW g \in Games, KickPlayer(g)
    PROVE  /\ entity' \in [Games -> Places \cup {None}]
           /\ toWorld' \in [Games -> Seq(Reports)] /\ unsent' \in [Games -> Seq(Reports)]
           /\ missed' \subseteq Games
           /\ toGate' \in [Games -> [Gates -> Seq(Messages)]]
           /\ \A h \in Games, G \in Gates :
                 /\ Named(toGate'[h][G], Answers) = Named(toGate[h][G], Answers)
                 /\ Once(toGate'[h][G], Answers)
<1>1. TypeOK
  BY DEF IInv
<1>2. RemoveEntity(g)
  BY DEF KickPlayer
<1>3. CASE entity[g] = None
  <2>1. toGate' = toGate
    BY <1>3 DEF KickPlayer
  <2> QED BY <1>1, <1>2, <2>1, RemoveEntityTypes DEF IInv, TypeOK, NoneTwice
<1>4. CASE entity[g] # None
  <2> DEFINE G == entity[g].gate
             n == entity[g].session
             r == Append(toGate[g][G], [Kick EXCEPT !.session = n])
  <2>1. G \in Gates /\ n \in 0 .. MaxSessions /\ toGate[g][G] \in Seq(Messages)
    BY <1>1, <1>4, LoginAssumption DEF TypeOK, Places, Sessions
  <2>2. /\ r \in Seq(Messages)
        /\ Named(r, Answers) = Named(toGate[g][G], Answers)
        /\ Once(r, Answers)
    BY <2>1, AppendKick DEF IInv, NoneTwice
  <2>3. toGate' = [toGate EXCEPT ![g][G] = r]
    BY <1>4 DEF KickPlayer
  <2> HIDE DEF G, n, r
  <2>4. \A h \in Games, H \in Gates :
           toGate'[h][H] = IF h = g /\ H = G THEN r ELSE toGate[h][H]
    BY <1>1, <2>1, <2>3 DEF TypeOK
  <2>5. toGate' \in [Games -> [Gates -> Seq(Messages)]]
    BY <1>1, <2>1, <2>2, <2>3 DEF TypeOK
  <2>6. \A h \in Games, H \in Gates :
                 /\ Named(toGate'[h][H], Answers) = Named(toGate[h][H], Answers)
                 /\ Once(toGate'[h][H], Answers)
    BY <2>2, <2>4 DEF IInv, NoneTwice
  <2> QED BY <1>1, <1>2, <2>5, <2>6, RemoveEntityTypes
<1> QED BY <1>3, <1>4

\* A game takes a message that names no login.
LEMMA GameTakes ==
    ASSUME IInv, NEW g \in Games, toGame[g] # << >>, toGame' = [toGame EXCEPT ![g] = Tail(@)]
    PROVE  /\ toGame' \in [Games -> Seq(Messages)]
           /\ \A h \in Games : /\ Named(toGame'[h], Tokens) \subseteq Named(toGame[h], Tokens)
                               /\ Once(toGame[h], Tokens) => Once(toGame'[h], Tokens)
<1> DEFINE r == Tail(toGame[g])
<1>1. /\ r \in Seq(Messages)
      /\ Named(r, Tokens) \subseteq Named(toGame[g], Tokens)
      /\ Once(toGame[g], Tokens) => Once(r, Tokens)
  <2>1. toGame[g] \in Seq(Messages)
    BY DEF IInv, TypeOK
  <2> QED BY <2>1, TailFewer
<1> HIDE DEF r
<1>2. toGame' = [toGame EXCEPT ![g] = r]
  BY DEF r
<1> QED BY <1>1, <1>2 DEF IInv, TypeOK

LEMMA ClientLostServerStep ==
    ASSUME IInv, NEW g \in Games, OnClientLostServer(g) PROVE IInv'
<1> USE DEF OnClientLostServer, GameGets
<1>1. /\ toGame' \in [Games -> Seq(Messages)]
      /\ \A h \in Games : /\ Named(toGame'[h], Tokens) \subseteq Named(toGame[h], Tokens)
                          /\ Once(toGame[h], Tokens) => Once(toGame'[h], Tokens)
  BY GameTakes
<1>2. TypeOK'
  BY <1>1 DEF IInv, TypeOK, gateVars, worldVars
<1> QED BY <1>1, <1>2, WorldStep

LEMMA ClientConnectionWorldStep ==
    ASSUME IInv, NEW g \in Games, OnClientConnectionWorld(g) PROVE IInv'
<1> USE DEF OnClientConnectionWorld, GameGets
<1>1. /\ toGame' \in [Games -> Seq(Messages)]
      /\ \A h \in Games : /\ Named(toGame'[h], Tokens) \subseteq Named(toGame[h], Tokens)
                          /\ Once(toGame[h], Tokens) => Once(toGame'[h], Tokens)
  BY GameTakes
<1>2. toWorld' \in [Games -> Seq(Reports)] /\ unsent' \in [Games -> Seq(Reports)]
  <2>1. CASE entity[g] = None
    BY <2>1 DEF IInv, TypeOK
  <2>2. CASE entity[g] # None
    BY <2>2, SendToWorldType DEF IInv
  <2> QED BY <2>1, <2>2
<1>3. linked' \subseteq Games
  BY DEF IInv, TypeOK
<1>4. TypeOK'
  BY <1>1, <1>2, <1>3 DEF IInv, TypeOK, gateVars, worldVars
<1> QED BY <1>1, <1>4, WorldStep

LEMMA KickGamePlayerStep ==
    ASSUME IInv, NEW g \in Games, HandleKickGamePlayer(g) PROVE IInv'
<1> USE DEF HandleKickGamePlayer, GameGets
<1>1. toGame[g] \in Seq(Messages) /\ toGame[g] # << >>
  BY DEF IInv, TypeOK
<1>2. \A h \in Games : toGame'[h] = IF h = g THEN Tail(toGame[g]) ELSE toGame[h]
  BY DEF IInv, TypeOK
<1>3. /\ Tail(toGame[g]) \in Seq(Messages)
      /\ Named(Tail(toGame[g]), Tokens) \subseteq Named(toGame[g], Tokens)
      /\ Once(Tail(toGame[g]), Tokens)
  BY <1>1, TailFewer DEF IInv, NoneTwice
<1>4. TypeOK'
  BY <1>3, KickPlayerTypes DEF IInv, TypeOK, gateVars, worldVars
<1>5. \A h \in Games : /\ Named(toGame'[h], Tokens) \subseteq Named(toGame[h], Tokens)
                       /\ Once(toGame'[h], Tokens)
  BY <1>2, <1>3 DEF IInv, NoneTwice
<1> QED BY <1>4, <1>5, KickPlayerTypes, QuietStep

LEMMA DisconnectionStep ==
    ASSUME IInv, NEW g \in Games, NEW G \in Gates, HandlePlayerDisconnection(g, G) PROVE IInv'
<1> USE DEF HandlePlayerDisconnection, HostGets
<1>1. toHost[g][G] \in Seq(Messages) /\ toHost[g][G] # << >>
  BY DEF IInv, TypeOK
<1>2. Tail(toHost[g][G]) \in Seq(Messages)
  BY <1>1, TailFewer
<1>3. toHost' \in [Games -> [Gates -> Seq(Messages)]]
  BY <1>2 DEF IInv, TypeOK
<1> DEFINE Fates == {"none", "logout", "unbound", "displaced", "replaced", "evicted", "crashed"}
<1>4. fate' \in [Sessions -> Fates]
  BY MarkType, "evicted" \in Fates DEF IInv, TypeOK
<1>5. TypeOK'
  BY <1>3, <1>4, RemoveEntityTypes DEF IInv, TypeOK, gateVars, worldVars
<1> QED BY <1>5, SameQueues

LEMMA DropLoginOutStep ==
    ASSUME IInv, NEW g \in Games, NEW G \in Gates, DropLoginOut(g, G) PROVE IInv'
<1> USE DEF DropLoginOut, HostGets
<1>1. toHost[g][G] \in Seq(Messages) /\ toHost[g][G] # << >>
  BY DEF IInv, TypeOK
<1>2. Tail(toHost[g][G]) \in Seq(Messages)
  BY <1>1, TailFewer
<1>3. toHost' \in [Games -> [Gates -> Seq(Messages)]]
  BY <1>2 DEF IInv, TypeOK
<1>4. TypeOK'
  BY <1>3 DEF IInv, TypeOK, gateVars, worldVars, gameVars
<1> QED BY <1>4, SameQueues DEF gameVars

LEMMA ToHostLostStep ==
    ASSUME IInv, NEW g \in Games, NEW G \in Gates, ToHostLost(g, G) PROVE IInv'
<1> USE DEF ToHostLost
<1>1. toHost[g][G] \in Seq(Messages) /\ toHost[g][G] # << >>
  BY DEF IInv, TypeOK
<1>2. Tail(toHost[g][G]) \in Seq(Messages)
  BY <1>1, TailFewer
<1>3. toHost' \in [Games -> [Gates -> Seq(Messages)]]
  BY <1>2 DEF IInv, TypeOK
<1>4. TypeOK'
  BY <1>3 DEF IInv, TypeOK, gateVars, worldVars, gameVars
<1> QED BY <1>4, SameQueues DEF gameVars

LEMMA CrashStep ==
    ASSUME IInv, NEW g \in Games, Crash(g) PROVE IInv'
<1> USE DEF Crash
<1> DEFINE Fates == {"none", "logout", "unbound", "displaced", "replaced", "evicted", "crashed"}
<1>1. fate' \in [Sessions -> Fates]
  BY MarkType, "crashed" \in Fates DEF IInv, TypeOK
<1>2. /\ toGame' \in [Games -> Seq(Messages)]
      /\ loading' \in [Games -> SUBSET Sessions]
      /\ entity' \in [Games -> Places \cup {None}]
      /\ alive' \in [Games -> BOOLEAN]
      /\ faults' \in 0 .. MaxFaults
      /\ missed' \subseteq Games /\ conn' \subseteq Games /\ linked' \subseteq Games
      /\ unsent' \in [Games -> Seq(Reports)]
  BY LoginAssumption DEF IInv, TypeOK
<1>6. toWorld' \in [Games -> Seq(Reports)]
  <2>1. PICK got \in 0 .. Len(toWorld[g]) : toWorld' = [toWorld EXCEPT ![g] = SubSeq(toWorld[g], 1, got)]
    OBVIOUS
  <2>2. toWorld[g] \in Seq(Reports)
    BY DEF IInv, TypeOK
  <2>3. 1 \in 1 .. Len(toWorld[g]) + 1
    BY <2>2, LenProperties
  <2>4. SubSeq(toWorld[g], 1, got) \in Seq(Reports)
    BY <2>2, <2>3, CutReports
  <2> QED BY <2>1, <2>4 DEF IInv, TypeOK
<1>3. TypeOK'
  BY <1>1, <1>2, <1>6 DEF IInv, TypeOK, gateVars, worldVars
<1>4. \A h \in Games : /\ toGame'[h] = IF h = g THEN << >> ELSE toGame[h]
                       /\ loading'[h] \subseteq loading[h]
  BY DEF IInv, TypeOK
<1>5. \A h \in Games : /\ Named(toGame'[h], Tokens) \subseteq Named(toGame[h], Tokens)
                       /\ Once(toGame'[h], Tokens)
  BY <1>4, EmptyNames DEF IInv, NoneTwice
<1> QED BY <1>3, <1>4, <1>5, QuietStep DEF IInv, NoneTwice

LEMMA StartStep ==
    ASSUME IInv, NEW g \in Games, Start(g) PROVE IInv'
<1> USE DEF Start
<1> DEFINE Fates == {"none", "logout", "unbound", "displaced", "replaced", "evicted", "crashed"}
<1>1. fate' \in [Sessions -> Fates]
  <2>1. \A s \in Sessions : fate[s] \in Fates
    BY DEF IInv, TypeOK
  <2>2. \A s \in Sessions : fate'[s] \in {"crashed", fate[s]}
    OBVIOUS
  <2>3. fate' = [s \in Sessions |-> fate'[s]]
    OBVIOUS
  <2> QED BY <2>1, <2>2, <2>3
<1>2. /\ toGate' \in [Games -> [Gates -> Seq(Messages)]]
      /\ alive' \in [Games -> BOOLEAN]
  BY DEF IInv, TypeOK
<1>3. TypeOK'
  BY <1>1, <1>2 DEF IInv, TypeOK, gateVars, worldVars
<1>4. \A h \in Games, G \in Gates : toGate'[h][G] = IF h = g THEN << >> ELSE toGate[h][G]
  BY DEF IInv, TypeOK
<1>5. \A h \in Games, G \in Gates :
         /\ Named(toGate'[h][G], Answers) \subseteq Named(toGate[h][G], Answers)
         /\ Once(toGate'[h][G], Answers)
  BY <1>4, EmptyNames DEF IInv, NoneTwice
<1> QED BY <1>3, <1>5, QuietStep DEF IInv, NoneTwice

-----------------------------------------------------------------------------
(* The steps of the gate. *)

Fates == {"none", "logout", "unbound", "displaced", "replaced", "evicted", "crashed"}

LEMMA SendToHostType ==
    ASSUME TypeOK, NEW g \in Games, NEW G \in Gates, NEW m \in Messages, SendToHost(g, G, m)
    PROVE  toHost' \in [Games -> [Gates -> Seq(Messages)]]
<1>1. Append(toHost[g][G], m) \in Seq(Messages)
  <2>1. toHost[g][G] \in Seq(Messages)
    BY DEF TypeOK
  <2> QED BY <2>1, AppendProperties
<1> QED BY <1>1 DEF SendToHost, TypeOK

LEMMA CloseTypes ==
    ASSUME TypeOK, NEW s \in Sessions, Close(s)
    PROVE  closing' \subseteq closing \cup {s} /\ closing' \subseteq Sessions
BY DEF Close, TypeOK

\* A login is known in its own place only.
LEMMA Alone ==
    ASSUME NEW stage, NEW host, Follows(stage, host), NEW s
    PROVE  /\ stage[s] # "login" => s \notin verifying
           /\ \A g \in Games :
                 /\ stage[s] # "token" \/ host[s] # g => s \notin Named(toGame[g], Tokens)
                 /\ stage[s] # "load" \/ host[s] # g => s \notin loading[g]
                 /\ \A G \in Gates : stage[s] # "answer" \/ host[s] # g \/ gateOf[s] # G =>
                       s \notin Named(toGate[g][G], Answers)
BY DEF Follows

LEMMA LoginVerifyStep ==
    ASSUME IInv, NEW s \in Sessions, NEW G \in Gates, LoginVerify(s, G) PROVE IInv'
<1> USE DEF LoginVerify
<1>1. TypeOK'
  BY DEF IInv, TypeOK, worldVars, gameVars
<1>2. Opened'
  BY DEF IInv, TypeOK, Opened
<1>3. NoneTwice'
  BY DEF IInv, NoneTwice, gameVars
<1>4. RoleIsBound'
  <2> SUFFICES ASSUME NEW H \in Gates, role[H] # None
               PROVE  /\ handle'[role[H].session] = "bound" /\ gateOf'[role[H].session] = H
                      /\ role[H].session \notin closing
    BY DEF RoleIsBound
  <2>1. role[H].session \in Sessions /\ role[H].session # s
    BY DEF IInv, TypeOK, RoleIsBound, Homes
  <2> QED BY <2>1 DEF IInv, TypeOK, RoleIsBound
<1>5. Staged'
  <2>1. PICK stage \in [Sessions -> Stages], host \in [Sessions -> Games \cup {None}] :
            Follows(stage, host)
    BY DEF IInv, Staged
  <2>2. stage[s] = "none"
    BY <2>1 DEF Follows
  <2>3. s \notin closing
    BY DEF IInv, Opened
  <2>4. "login" \in Stages
    BY DEF Stages
  <2>5. TypeOK
    BY DEF IInv
  <2>6. handle'[s] = "open" /\ \A t \in Sessions \ {s} : handle'[t] = handle[t] /\ gateOf'[t] = gateOf[t]
    BY <2>5 DEF TypeOK
  <2>7. \A t \in Sessions \ {s} : stage[t] # "none" =>
            handle'[t] \in {"open", "closed"} /\ t \notin closing'
    BY <2>1, <2>6 DEF Follows
  <2>8. Goes(s, "login", None)
    BY <2>1, <2>2, Alone DEF Goes, gameVars
  <2> QED
    BY <2>1, <2>3, <2>4, <2>5, <2>6, <2>7, <2>8, Moves
<1> QED BY <1>1, <1>2, <1>3, <1>4, <1>5 DEF IInv

\* The gate takes its hands off sessions nobody is logging in with.
LEMMA GateStep ==
    ASSUME IInv, TypeOK', RoleIsBound', UNCHANGED << gateOf, verifying, toGame, loading >>,
           \A g \in Games, G \in Gates :
              /\ Named(toGate'[g][G], Answers) \subseteq Named(toGate[g][G], Answers)
              /\ Once(toGate'[g][G], Answers),
           \A s \in Sessions :
              /\ handle'[s] \in {handle[s], "closed"}
              /\ handle[s] = "none" => handle'[s] = "none"
              /\ s \in closing' => s \in closing \/ handle[s] = "bound"
    PROVE  IInv'
<1>1. Opened'
  BY DEF IInv, Opened
<1>2. NoneTwice'
  BY DEF IInv, NoneTwice
<1>3. Staged'
  <2>1. PICK stage \in [Sessions -> Stages], host \in [Sessions -> Games \cup {None}] :
            Follows(stage, host)
    BY DEF IInv, Staged
  <2>2. \A s \in Sessions : stage[s] # "none" =>
            handle'[s] \in {"open", "closed"} /\ s \notin closing'
    <3> TAKE s \in Sessions
    <3> HAVE stage[s] # "none"
    <3>1. handle[s] \in {"open", "closed"} /\ s \notin closing
      BY <2>1 DEF Follows
    <3> QED BY <3>1
  <2>3. Follows(stage, host)'
    BY <2>1, <2>2, Keeps
  <2> QED BY <2>3 DEF Staged
<1> QED BY <1>1, <1>2, <1>3 DEF IInv

\* The role of a session that goes goes with it.
LEMMA OnPlayerDisconnectionRoles ==
    ASSUME IInv, NEW s \in Sessions, handle[s] \in {"open", "bound"}, OnPlayerDisconnection(s)
    PROVE  /\ role' \in [Gates -> Homes \cup {None}]
           /\ toHost' \in [Games -> [Gates -> Seq(Messages)]]
           /\ fate' \in [Sessions -> Fates]
           /\ \A H \in Gates : role'[H] \in {role[H], None}
           /\ handle[s] = "bound" => role'[gateOf[s]] = None
<1> DEFINE G == gateOf[s]
           m == [type |-> "disconnect", session |-> s]
<1>1. TypeOK /\ G \in Gates
  BY DEF IInv, Opened
<1>2. m \in Messages
  BY DEF Messages
<1>3. CASE handle[s] = "bound" /\ role[G] # None
  <2>1. role[G].game \in Games
    BY <1>1, <1>3 DEF TypeOK, Homes
  <2>2. SendToHost(role[G].game, G, m)
    BY <1>3 DEF OnPlayerDisconnection
  <2> HIDE DEF m
  <2>3. toHost' \in [Games -> [Gates -> Seq(Messages)]]
    BY <1>1, <1>2, <2>1, <2>2, SendToHostType
  <2>4. "evicted" \in Fates /\ fate \in [Sessions -> Fates]
    BY <1>1 DEF Fates, TypeOK
  <2>5. fate' \in [Sessions -> Fates]
    <3>1. fate' = fate \/ fate' = Mark(fate, role[G].session, "evicted")
      BY <1>3 DEF OnPlayerDisconnection
    <3>2. Mark(fate, role[G].session, "evicted") \in [Sessions -> Fates]
      BY <2>4, MarkType
    <3> QED BY <2>4, <3>1, <3>2
  <2>6. role' = [role EXCEPT ![G] = None]
    BY <1>3 DEF OnPlayerDisconnection
  <2> QED BY <1>1, <2>3, <2>5, <2>6 DEF TypeOK
<1>4. CASE ~(handle[s] = "bound" /\ role[G] # None)
  BY <1>1, <1>4 DEF TypeOK, Fates, OnPlayerDisconnection
<1> QED BY <1>3, <1>4

LEMMA SessionLostStep ==
    ASSUME IInv, NEW s \in Sessions, SessionLost(s) PROVE IInv'
<1> USE DEF SessionLost
<1>1. /\ role' \in [Gates -> Homes \cup {None}]
      /\ toHost' \in [Games -> [Gates -> Seq(Messages)]]
      /\ fate' \in [Sessions -> Fates]
      /\ \A H \in Gates : role'[H] \in {role[H], None}
      /\ handle[s] = "bound" => role'[gateOf[s]] = None
  BY OnPlayerDisconnectionRoles
<1>2. TypeOK'
  BY <1>1 DEF IInv, TypeOK, Fates, worldVars, gameVars
<1>3. RoleIsBound'
  <2> SUFFICES ASSUME NEW H \in Gates, role'[H] # None
               PROVE  /\ handle'[role'[H].session] = "bound" /\ gateOf'[role'[H].session] = H
                      /\ role'[H].session \notin closing'
    BY DEF RoleIsBound
  <2>1. role'[H] = role[H] /\ role[H] # None
    BY <1>1
  <2>2. /\ role[H].session \in Sessions
        /\ handle[role[H].session] = "bound" /\ gateOf[role[H].session] = H
        /\ role[H].session \notin closing
    BY <2>1 DEF IInv, TypeOK, RoleIsBound, Homes
  <2>3. role[H].session # s
    BY <1>1, <2>1, <2>2
  <2> QED BY <2>1, <2>2, <2>3 DEF IInv, TypeOK
<1> QED BY <1>2, <1>3, GateStep DEF IInv, TypeOK, NoneTwice, gameVars

LEMMA SessionShutStep ==
    ASSUME IInv, NEW s \in Sessions, SessionShut(s) PROVE IInv'
<1> USE DEF SessionShut
<1>1. handle[s] # "none"
  BY DEF IInv, Opened
<1>2. TypeOK'
  BY DEF IInv, TypeOK, worldVars, gameVars
<1>3. RoleIsBound'
  <2> SUFFICES ASSUME NEW H \in Gates, role[H] # None
               PROVE  /\ handle'[role[H].session] = "bound" /\ gateOf'[role[H].session] = H
                      /\ role[H].session \notin closing'
    BY DEF RoleIsBound
  <2>1. /\ role[H].session \in Sessions
        /\ handle[role[H].session] = "bound" /\ gateOf[role[H].session] = H
        /\ role[H].session \notin closing
    BY DEF IInv, TypeOK, RoleIsBound, Homes
  <2> QED BY <2>1 DEF IInv, TypeOK
<1> QED BY <1>1, <1>2, <1>3, GateStep DEF IInv, TypeOK, NoneTwice, gameVars

\* A role that goes with its session marked for closing leaves the other roles bound.
LEMMA RoleCloses ==
    ASSUME IInv, NEW G \in Gates, role[G] # None, Close(role[G].session),
           role' = [role EXCEPT ![G] = None], UNCHANGED << gateOf, handle >>
    PROVE  /\ RoleIsBound'
           /\ closing' \subseteq Sessions
           /\ \A s \in Sessions : s \in closing' => s \in closing \/ handle[s] = "bound"
<1>1. /\ role[G].session \in Sessions
      /\ handle[role[G].session] = "bound" /\ gateOf[role[G].session] = G
  BY DEF IInv, TypeOK, RoleIsBound, Homes
<1>2. closing' \subseteq closing \cup {role[G].session} /\ closing' \subseteq Sessions
  BY <1>1, CloseTypes DEF IInv
<1>3. RoleIsBound'
  BY <1>1, <1>2 DEF IInv, TypeOK, RoleIsBound
<1> QED BY <1>1, <1>2, <1>3

LEMMA LoginOutStep ==
    ASSUME IInv, NEW s \in Sessions, LoginOut(s) PROVE IInv'
<1> DEFINE G == gateOf[s]
           m == [type |-> "logout", session |-> s]
<1> USE DEF LoginOut
<1>1. G \in Gates /\ m \in Messages /\ TypeOK
  BY DEF IInv, Opened, Messages
<1>2. /\ RoleIsBound' /\ closing' \subseteq Sessions
      /\ \A t \in Sessions : t \in closing' => t \in closing \/ handle[t] = "bound"
  BY <1>1, RoleCloses
<1>3. role' \in [Gates -> Homes \cup {None}]
  BY <1>1 DEF TypeOK
<1>4. toHost' \in [Games -> [Gates -> Seq(Messages)]]
  <2>1. role[G].game \in Games
    BY <1>1 DEF TypeOK, Homes
  <2>2. SendToHost(role[G].game, G, m)
    OBVIOUS
  <2> HIDE DEF m
  <2> QED BY <1>1, <2>1, <2>2, SendToHostType
<1>5. fate' \in [Sessions -> Fates]
  BY <1>1, MarkType DEF Fates, TypeOK
<1>6. TypeOK'
  BY <1>1, <1>2, <1>3, <1>4, <1>5 DEF TypeOK, Fates, worldVars, gameVars
<1> QED BY <1>2, <1>6, GateStep DEF IInv, TypeOK, NoneTwice, gameVars

\* What the gate takes from a game.
LEMMA ReceivedTypes ==
    ASSUME IInv, NEW g \in Games, NEW G \in Gates, NEW type, Incoming(g, G, type), Received(g, G)
    PROVE  /\ Head(toGate[g][G]) \in Messages /\ Head(toGate[g][G]).type = type
           /\ toGate' \in [Games -> [Gates -> Seq(Messages)]]
           /\ \A h \in Games, H \in Gates :
                 /\ Named(toGate'[h][H], Answers) \subseteq Named(toGate[h][H], Answers)
                 /\ Once(toGate'[h][H], Answers)
           /\ type \in Answers =>
                 /\ Head(toGate[g][G]).session \in Named(toGate[g][G], Answers)
                 /\ Head(toGate[g][G]).session \notin Named(toGate'[g][G], Answers)
<1>1. toGate[g][G] \in Seq(Messages) /\ toGate[g][G] # << >> /\ Once(toGate[g][G], Answers)
  BY DEF IInv, TypeOK, NoneTwice, Incoming
<1> DEFINE r == Tail(toGate[g][G])
<1>2. /\ r \in Seq(Messages)
      /\ Head(toGate[g][G]) \in Messages
      /\ Named(r, Answers) \subseteq Named(toGate[g][G], Answers)
      /\ Once(r, Answers)
      /\ type \in Answers => Head(toGate[g][G]).session \in Named(toGate[g][G], Answers)
      /\ type \in Answers => Head(toGate[g][G]).session \notin Named(r, Answers)
  BY <1>1, TailFewer DEF Incoming
<1>3. toGate' = [toGate EXCEPT ![g][G] = r]
  BY DEF Received
<1> HIDE DEF r
<1>4. \A h \in Games, H \in Gates : toGate'[h][H] = IF h = g /\ H = G THEN r ELSE toGate[h][H]
  <2>1. toGate \in [Games -> [Gates -> Seq(Messages)]]
    BY DEF IInv, TypeOK
  <2> QED BY <1>2, <1>3, <2>1, OneChannel
<1>5. toGate' \in [Games -> [Gates -> Seq(Messages)]]
  BY <1>2, <1>3 DEF IInv, TypeOK
<1> QED BY <1>2, <1>4, <1>5 DEF IInv, NoneTwice, Incoming

LEMMA KickGatePlayerStep ==
    ASSUME IInv, NEW g \in Games, NEW G \in Gates, HandleKickGatePlayer(g, G) PROVE IInv'
<1> USE DEF HandleKickGatePlayer
<1>1. /\ toGate' \in [Games -> [Gates -> Seq(Messages)]]
      /\ \A h \in Games, H \in Gates :
            /\ Named(toGate'[h][H], Answers) \subseteq Named(toGate[h][H], Answers)
            /\ Once(toGate'[h][H], Answers)
  BY ReceivedTypes
<1>2. CASE role[G] = None
  <2>1. TypeOK' /\ RoleIsBound'
    BY <1>1, <1>2 DEF IInv, TypeOK, RoleIsBound, worldVars, gameVars
  <2> QED BY <1>1, <1>2, <2>1, GateStep DEF IInv, TypeOK, gameVars
<1>3. CASE role[G] # None
  <2>1. /\ RoleIsBound' /\ closing' \subseteq Sessions
        /\ \A t \in Sessions : t \in closing' => t \in closing \/ handle[t] = "bound"
    BY <1>3, RoleCloses
  <2>2. role' \in [Gates -> Homes \cup {None}]
    BY <1>3 DEF IInv, TypeOK
  <2>3. "displaced" \in Fates /\ fate \in [Sessions -> Fates]
    BY DEF IInv, TypeOK, Fates
  <2>4. fate' \in [Sessions -> Fates]
    BY <1>3, <2>3, MarkType
  <2>5. TypeOK'
    BY <1>1, <1>3, <2>1, <2>2, <2>4 DEF IInv, TypeOK, Fates, worldVars, gameVars
  <2> QED BY <1>1, <2>1, <2>5, GateStep DEF IInv, TypeOK, gameVars
<1> QED BY <1>2, <1>3

\* A login that is nowhere any more.
LEMMA Leaves ==
    ASSUME TypeOK, NEW stage \in [Sessions -> Stages],
           NEW host \in [Sessions -> Games \cup {None}], Follows(stage, host), NEW t \in Sessions,
           gateOf' = gateOf,
           verifying' \subseteq verifying \ {t},
           \A g \in Games :
              /\ Named(toGame'[g], Tokens) \subseteq Named(toGame[g], Tokens) \ {t}
              /\ loading'[g] \subseteq loading[g] \ {t}
              /\ \A G \in Gates :
                    Named(toGate'[g][G], Answers) \subseteq Named(toGate[g][G], Answers) \ {t},
           \A s \in Sessions \ {t} : stage[s] # "none" =>
              handle'[s] \in {"open", "closed"} /\ s \notin closing'
    PROVE  Staged'
<1>1. "none" \in Stages /\ None \in Games \cup {None}
  BY DEF Stages
<1>2. Goes(t, "none", None)
  BY DEF Goes
<1> QED BY <1>1, <1>2, Moves

\* The answer to a login is taken: its session is named nowhere else.
LEMMA AnswerTaken ==
    ASSUME IInv, NEW g \in Games, NEW G \in Gates, NEW type \in Answers,
           Incoming(g, G, type), Received(g, G),
           UNCHANGED << verifying, toGame, loading >>,
           NEW stage, NEW host, Follows(stage, host)
    PROVE  LET s == Head(toGate[g][G]).session IN
           /\ stage[s] = "answer" /\ gateOf[s] = G
           /\ verifying' \subseteq verifying \ {s}
           /\ \A h \in Games :
                 /\ Named(toGame'[h], Tokens) \subseteq Named(toGame[h], Tokens) \ {s}
                 /\ Once(toGame'[h], Tokens)
                 /\ loading'[h] \subseteq loading[h] \ {s}
                 /\ \A H \in Gates :
                       /\ Named(toGate'[h][H], Answers) \subseteq Named(toGate[h][H], Answers) \ {s}
                       /\ Once(toGate'[h][H], Answers)
<1> DEFINE s == Head(toGate[g][G]).session
<1>1. /\ \A h \in Games, H \in Gates :
            /\ Named(toGate'[h][H], Answers) \subseteq Named(toGate[h][H], Answers)
            /\ Once(toGate'[h][H], Answers)
      /\ s \in Named(toGate[g][G], Answers) /\ s \notin Named(toGate'[g][G], Answers)
  BY ReceivedTypes
<1> HIDE DEF s
<1>2. stage[s] = "answer" /\ host[s] = g /\ gateOf[s] = G
  BY <1>1 DEF Follows
<1>3. \A h \in Games, H \in Gates : h # g \/ H # G => s \notin Named(toGate[h][H], Answers)
  BY <1>2, Alone
<1>4. \A h \in Games, H \in Gates : s \notin Named(toGate'[h][H], Answers)
  BY <1>1, <1>3
<1>5. s \notin verifying /\ \A h \in Games : s \notin Named(toGame[h], Tokens) /\ s \notin loading[h]
  BY <1>2, Alone
<1>6. \A h \in Games : Once(toGame[h], Tokens)
  BY DEF IInv, NoneTwice
<1> QED BY <1>1, <1>2, <1>4, <1>5, <1>6 DEF s

\* A session whose login ends at the gate, bound or closed.
LEMMA LoginGameAckStep ==
    ASSUME IInv, NEW g \in Games, NEW G \in Gates, HandleLoginGameAck(g, G) PROVE IInv'
<1> DEFINE s == Head(toGate[g][G]).session
<1> USE DEF HandleLoginGameAck
<1>1. /\ Head(toGate[g][G]) \in Messages /\ Head(toGate[g][G]).type = "ack"
      /\ toGate' \in [Games -> [Gates -> Seq(Messages)]]
      /\ \A h \in Games, H \in Gates :
            /\ Named(toGate'[h][H], Answers) \subseteq Named(toGate[h][H], Answers)
            /\ Once(toGate'[h][H], Answers)
      /\ s \in Named(toGate[g][G], Answers) /\ s \notin Named(toGate'[g][G], Answers)
  BY ReceivedTypes, "ack" \in Answers DEF Answers
<1>2. s \in Sessions
  BY <1>1 DEF Messages
<1>3. TypeOK
  BY DEF IInv
<1> HIDE DEF s
<1>4. CASE handle[s] = "closed"
  <2>1. fate' = Mark(fate, s, "unbound") /\ UNCHANGED << handle, role >>
    BY <1>4 DEF s
  <2>2. "unbound" \in Fates /\ fate \in [Sessions -> Fates]
    BY <1>3 DEF TypeOK, Fates
  <2>3. fate' \in [Sessions -> Fates]
    BY <2>1, <2>2, MarkType
  <2>4. TypeOK' /\ RoleIsBound'
    BY <1>1, <2>1, <2>3 DEF IInv, TypeOK, RoleIsBound, Fates, worldVars, gameVars
  <2> QED BY <1>1, <2>1, <2>4, GateStep DEF IInv, TypeOK, gameVars
<1>5. CASE handle[s] # "closed"
  <2>1. /\ handle' = [handle EXCEPT ![s] = "bound"]
        /\ role' = [role EXCEPT ![G] = [game |-> g, session |-> s]]
        /\ fate' \in {fate, Mark(fate, role[G].session, "displaced")}
    BY <1>5 DEF s
  <2>2. PICK stage \in [Sessions -> Stages], host \in [Sessions -> Games \cup {None}] :
            Follows(stage, host)
    BY DEF IInv, Staged
  <2>3. stage[s] = "answer" /\ host[s] = g /\ gateOf[s] = G /\ s \notin closing
    BY <1>1, <1>2, <2>2 DEF Follows
  <2>4. "displaced" \in Fates /\ fate \in [Sessions -> Fates]
    BY <1>3 DEF TypeOK, Fates
  <2>5. fate' \in [Sessions -> Fates]
    <3>1. Mark(fate, role[G].session, "displaced") \in [Sessions -> Fates]
      BY <2>4, MarkType
    <3> QED BY <2>1, <2>4, <3>1
  <2>6. role' \in [Gates -> Homes \cup {None}] /\ handle' \in [Sessions -> {"none", "open", "bound", "closed"}]
    BY <1>2, <1>3, <2>1 DEF TypeOK, Homes
  <2>7. TypeOK'
    BY <1>1, <1>3, <2>5, <2>6 DEF TypeOK, Fates, worldVars, gameVars
  <2>8. \A t \in Sessions \ {s} : handle'[t] = handle[t]
    BY <1>3, <2>1 DEF TypeOK
  <2>9. RoleIsBound'
    <3> SUFFICES ASSUME NEW H \in Gates, role'[H] # None
                 PROVE  /\ handle'[role'[H].session] = "bound" /\ gateOf[role'[H].session] = H
                        /\ role'[H].session \notin closing
      BY DEF RoleIsBound
    <3>1. handle'[s] = "bound"
      BY <1>2, <1>3, <2>1 DEF TypeOK
    <3>2. CASE H = G
      <4>1. role'[H].session = s
        BY <1>3, <2>1, <3>2 DEF TypeOK
      <4> QED BY <2>3, <3>1, <3>2, <4>1
    <3>3. CASE H # G
      <4>1. role'[H] = role[H]
        BY <1>3, <2>1, <3>3 DEF TypeOK
      <4>2. /\ role[H].session \in Sessions
            /\ handle[role[H].session] = "bound" /\ gateOf[role[H].session] = H
            /\ role[H].session \notin closing
        BY <4>1 DEF IInv, TypeOK, RoleIsBound, Homes
      <4>3. handle'[role[H].session] = "bound"
        BY <2>8, <3>1, <4>2
      <4> QED BY <4>1, <4>2, <4>3
    <3> QED BY <3>2, <3>3
  <2>10. Opened'
    <3> SUFFICES ASSUME NEW t \in Sessions
                 PROVE  IF handle'[t] = "none" THEN t \notin closing ELSE gateOf[t] \in Gates
      BY DEF Opened
    <3>1. CASE t = s
      BY <2>3, <3>1, <1>2, <1>3, <2>1 DEF TypeOK
    <3>2. CASE t # s
      BY <2>8, <3>2 DEF IInv, Opened
    <3> QED BY <3>1, <3>2
  <2>11. NoneTwice'
    BY <1>1 DEF IInv, NoneTwice
  <2>12. Staged'
    <3>1. \A t \in Sessions \ {s} : stage[t] # "none" => handle'[t] \in {"open", "closed"} /\ t \notin closing'
      BY <2>2, <2>8 DEF Follows
    <3>2. UNCHANGED << gateOf, verifying, toGame, loading >> /\ Incoming(g, G, "ack") /\ Received(g, G)
      BY DEF gameVars
    <3>3. "ack" \in Answers
      BY DEF Answers
    <3> HIDE DEF HandleLoginGameAck
    <3>4. /\ verifying' \subseteq verifying \ {s}
          /\ \A h \in Games :
                /\ Named(toGame'[h], Tokens) \subseteq Named(toGame[h], Tokens) \ {s}
                /\ loading'[h] \subseteq loading[h] \ {s}
                /\ \A H \in Gates :
                      Named(toGate'[h][H], Answers) \subseteq Named(toGate[h][H], Answers) \ {s}
      BY <2>2, <3>2, <3>3, AnswerTaken DEF s
    <3> QED BY <1>2, <1>3, <2>2, <3>1, <3>2, <3>4, Leaves
  <2> QED BY <2>7, <2>9, <2>10, <2>11, <2>12 DEF IInv
<1> QED BY <1>4, <1>5

\* A login ends: its session is noted for closing and is nowhere any more.
LEMMA EndsStep ==
    ASSUME IInv, TypeOK', NEW s \in Sessions, Close(s) \/ UNCHANGED closing,
           UNCHANGED << gateOf, handle, role >>,
           NEW stage \in [Sessions -> Stages], NEW host \in [Sessions -> Games \cup {None}],
           Follows(stage, host), stage[s] # "none",
           verifying' \subseteq verifying \ {s},
           \A g \in Games :
              /\ Named(toGame'[g], Tokens) \subseteq Named(toGame[g], Tokens) \ {s}
              /\ Once(toGame'[g], Tokens)
              /\ loading'[g] \subseteq loading[g] \ {s}
              /\ \A G \in Gates :
                    /\ Named(toGate'[g][G], Answers) \subseteq Named(toGate[g][G], Answers) \ {s}
                    /\ Once(toGate'[g][G], Answers)
    PROVE  IInv'
<1>1. handle[s] \in {"open", "closed"}
  BY DEF Follows
<1>2. closing' \subseteq closing \cup {s}
  BY CloseTypes DEF IInv
<1>3. RoleIsBound'
  <2> SUFFICES ASSUME NEW H \in Gates, role[H] # None
               PROVE  /\ handle[role[H].session] = "bound" /\ gateOf[role[H].session] = H
                      /\ role[H].session \notin closing'
    BY DEF RoleIsBound
  <2>1. /\ handle[role[H].session] = "bound" /\ gateOf[role[H].session] = H
        /\ role[H].session \notin closing
    BY DEF IInv, RoleIsBound
  <2> QED BY <1>1, <1>2, <2>1
<1>4. Opened'
  BY <1>1, <1>2 DEF IInv, Opened
<1>5. NoneTwice'
  BY DEF NoneTwice
<1>6. Staged'
  <2>1. TypeOK
    BY DEF IInv
  <2>2. \A t \in Sessions \ {s} : stage[t] # "none" => handle'[t] \in {"open", "closed"} /\ t \notin closing'
    BY <1>2 DEF Follows
  <2> QED BY <2>1, <2>2, Leaves
<1> QED BY <1>3, <1>4, <1>5, <1>6 DEF IInv

LEMMA LoginGameFailStep ==
    ASSUME IInv, NEW g \in Games, NEW G \in Gates, HandleLoginGameFail(g, G) PROVE IInv'
<1> DEFINE s == Head(toGate[g][G]).session
<1> USE DEF HandleLoginGameFail
<1>1. /\ Head(toGate[g][G]) \in Messages /\ Head(toGate[g][G]).type = "fail"
      /\ toGate' \in [Games -> [Gates -> Seq(Messages)]]
  BY ReceivedTypes
<1>2. s \in Sessions
  BY <1>1 DEF Messages
<1>3. PICK stage \in [Sessions -> Stages], host \in [Sessions -> Games \cup {None}] :
          Follows(stage, host)
  BY DEF IInv, Staged
<1>4. /\ Close(s) /\ UNCHANGED << gateOf, handle, role, verifying, toGame, loading >>
      /\ Incoming(g, G, "fail") /\ Received(g, G) /\ "fail" \in Answers
  BY DEF gameVars, Answers
<1>5. closing' \subseteq Sessions
  BY <1>2, <1>4, CloseTypes DEF IInv
<1>6. TypeOK'
  BY <1>1, <1>5 DEF IInv, TypeOK, worldVars, gameVars
<1> HIDE DEF HandleLoginGameFail
<1>7. /\ stage[s] # "none"
      /\ verifying' \subseteq verifying \ {s}
      /\ \A h \in Games :
            /\ Named(toGame'[h], Tokens) \subseteq Named(toGame[h], Tokens) \ {s}
            /\ Once(toGame'[h], Tokens)
            /\ loading'[h] \subseteq loading[h] \ {s}
            /\ \A H \in Gates :
                  /\ Named(toGate'[h][H], Answers) \subseteq Named(toGate[h][H], Answers) \ {s}
                  /\ Once(toGate'[h][H], Answers)
  BY <1>3, <1>4, AnswerTaken
<1> HIDE DEF s
<1> QED BY <1>2, <1>3, <1>4, <1>6, <1>7, EndsStep

LEMMA VerifyFailedStep ==
    ASSUME IInv, NEW s \in Sessions, VerifyFailed(s) PROVE IInv'
<1> USE DEF VerifyFailed
<1>1. PICK stage \in [Sessions -> Stages], host \in [Sessions -> Games \cup {None}] :
          Follows(stage, host)
  BY DEF IInv, Staged
<1>2. stage[s] = "login"
  BY <1>1 DEF Follows
<1>3. Close(s) /\ UNCHANGED << gateOf, handle, role, toGame, loading, toGate >> /\ verifying' = verifying \ {s}
  BY DEF gameVars
<1>4. closing' \subseteq Sessions
  BY <1>3, CloseTypes DEF IInv
<1>5. TypeOK'
  BY <1>4 DEF IInv, TypeOK, worldVars, gameVars
<1>6. \A h \in Games : /\ s \notin Named(toGame[h], Tokens) /\ s \notin loading[h]
                       /\ \A H \in Gates : s \notin Named(toGate[h][H], Answers)
  BY <1>1, <1>2, Alone
<1>7. \A h \in Games : Once(toGame[h], Tokens) /\ \A H \in Gates : Once(toGate[h][H], Answers)
  BY DEF IInv, NoneTwice
<1> HIDE DEF VerifyFailed
<1> QED BY <1>1, <1>2, <1>3, <1>5, <1>6, <1>7, EndsStep

-----------------------------------------------------------------------------
(* The steps of a login. *)

\* A login goes from one place to the next.
LEMMA ProceedsStep ==
    ASSUME IInv, TypeOK', NoneTwice', UNCHANGED gateVars, NEW s \in Sessions,
           NEW stage \in [Sessions -> Stages], NEW host \in [Sessions -> Games \cup {None}],
           Follows(stage, host), stage[s] # "none",
           NEW a \in Stages, NEW h \in Games \cup {None}, Goes(s, a, h)
    PROVE  IInv'
<1>1. Opened' /\ RoleIsBound'
  BY DEF IInv, Opened, RoleIsBound, gateVars
<1>2. Staged'
  <2>1. \A t \in Sessions : stage[t] # "none" => handle'[t] \in {"open", "closed"} /\ t \notin closing'
    BY DEF Follows, gateVars
  <2>2. gateOf' = gateOf /\ TypeOK
    BY DEF gateVars, IInv
  <2> QED BY <2>1, <2>2, Moves
<1> QED BY <1>1, <1>2 DEF IInv

LEMMA LoginWorldVerifyStep ==
    ASSUME IInv, NEW s \in Sessions, HandleLoginWorldVerify(s) PROVE IInv'
<1> DEFINE kicked == IF CanKick THEN SendToGame(toGame, online, Kick) ELSE toGame
           top == GameFor[ring]
<1>1. PICK stage \in [Sessions -> Stages], host \in [Sessions -> Games \cup {None}] :
          Follows(stage, host)
  BY DEF IInv, Staged
<1>2. /\ s \in verifying /\ verifying' = verifying \ {s}
      /\ online' = IF CanKick THEN None ELSE online
      /\ IF ring = {} THEN toGame' = kicked /\ Close(s)
         ELSE toGame' = SendToGame(kicked, top, Token(s)) /\ UNCHANGED closing
      /\ UNCHANGED << gateOf, handle, role, ring, blind, gameVars, wires, toGate, toHost, faults, fate >>
  BY DEF HandleLoginWorldVerify
<1>3. TypeOK
  BY DEF IInv
<1>4. /\ stage[s] = "login"
      /\ \A g \in Games : /\ s \notin Named(toGame[g], Tokens) /\ s \notin loading[g]
                          /\ \A G \in Gates : s \notin Named(toGate[g][G], Answers)
  <2>1. stage[s] = "login"
    BY <1>1, <1>2 DEF Follows
  <2> QED BY <1>1, <2>1, Alone
<1>5. /\ kicked \in [Games -> Seq(Messages)]
      /\ \A g \in Games : /\ Named(kicked[g], Tokens) = Named(toGame[g], Tokens)
                          /\ Once(kicked[g], Tokens)
  <2>1. CASE ~CanKick
    BY <1>3, <2>1 DEF TypeOK, IInv, NoneTwice
  <2>2. CASE CanKick
    <3>1. online \in Games
      BY <1>3, <2>2 DEF TypeOK, CanKick
    <3>2. toGame \in [Games -> Seq(Messages)] /\ \A g \in Games : Once(toGame[g], Tokens)
      BY <1>3 DEF TypeOK, IInv, NoneTwice
    <3>3. kicked = SendToGame(toGame, online, Kick)
      BY <2>2
    <3> HIDE DEF kicked
    <3>4. /\ kicked \in [Games -> Seq(Messages)]
          /\ \A h \in Games : /\ Named(kicked[h], Tokens) = Named(toGame[h], Tokens)
                              /\ Once(toGame[h], Tokens) => Once(kicked[h], Tokens)
      <4> QED BY <1>3, <2>2, <3>3, KickSent
    <3> QED BY <3>2, <3>4
  <2> QED BY <2>1, <2>2
<1> HIDE DEF kicked
<1>6. \A g \in Games, G \in Gates : Once(toGate[g][G], Answers)
  BY DEF IInv, NoneTwice
<1>7. UNCHANGED << loading, toGate >>
  BY <1>2 DEF gameVars
<1>8. CASE ring = {}
  <2>1. toGame' = kicked /\ Close(s) /\ UNCHANGED << gateOf, handle, role >>
    BY <1>2, <1>8
  <2>2. closing' \subseteq Sessions
    BY <1>3, <2>1, CloseTypes
  <2>3. online' \in Games \cup {Stranger, None} /\ verifying' \subseteq Sessions
    BY <1>2, <1>3 DEF TypeOK
  <2>4. TypeOK'
    BY <1>2, <1>3, <1>5, <2>1, <2>2, <2>3 DEF TypeOK, gameVars
  <2> QED BY <1>1, <1>2, <1>4, <1>5, <1>6, <1>7, <2>1, <2>4, EndsStep
<1>9. CASE ring # {}
  <2>1. toGame' = SendToGame(kicked, top, Token(s)) /\ UNCHANGED gateVars
    BY <1>2, <1>9 DEF gateVars
  <2>2. top \in Games
    <3>1. ring \in (SUBSET Games) \ {{}}
      BY <1>3, <1>9 DEF TypeOK
    <3> QED BY <3>1, LoginAssumption
  <2> HIDE DEF top
  <2> DEFINE q == Append(kicked[top], Token(s))
  <2>3. /\ q \in Seq(Messages) /\ Named(q, Tokens) = Named(toGame[top], Tokens) \cup {s}
        /\ Once(q, Tokens)
    <3>1. Token(s) \in Messages /\ Token(s).type \in Tokens /\ Token(s).session = s
      <4>1. s \in Sessions
        BY <1>2, <1>3 DEF TypeOK
      <4> QED BY <4>1 DEF Token, Messages, Tokens
    <3>2. /\ kicked[top] \in Seq(Messages) /\ s \notin Named(kicked[top], Tokens)
          /\ Named(kicked[top], Tokens) = Named(toGame[top], Tokens) /\ Once(kicked[top], Tokens)
      BY <1>4, <1>5, <2>2
    <3> QED BY <3>1, <3>2, AppendOne
  <2> HIDE DEF q
  <2>4. toGame' \in {kicked, [kicked EXCEPT ![top] = q]}
    BY <2>1 DEF q, SendToGame
  <2>5. /\ toGame' \in [Games -> Seq(Messages)]
        /\ \A g \in Games : toGame'[g] = kicked[g] \/ (g = top /\ toGame'[g] = q)
    BY <1>5, <2>2, <2>3, <2>4
  <2>6. \A g \in Games :
           /\ Named(toGame'[g], Tokens) \subseteq Named(toGame[g], Tokens) \cup {s}
           /\ Once(toGame'[g], Tokens)
           /\ s \in Named(toGame'[g], Tokens) => top = g
    BY <1>4, <1>5, <2>3, <2>5
  <2>7. online' \in Games \cup {Stranger, None} /\ verifying' \subseteq Sessions
    BY <1>2, <1>3 DEF TypeOK
  <2>8. TypeOK'
    BY <1>2, <1>3, <2>1, <2>5, <2>7 DEF TypeOK, gameVars, gateVars
  <2>9. "token" \in Stages
    BY DEF Stages
  <2>10. verifying' \subseteq verifying \ {s}
    BY <1>2
  <2>11. \A g \in Games :
           /\ loading'[g] \subseteq loading[g] \cup {s} /\ s \notin loading'[g]
           /\ \A G \in Gates :
                 /\ Named(toGate'[g][G], Answers) \subseteq Named(toGate[g][G], Answers) \cup {s}
                 /\ Once(toGate'[g][G], Answers)
                 /\ s \notin Named(toGate'[g][G], Answers)
    BY <1>4, <1>6, <1>7
  <2>12. Goes(s, "token", top)
    BY <2>6, <2>10, <2>11 DEF Goes
  <2>13. NoneTwice'
    BY <2>6, <2>11 DEF NoneTwice
  <2>14. s \in Sessions
    BY <1>2, <1>3 DEF TypeOK
  <2> QED BY <1>1, <1>4, <2>1, <2>2, <2>8, <2>9, <2>12, <2>13, <2>14, ProceedsStep
<1> QED BY <1>8, <1>9

LEMMA LoginTellTokenStep ==
    ASSUME IInv, NEW g \in Games, HandleLoginTellToken(g) PROVE IInv'
<1> DEFINE s == Head(toGame[g]).session
<1>1. PICK stage \in [Sessions -> Stages], host \in [Sessions -> Games \cup {None}] :
          Follows(stage, host)
  BY DEF IInv, Staged
<1>2. /\ toGame[g] # << >> /\ Head(toGame[g]).type = "token"
      /\ toGame' = [toGame EXCEPT ![g] = Tail(@)] /\ KickPlayer(g)
      /\ \/ loading' = [loading EXCEPT ![g] = @ \cup {s}] /\ UNCHANGED unasked
         \/ unasked' = unasked \cup {s} /\ UNCHANGED loading
      /\ UNCHANGED << gateVars, verifying, worldVars, alive, linked, conn, toHost, faults, fate >>
  BY DEF HandleLoginTellToken, GameGets
<1>3. TypeOK
  BY DEF IInv
<1>4. /\ Head(toGame[g]) \in Messages
      /\ Tail(toGame[g]) \in Seq(Messages)
      /\ Named(Tail(toGame[g]), Tokens) \subseteq Named(toGame[g], Tokens) \ {s}
      /\ Once(Tail(toGame[g]), Tokens)
      /\ s \in Named(toGame[g], Tokens)
  <2>1. toGame[g] \in Seq(Messages) /\ Once(toGame[g], Tokens) /\ "token" \in Tokens
    BY <1>3 DEF TypeOK, IInv, NoneTwice, Tokens
  <2> QED BY <1>2, <2>1, TailFewer
<1>5. s \in Sessions
  BY <1>2, <1>4 DEF Messages
<1> HIDE DEF s
<1>6. stage[s] = "token" /\ host[s] = g
  BY <1>1, <1>4 DEF Follows
<1>7. /\ s \notin verifying
      /\ \A h \in Games : /\ h # g => s \notin Named(toGame[h], Tokens)
                          /\ s \notin loading[h]
                          /\ \A G \in Gates : s \notin Named(toGate[h][G], Answers)
  BY <1>1, <1>6, Alone
<1>8. /\ entity' \in [Games -> Places \cup {None}]
      /\ toWorld' \in [Games -> Seq(Reports)] /\ unsent' \in [Games -> Seq(Reports)]
      /\ missed' \subseteq Games
      /\ toGate' \in [Games -> [Gates -> Seq(Messages)]]
      /\ \A h \in Games, G \in Gates :
            /\ Named(toGate'[h][G], Answers) = Named(toGate[h][G], Answers)
            /\ Once(toGate'[h][G], Answers)
  BY <1>2, KickPlayerTypes
<1>9. /\ toGame' \in [Games -> Seq(Messages)] /\ loading' \in [Games -> SUBSET Sessions]
      /\ unasked' \subseteq Sessions
      /\ \A h \in Games : toGame'[h] = IF h = g THEN Tail(toGame[g]) ELSE toGame[h]
  <2>1. /\ toGame' \in [Games -> Seq(Messages)]
        /\ \A h \in Games : toGame'[h] = IF h = g THEN Tail(toGame[g]) ELSE toGame[h]
    BY <1>2, <1>3, <1>4 DEF TypeOK
  <2>2. loading' \in [Games -> SUBSET Sessions] /\ unasked' \subseteq Sessions
    <3>1. CASE loading' = [loading EXCEPT ![g] = @ \cup {s}] /\ UNCHANGED unasked
      BY <1>3, <1>5, <3>1 DEF TypeOK
    <3>2. CASE unasked' = unasked \cup {s} /\ UNCHANGED loading
      BY <1>3, <1>5, <3>2 DEF TypeOK
    <3> QED BY <1>2, <3>1, <3>2
  <2> QED BY <2>1, <2>2
<1>10. TypeOK'
  BY <1>2, <1>3, <1>8, <1>9 DEF TypeOK, gateVars, worldVars
<1>11. \A h \in Games :
         /\ Named(toGame'[h], Tokens) \subseteq Named(toGame[h], Tokens)
         /\ Once(toGame'[h], Tokens)
         /\ s \notin Named(toGame'[h], Tokens)
         /\ \A G \in Gates :
               /\ Named(toGate'[h][G], Answers) \subseteq Named(toGate[h][G], Answers)
               /\ Once(toGate'[h][G], Answers)
               /\ s \notin Named(toGate'[h][G], Answers)
  BY <1>4, <1>7, <1>8, <1>9 DEF IInv, NoneTwice
<1>12. "load" \in Stages /\ verifying' \subseteq verifying \ {s} /\ UNCHANGED gateVars
  BY <1>2, <1>7 DEF Stages
<1>13. NoneTwice'
  BY <1>11 DEF NoneTwice
<1>14. CASE loading' = [loading EXCEPT ![g] = @ \cup {s}]
  <2>1. \A h \in Games : loading'[h] = IF h = g THEN loading[g] \cup {s} ELSE loading[h]
    BY <1>3, <1>14 DEF TypeOK
  <2>2. \A h \in Games : loading'[h] \subseteq loading[h] \cup {s} /\ (s \in loading'[h] => h = g)
    BY <1>7, <2>1
  <2>3. Goes(s, "load", g)
    BY <1>11, <1>12, <2>2 DEF Goes
  <2> QED BY <1>1, <1>5, <1>6, <1>10, <1>12, <1>13, <2>3, ProceedsStep
<1>15. CASE UNCHANGED loading
  <2>1. \A h \in Games :
           /\ Named(toGame'[h], Tokens) \subseteq Named(toGame[h], Tokens) \ {s}
           /\ Once(toGame'[h], Tokens)
           /\ loading'[h] \subseteq loading[h] \ {s}
           /\ \A G \in Gates :
                 /\ Named(toGate'[h][G], Answers) \subseteq Named(toGate[h][G], Answers) \ {s}
                 /\ Once(toGate'[h][G], Answers)
    <3>1. \A h \in Games : loading'[h] \subseteq loading[h] \ {s}
      BY <1>7, <1>15
    <3> QED BY <1>11, <3>1
  <2>2. UNCHANGED << gateOf, handle, role, closing >> /\ stage[s] # "none"
    BY <1>6, <1>12 DEF gateVars
  <2> QED BY <1>1, <1>5, <1>10, <1>12, <2>1, <2>2, EndsStep
<1> QED BY <1>2, <1>14, <1>15

\* A load ends with an answer to the gate of the session.
LEMMA LoadedStep ==
    ASSUME IInv, TypeOK', UNCHANGED << gateVars, verifying, toGame >>,
           NEW g \in Games, NEW s \in loading[g], NEW m \in {Ack(s), Fail(s)},
           loading' = [loading EXCEPT ![g] = @ \ {s}],
           toGate' = [toGate EXCEPT ![g][gateOf[s]] = Append(@, m)]
    PROVE  IInv'
<1>1. PICK stage \in [Sessions -> Stages], host \in [Sessions -> Games \cup {None}] :
          Follows(stage, host)
  BY DEF IInv, Staged
<1>2. TypeOK /\ s \in Sessions
  BY DEF IInv, TypeOK
<1>3. stage[s] = "load" /\ host[s] = g
  BY <1>1 DEF Follows
<1>4. /\ s \notin verifying
      /\ \A h \in Games : /\ s \notin Named(toGame[h], Tokens)
                          /\ h # g => s \notin loading[h]
                          /\ \A G \in Gates : s \notin Named(toGate[h][G], Answers)
  BY <1>1, <1>3, Alone
<1>5. gateOf[s] \in Gates
  BY <1>1, <1>2, <1>3 DEF Follows, IInv, Opened
<1> DEFINE q == Append(toGate[g][gateOf[s]], m)
<1>6. /\ q \in Seq(Messages) /\ Named(q, Answers) = Named(toGate[g][gateOf[s]], Answers) \cup {s}
      /\ Once(q, Answers)
  <2>1. m \in Messages /\ m.type \in Answers /\ m.session = s
    BY <1>2 DEF Ack, Fail, Messages, Answers
  <2>2. toGate[g][gateOf[s]] \in Seq(Messages) /\ Once(toGate[g][gateOf[s]], Answers)
    BY <1>2, <1>5 DEF TypeOK, IInv, NoneTwice
  <2> QED BY <1>4, <1>5, <2>1, <2>2, AppendOne
<1>7. toGate' = [toGate EXCEPT ![g][gateOf[s]] = q]
  OBVIOUS
<1> HIDE DEF q
<1>8. \A h \in Games, G \in Gates :
         toGate'[h][G] = IF h = g /\ G = gateOf[s] THEN q ELSE toGate[h][G]
  <2>1. toGate \in [Games -> [Gates -> Seq(Messages)]] /\ q \in Seq(Messages)
    BY <1>2, <1>6 DEF TypeOK
  <2> DEFINE e == [toGate EXCEPT ![g][gateOf[s]] = q]
  <2>2. \A h \in Games, G \in Gates :
           e[h][G] = IF h = g /\ G = gateOf[s] THEN q ELSE toGate[h][G]
    BY <1>5, <2>1, OneChannel
  <2> HIDE DEF e
  <2> QED BY <1>7, <2>2 DEF e
<1>9. \A h \in Games : loading'[h] \subseteq loading[h] /\ s \notin loading'[h]
  BY <1>2, <1>4 DEF TypeOK
<1>10. \A h \in Games, G \in Gates :
          /\ Named(toGate'[h][G], Answers) \subseteq Named(toGate[h][G], Answers) \cup {s}
          /\ Once(toGate'[h][G], Answers)
          /\ s \in Named(toGate'[h][G], Answers) => h = g /\ G = gateOf[s]
  BY <1>4, <1>6, <1>8 DEF IInv, NoneTwice
<1>11. "answer" \in Stages /\ verifying' = verifying /\ toGame' = toGame
  BY DEF Stages
<1>12. gateOf' = gateOf
  BY DEF gateVars
<1>13. Goes(s, "answer", g)
  BY <1>4, <1>9, <1>10, <1>11, <1>12 DEF Goes
<1>14. NoneTwice'
  BY <1>10 DEF IInv, NoneTwice
<1> QED BY <1>1, <1>2, <1>3, <1>11, <1>13, <1>14, ProceedsStep

\* The types of an answer on its way.
LEMMA AnswerTypes ==
    ASSUME IInv, NEW g \in Games, NEW s \in loading[g], NEW m \in {Ack(s), Fail(s)},
           loading' = [loading EXCEPT ![g] = @ \ {s}],
           toGate' = [toGate EXCEPT ![g][gateOf[s]] = Append(@, m)]
    PROVE  /\ s \in Sessions /\ gateOf[s] \in Gates
           /\ loading' \in [Games -> SUBSET Sessions]
           /\ toGate' \in [Games -> [Gates -> Seq(Messages)]]
<1>1. PICK stage \in [Sessions -> Stages], host \in [Sessions -> Games \cup {None}] :
          Follows(stage, host)
  BY DEF IInv, Staged
<1>2. TypeOK /\ s \in Sessions
  BY DEF IInv, TypeOK
<1>3. gateOf[s] \in Gates
  <2>1. stage[s] = "load"
    BY <1>1 DEF Follows
  <2> QED BY <1>1, <1>2, <2>1 DEF Follows, IInv, Opened
<1>4. m \in Messages
  BY <1>2 DEF Ack, Fail, Messages
<1>5. Append(toGate[g][gateOf[s]], m) \in Seq(Messages)
  <2>1. toGate[g][gateOf[s]] \in Seq(Messages)
    BY <1>2, <1>3 DEF TypeOK
  <2> QED BY <1>4, <2>1, AppendProperties
<1>6. toGate \in [Games -> [Gates -> Seq(Messages)]]
  BY <1>2 DEF TypeOK
<1>7. toGate' \in [Games -> [Gates -> Seq(Messages)]]
  BY <1>3, <1>5, <1>6, OneChannel
<1>8. loading' \in [Games -> SUBSET Sessions]
  BY <1>2 DEF TypeOK
<1> QED BY <1>2, <1>3, <1>7, <1>8

LEMMA LoadPlayerAckStep ==
    ASSUME IInv, NEW g \in Games, NEW s \in Sessions, HandleLoadPlayerAck(g, s) PROVE IInv'
<1>1. /\ s \in loading[g]
      /\ loading' = [loading EXCEPT ![g] = @ \ {s}]
      /\ entity' = [entity EXCEPT ![g] = [gate |-> gateOf[s], session |-> s]]
      /\ fate' \in {fate, Mark(fate, entity[g].session, "replaced")}
      /\ SendToWorld(g, "enter", linked)
      /\ missed' = missed \ {g}
      /\ toGate' = [toGate EXCEPT ![g][gateOf[s]] = Append(@, Ack(s))]
      /\ UNCHANGED << gateVars, verifying, worldVars, alive, linked, unasked, toGame, conn,
                     toHost, faults >>
  BY DEF HandleLoadPlayerAck
<1>2. /\ gateOf[s] \in Gates
      /\ loading' \in [Games -> SUBSET Sessions]
      /\ toGate' \in [Games -> [Gates -> Seq(Messages)]]
  BY <1>1, AnswerTypes
<1>3. TypeOK
  BY DEF IInv
<1>4. toWorld' \in [Games -> Seq(Reports)] /\ unsent' \in [Games -> Seq(Reports)]
  BY <1>1, <1>3, SendToWorldType DEF TypeOK
<1>5. fate' \in [Sessions -> Fates]
  <2>1. "replaced" \in Fates /\ fate \in [Sessions -> Fates]
    BY <1>3 DEF TypeOK, Fates
  <2>2. Mark(fate, entity[g].session, "replaced") \in [Sessions -> Fates]
    BY <2>1, MarkType
  <2> QED BY <1>1, <2>1, <2>2
<1>6. entity' \in [Games -> Places \cup {None}] /\ missed' \subseteq Games
  BY <1>1, <1>2, <1>3 DEF TypeOK, Places
<1>7. TypeOK'
  BY <1>1, <1>2, <1>3, <1>4, <1>5, <1>6 DEF TypeOK, Fates, gateVars, worldVars
<1> QED BY <1>1, <1>7, LoadedStep

LEMMA LoadPlayerFailStep ==
    ASSUME IInv, NEW g \in Games, NEW s \in Sessions, HandleLoadPlayerFail(g, s) PROVE IInv'
<1>1. /\ s \in loading[g]
      /\ loading' = [loading EXCEPT ![g] = @ \ {s}]
      /\ toGate' = [toGate EXCEPT ![g][gateOf[s]] = Append(@, Fail(s))]
      /\ UNCHANGED << gateVars, verifying, worldVars, alive, linked, unasked, entity, missed,
                      toGame, wires, toHost, faults, fate >>
  BY DEF HandleLoadPlayerFail
<1>2. /\ loading' \in [Games -> SUBSET Sessions]
      /\ toGate' \in [Games -> [Gates -> Seq(Messages)]]
  BY <1>1, AnswerTypes
<1>3. TypeOK'
  BY <1>1, <1>2 DEF IInv, TypeOK, gateVars, worldVars
<1> QED BY <1>1, <1>3, LoadedStep

-----------------------------------------------------------------------------
(* The theorem. *)

LEMMA NextIInv == IInv /\ [Next]_vars => IInv'
<1> SUFFICES ASSUME IInv, [Next]_vars PROVE IInv'
  OBVIOUS
<1>1. CASE UNCHANGED vars
  <2>1. UNCHANGED << gateVars, verifying, toGame, loading, toGate >>
    BY <1>1 DEF vars, gameVars
  <2>2. TypeOK'
    BY <1>1 DEF IInv, TypeOK, vars, gateVars, gameVars, worldVars
  <2> QED BY <2>1, <2>2, SameQueues
<1>2. CASE Next
  <2>1. ASSUME NEW s \in Sessions,
               \/ \E G \in Gates : LoginVerify(s, G)
               \/ SessionLost(s) \/ SessionShut(s) \/ LoginOut(s)
               \/ Verified(s)
               \/ \E g \in Games : Loaded(g, s)
        PROVE  IInv'
    BY <2>1, LoginVerifyStep, SessionLostStep, SessionShutStep, LoginOutStep, VerifyFailedStep,
       LoginWorldVerifyStep, LoadPlayerAckStep, LoadPlayerFailStep DEF Verified, Loaded
  <2>2. ASSUME NEW g \in Games,
               \/ \E G \in Gates : GateReceives(g, G) \/ HostReceives(g, G)
               \/ WorldReceives(g) \/ GameReceives(g)
               \/ OnServerLostGame(g) \/ Break(g) \/ Connect(g)
               \/ Crash(g) \/ Start(g)
        PROVE  IInv'
    BY <2>2, KickGatePlayerStep, LoginGameAckStep, LoginGameFailStep, DisconnectionStep,
       DropLoginOutStep, ToHostLostStep, EnterStep, LeaveStep, RegisterStep,
       KickGamePlayerStep, LoginTellTokenStep, ClientLostServerStep,
       ClientConnectionWorldStep, LostGameStep, BreakStep, ConnectStep, CrashStep, StartStep
       DEF GateReceives, HostReceives, WorldReceives, GameReceives
  <2>3. ASSUME HttpKick PROVE IInv'
    BY <2>3, HttpKickStep
  <2> QED BY <1>2, <2>1, <2>2, <2>3 DEF Next
<1> QED BY <1>1, <1>2

\* A role never outlives its session, whatever logins, kicks, logouts, losses
\* and crashes meet: for any number of gates, games and sessions, the session of
\* a role is bound to the player at that gate and not about to be closed.
THEOREM RolesAreBound == Spec => [](TypeOK /\ RoleIsBound)
<1>1. IInv => TypeOK /\ RoleIsBound
  BY DEF IInv
<1> QED BY InitIInv, NextIInv, <1>1, PTL DEF Spec

\* The tables of the gate, the login, the world and the game hold what the
\* handlers put there, and every message names a session.
THEOREM LoginTypes == Spec => []TypeOK
BY RolesAreBound, PTL

-----------------------------------------------------------------------------
(* Every login is answered. *)

\* A login that has no answer yet is somewhere, or its session is being closed, or
\* its load could not be asked for.
Waiting(s) ==
    \/ s \in verifying \/ s \in closing \/ s \in unasked
    \/ \E g \in Games :
          \/ s \in Named(toGame[g], Tokens) \/ s \in loading[g]
          \/ \E G \in Gates : s \in Named(toGate[g][G], Answers)

\* While nothing fails, the games the world has registered are connected, so that
\* what the world sends to them is not lost, and those that are connected run.
Live ==
    \A g \in Games : /\ g \in ring => g \in conn
                     /\ g \in conn => alive[g]
                     /\ toWorld[g] # << >> => g \in conn

\* Nothing is under way to or from a game that does not run.
Idle(g) ==
    ~ alive[g] => /\ loading[g] = {} /\ toGame[g] = << >>
                  /\ \A G \in Gates : toGate[g][G] = << >>

Tracked == /\ \A g \in Games : Idle(g)
           /\ \A s \in Sessions : handle[s] = "open" => Waiting(s)

Unfailed == faults = 0 => Live /\ Tracked

\* What a message at the end, or one less at the front, does to the names.
LEMMA AppendNames ==
    ASSUME NEW M, NEW q \in Seq(M), NEW m \in M, NEW K
    PROVE  /\ Named(q, K) \subseteq Named(Append(q, m), K)
           /\ m.type \in K => m.session \in Named(Append(q, m), K)
<1> DEFINE r == Append(q, m)
<1>1. /\ Len(r) = Len(q) + 1 /\ Len(q) \in Nat
      /\ \A i \in 1 .. Len(q) : r[i] = q[i]
      /\ r[Len(q) + 1] = m
  BY AppendProperties, LenProperties
<1> HIDE DEF r
<1>2. \A i \in Kinds(q, K) : i \in Kinds(r, K) /\ r[i] = q[i]
  BY <1>1 DEF Kinds
<1>3. m.type \in K => Len(q) + 1 \in Kinds(r, K)
  BY <1>1 DEF Kinds
<1>4. Named(q, K) \subseteq Named(r, K)
  BY <1>2 DEF Named
<1>5. m.type \in K => m.session \in Named(r, K)
  BY <1>1, <1>3 DEF Named
<1> QED BY <1>4, <1>5 DEF r

LEMMA TailNames ==
    ASSUME NEW M, NEW q \in Seq(M), q # << >>, NEW K, NEW s \in Named(q, K)
    PROVE  s \in Named(Tail(q), K) \/ (Head(q).type \in K /\ Head(q).session = s)
<1> DEFINE r == Tail(q)
<1>1. /\ Head(q) = q[1] /\ Len(q) \in Nat /\ Len(q) > 0 /\ Len(r) = Len(q) - 1
      /\ \A i \in 1 .. Len(r) : r[i] = q[i + 1]
  BY HeadTailProperties, EmptySeq, LenProperties
<1> HIDE DEF r
<1>2. PICK i \in Kinds(q, K) : q[i].session = s
  BY DEF Named
<1>3. i \in 1 .. Len(q) /\ q[i].type \in K
  BY DEF Kinds
<1>4. CASE i = 1
  BY <1>1, <1>2, <1>3, <1>4
<1>5. CASE i # 1
  <2>1. i - 1 \in 1 .. Len(r) /\ r[i - 1] = q[i]
    BY <1>1, <1>3, <1>5
  <2>2. i - 1 \in Kinds(r, K)
    BY <1>3, <2>1 DEF Kinds
  <2>3. s \in Named(r, K)
    BY <1>2, <2>1, <2>2 DEF Named
  <2> QED BY <2>3 DEF r
<1> QED BY <1>4, <1>5

\* Wherever the login of s is, it is still there.
LEMMA WaitingSame ==
    ASSUME NEW s \in Sessions, Waiting(s),
           s \in verifying => s \in verifying', s \in closing => s \in closing',
           s \in unasked => s \in unasked',
           \A g \in Games :
              /\ s \in Named(toGame[g], Tokens) => s \in Named(toGame'[g], Tokens)
              /\ s \in loading[g] => s \in loading'[g]
              /\ \A G \in Gates : s \in Named(toGate[g][G], Answers) => s \in Named(toGate'[g][G], Answers)
    PROVE  Waiting(s)'
BY DEF Waiting

LEMMA InitUnfailed == Init => Unfailed
<1> SUFFICES ASSUME Init PROVE Unfailed
  OBVIOUS
<1>1. ASSUME NEW g \in Games PROVE Idle(g)
  BY DEF Init, Idle
<1>2. ASSUME NEW s \in Sessions PROVE handle[s] # "open"
  BY DEF Init
<1>3. Live
  BY DEF Init, Live
<1> QED BY <1>1, <1>2, <1>3 DEF Unfailed, Tracked

\* Of what a game is told to say, the world hears what is said over a connection.
LEMMA SaidLive ==
    ASSUME TypeOK, NEW g \in Games, NEW type, NEW known, SendToWorld(g, type, known)
    PROVE  \A h \in Games : toWorld'[h] # << >> => toWorld[h] # << >> \/ h \in conn
<1>1. toWorld \in [Games -> Seq(Reports)]
  BY DEF TypeOK
<1>2. \A h \in Games : toWorld'[h] = toWorld[h] \/ (h = g /\ g \in conn)
  BY <1>1 DEF SendToWorld
<1> QED BY <1>2

LEMMA RemovedLive ==
    ASSUME TypeOK, NEW g \in Games, RemoveEntity(g)
    PROVE  \A h \in Games : toWorld'[h] # << >> => toWorld[h] # << >> \/ h \in conn
<1>1. CASE entity[g] = None
  BY <1>1 DEF RemoveEntity
<1>2. CASE entity[g] # None
  BY <1>2, SaidLive DEF RemoveEntity
<1> QED BY <1>1, <1>2

LEMMA LiveKept ==
    ASSUME Live, conn' = conn,
           \A g \in Games : /\ g \in ring' => g \in ring \/ g \in conn
                            /\ alive[g] => alive'[g]
                            /\ toWorld'[g] # << >> => toWorld[g] # << >> \/ g \in conn
    PROVE  Live'
BY DEF Live

LEMMA NextLive ==
    ASSUME TypeOK, Live, faults = 0, faults' = 0, [Next]_vars PROVE Live'
<1>1. CASE UNCHANGED vars
  BY <1>1 DEF vars, worldVars, gameVars, Live
<1>2. ASSUME NEW s \in Sessions,
             \/ \E G \in Gates : LoginVerify(s, G)
             \/ SessionLost(s) \/ SessionShut(s) \/ LoginOut(s) \/ Verified(s)
             \/ \E g \in Games : HandleLoadPlayerFail(g, s)
      PROVE  Live'
  <2>1. UNCHANGED << ring, conn, alive, toWorld >>
    BY <1>2 DEF LoginVerify, SessionLost, SessionShut, LoginOut, Verified, VerifyFailed,
                HandleLoginWorldVerify, HandleLoadPlayerFail, worldVars, gameVars
  <2> QED BY <2>1 DEF Live
<1>3. ASSUME NEW s \in Sessions, NEW g \in Games, HandleLoadPlayerAck(g, s) PROVE Live'
  <2>1. UNCHANGED << ring, conn, alive >> /\ SendToWorld(g, "enter", linked)
    BY <1>3 DEF HandleLoadPlayerAck, worldVars
  <2> QED BY <2>1, SaidLive, LiveKept
<1>4. ASSUME NEW g \in Games, NEW G \in Gates, GateReceives(g, G) PROVE Live'
  <2>1. UNCHANGED << ring, conn, alive, toWorld >>
    BY <1>4 DEF GateReceives, HandleKickGatePlayer, HandleLoginGameAck, HandleLoginGameFail,
                worldVars, gameVars
  <2> QED BY <2>1 DEF Live
<1>5. ASSUME NEW g \in Games, NEW G \in Gates, DropLoginOut(g, G) \/ ToHostLost(g, G) PROVE Live'
  <2>1. UNCHANGED << ring, conn, alive, toWorld >>
    BY <1>5 DEF DropLoginOut, ToHostLost, worldVars, gameVars
  <2> QED BY <2>1 DEF Live
<1>6. ASSUME NEW g \in Games, NEW G \in Gates, HandlePlayerDisconnection(g, G) PROVE Live'
  <2>1. UNCHANGED << ring, conn, alive >> /\ RemoveEntity(g)
    BY <1>6 DEF HandlePlayerDisconnection, worldVars
  <2> QED BY <2>1, RemovedLive, LiveKept
<1>7. ASSUME NEW g \in Games, HandleKickGamePlayer(g) \/ HandleLoginTellToken(g) PROVE Live'
  <2>1. UNCHANGED << ring, conn, alive >> /\ RemoveEntity(g)
    BY <1>7 DEF HandleKickGamePlayer, HandleLoginTellToken, KickPlayer, worldVars
  <2> QED BY <2>1, RemovedLive, LiveKept
<1>8. ASSUME NEW g \in Games, OnClientLostServer(g) PROVE Live'
  <2>1. UNCHANGED << ring, conn, alive, toWorld >>
    BY <1>8 DEF OnClientLostServer, worldVars
  <2> QED BY <2>1 DEF Live
<1>9. ASSUME NEW g \in Games, OnClientConnectionWorld(g) PROVE Live'
  <2>1. UNCHANGED << ring, conn, alive >> /\ (toWorld' = toWorld \/ SendToWorld(g, "enter", linked'))
    BY <1>9 DEF OnClientConnectionWorld, worldVars
  <2>2. \A h \in Games : toWorld'[h] # << >> => toWorld[h] # << >> \/ h \in conn
    <3>1. CASE SendToWorld(g, "enter", linked')
      <4>1. PICK known : known = linked'
        OBVIOUS
      <4>2. SendToWorld(g, "enter", known)
        BY <3>1, <4>1
      <4> QED BY <4>2, SaidLive
    <3> QED BY <2>1, <3>1
  <2> QED BY <2>1, <2>2, LiveKept
<1>10. ASSUME NEW g \in Games, HandlePlayerEnterWorld(g) \/ HandlePlayerLeaveWorld(g) PROVE Live'
  <2>1. /\ UNCHANGED << ring, conn, alive >>
        /\ toWorld[g] # << >> /\ toWorld' = [toWorld EXCEPT ![g] = Tail(@)]
    BY <1>10 DEF HandlePlayerEnterWorld, HandlePlayerLeaveWorld, WorldGets, gameVars
  <2>2. \A h \in Games : toWorld'[h] = toWorld[h] \/ h = g
    BY <2>1 DEF TypeOK
  <2> QED BY <2>1, <2>2, LiveKept
<1>11. ASSUME NEW g \in Games, HandleRegister(g) PROVE Live'
  <2>1. /\ UNCHANGED << conn, alive >> /\ ring' \subseteq ring \cup {g} /\ toWorld[g] # << >>
        /\ \E q : toWorld' = [toWorld EXCEPT ![g] = q]
    BY <1>11 DEF HandleRegister, WorldGets, gameVars
  <2>2. g \in conn /\ \A h \in Games : toWorld'[h] = toWorld[h] \/ h = g
    BY <2>1 DEF TypeOK, Live
  <2> QED BY <2>1, <2>2, LiveKept
<1>12. ASSUME NEW g \in Games, OnServerLostGame(g) PROVE Live'
  <2>1. UNCHANGED << conn, alive, toWorld >> /\ ring' \subseteq ring
    BY <1>12 DEF OnServerLostGame, gameVars
  <2> QED BY <2>1, LiveKept
<1>13. ASSUME NEW g \in Games, Break(g) \/ Crash(g) PROVE Live'
  BY <1>13 DEF Break, Crash
<1>14. ASSUME NEW g \in Games, Connect(g) PROVE Live'
  <2>1. /\ alive[g] /\ conn' = conn \cup {g} /\ UNCHANGED << ring, alive >>
        /\ \E q : toWorld' = [toWorld EXCEPT ![g] = q]
    BY <1>14 DEF Connect, worldVars, gameVars
  <2>2. \A h \in Games : toWorld'[h] = toWorld[h] \/ h = g
    BY <2>1 DEF TypeOK
  <2> QED BY <2>1, <2>2 DEF Live
<1>15. ASSUME NEW g \in Games, Start(g) PROVE Live'
  <2>1. UNCHANGED << ring, conn, toWorld >> /\ alive' = [alive EXCEPT ![g] = TRUE]
    BY <1>15 DEF Start, worldVars
  <2>2. \A h \in Games : alive[h] => alive'[h]
    BY <2>1 DEF TypeOK
  <2> QED BY <2>1, <2>2, LiveKept
<1>16. CASE HttpKick
  <2>1. UNCHANGED << ring, conn, alive, toWorld >>
    BY <1>16 DEF HttpKick, gameVars
  <2> QED BY <2>1 DEF Live
<1> QED BY <1>1, <1>2, <1>3, <1>4, <1>5, <1>6, <1>7, <1>8, <1>9, <1>10, <1>11, <1>12, <1>13, <1>14,
           <1>15, <1>16 DEF Next, Loaded, HostReceives, WorldReceives, GameReceives

\* The world sends what it sends to games that are connected, and so run.
Sends(q, r) ==
    /\ r \in [Games -> Seq(Messages)]
    /\ \A h \in Games : /\ h \notin conn => r[h] = q[h]
                        /\ Named(q[h], Tokens) \subseteq Named(r[h], Tokens)

LEMMA WorldSends ==
    ASSUME NEW q \in [Games -> Seq(Messages)], NEW g \in Games, NEW m \in Messages,
           NEW r, r = SendToGame(q, g, m)
    PROVE  /\ Sends(q, r)
           /\ g \in conn /\ m.type \in Tokens => m.session \in Named(r[g], Tokens)
<1>1. CASE g \notin conn
  BY <1>1 DEF SendToGame, Sends
<1>2. CASE g \in conn
  <2> DEFINE a == Append(q[g], m)
  <2>1. /\ a \in Seq(Messages) /\ Named(q[g], Tokens) \subseteq Named(a, Tokens)
        /\ m.type \in Tokens => m.session \in Named(a, Tokens)
    BY AppendNames
  <2>2. r = [q EXCEPT ![g] = a]
    BY <1>2 DEF SendToGame
  <2> HIDE DEF a
  <2> QED BY <1>2, <2>1, <2>2 DEF Sends
<1> QED BY <1>1, <1>2

\* The kick of the game the world's list names.
LEMMA KickNames ==
    ASSUME TypeOK, CanKick, NEW r, r = SendToGame(toGame, online, Kick)
    PROVE  Sends(toGame, r)
<1>1. online \in Games /\ toGame \in [Games -> Seq(Messages)]
  BY DEF TypeOK, CanKick
<1> QED BY <1>1, KickMessage, WorldSends

LEMMA UnfailedWorldVerify ==
    ASSUME TypeOK, NEW t \in Sessions, HandleLoginWorldVerify(t), Live, Tracked
    PROVE  Tracked'
<1> USE DEF Tracked
<1> DEFINE kicked == IF CanKick THEN SendToGame(toGame, online, Kick) ELSE toGame
           h == GameFor[ring]
           n == Token(t)
<1>1. /\ t \in verifying /\ verifying' = verifying \ {t}
      /\ IF ring = {} THEN toGame' = kicked /\ Close(t)
         ELSE toGame' = SendToGame(kicked, h, n) /\ UNCHANGED closing
      /\ UNCHANGED << handle, alive, loading, toGate, unasked >>
  BY DEF HandleLoginWorldVerify, gameVars
<1>2. n \in Messages /\ n.type \in Tokens /\ n.session = t
  BY DEF Token, Messages, Tokens
<1>3. Sends(toGame, kicked)
  <2>1. CASE CanKick
    <3>1. kicked = SendToGame(toGame, online, Kick)
      BY <2>1
    <3> HIDE DEF kicked
    <3> QED BY <2>1, <3>1, KickNames
  <2>2. CASE ~ CanKick
    BY <2>2 DEF TypeOK, Sends
  <2> QED BY <2>1, <2>2
<1> HIDE DEF kicked, n
<1>4. ring # {} => h \in Games /\ h \in conn
  <2>1. ring # {} => h \in ring
    BY LoginAssumption DEF TypeOK
  <2> QED BY <2>1 DEF TypeOK, Live
<1> HIDE DEF h
<1>5. /\ \A g \in Games : /\ g \notin conn => toGame'[g] = toGame[g]
                          /\ Named(toGame[g], Tokens) \subseteq Named(toGame'[g], Tokens)
      /\ ring # {} => \E g \in Games : t \in Named(toGame'[g], Tokens)
  <2>1. CASE ring = {}
    BY <1>1, <1>3, <2>1 DEF Sends
  <2>2. CASE ring # {}
    <3>1. h \in Games /\ h \in conn /\ toGame' = SendToGame(kicked, h, n)
      BY <1>1, <1>4, <2>2
    <3>2. kicked \in [Games -> Seq(Messages)]
      BY <1>3 DEF Sends
    <3>3. PICK r : r = toGame'
      OBVIOUS
    <3>4. Sends(kicked, r) /\ (n.type \in Tokens => n.session \in Named(r[h], Tokens))
      BY <1>2, <3>1, <3>2, <3>3, WorldSends
    <3> QED BY <1>2, <1>3, <3>1, <3>3, <3>4 DEF Sends
  <2> QED BY <2>1, <2>2
<1>6. \A g \in Games : Idle(g)'
  BY <1>1, <1>5 DEF Idle, Live
<1>7. ASSUME NEW s \in Sessions, handle'[s] = "open" PROVE Waiting(s)'
  <2>1. handle[s] = "open" /\ Waiting(s)
    BY <1>1, <1>7
  <2>2. CASE s = t /\ ring # {}
    BY <1>5, <2>2 DEF Waiting
  <2>3. CASE s = t /\ ring = {}
    BY <1>1, <2>1, <2>3 DEF Close, Waiting
  <2>4. CASE s # t
    <3>1. s \in closing => s \in closing'
      BY <1>1 DEF Close
    <3> QED BY <1>1, <1>5, <2>1, <2>4, <3>1, WaitingSame
  <2> QED BY <2>2, <2>3, <2>4
<1> QED BY <1>6, <1>7

\* The world sends to games that run, and takes no login away.
LEMMA UnfailedSends ==
    ASSUME Live, Tracked, UNCHANGED << handle, closing, verifying, unasked, alive, loading, toGate >>,
           \A g \in Games : /\ g \notin conn => toGame'[g] = toGame[g]
                            /\ Named(toGame[g], Tokens) \subseteq Named(toGame'[g], Tokens)
    PROVE  Tracked'
<1>1. \A g \in Games : Idle(g)'
  BY DEF Idle, Live, Tracked
<1>2. \A s \in Sessions : handle'[s] = "open" => Waiting(s)'
  BY WaitingSame DEF Tracked
<1> QED BY <1>1, <1>2 DEF Tracked

LEMMA UnfailedHttpKick ==
    ASSUME TypeOK, HttpKick, Live, Tracked
    PROVE  Tracked'
<1>1. /\ CanKick /\ toGame' = SendToGame(toGame, online, Kick)
      /\ UNCHANGED << handle, closing, verifying, unasked, alive, loading, toGate >>
  BY DEF HttpKick, gateVars, gameVars
<1>2. \A g \in Games : /\ g \notin conn => toGame'[g] = toGame[g]
                       /\ Named(toGame[g], Tokens) \subseteq Named(toGame'[g], Tokens)
  BY <1>1, KickNames DEF Sends
<1> QED BY <1>1, <1>2, UnfailedSends

LEMMA UnfailedRegister ==
    ASSUME TypeOK, NEW g \in Games, HandleRegister(g), Live, Tracked
    PROVE  Tracked'
<1>1. /\ toGame' = toGame \/ toGame' = SendToGame(toGame, g, Welcome)
      /\ UNCHANGED << handle, closing, verifying, unasked, alive, loading, toGate >>
  BY DEF HandleRegister, gateVars, gameVars
<1>2. \A h \in Games : /\ h \notin conn => toGame'[h] = toGame[h]
                       /\ Named(toGame[h], Tokens) \subseteq Named(toGame'[h], Tokens)
  <2>1. CASE toGame' = toGame
    BY <2>1
  <2>2. CASE toGame' = SendToGame(toGame, g, Welcome)
    <3>1. toGame \in [Games -> Seq(Messages)]
      BY DEF TypeOK
    <3>2. Sends(toGame, toGame')
      BY <2>2, <3>1, KickMessage, WorldSends
    <3> QED BY <3>2 DEF Sends
  <2> QED BY <1>1, <2>1, <2>2
<1> QED BY <1>1, <1>2, UnfailedSends

\* A game that is told to kick the player, or to load it, tells the gate of the
\* entity it has.
LEMMA KickSends ==
    ASSUME TypeOK, NEW g \in Games, KickPlayer(g), NEW h \in Games, NEW G \in Gates
    PROVE  /\ h # g => toGate'[h][G] = toGate[h][G]
           /\ Named(toGate[h][G], Answers) \subseteq Named(toGate'[h][G], Answers)
<1>1. CASE entity[g] = None
  BY <1>1 DEF KickPlayer
<1>2. CASE entity[g] # None
  <2> DEFINE m == [Kick EXCEPT !.session = entity[g].session]
  <2>1. entity[g] \in Places /\ m \in Messages
    <3>1. entity[g] \in Places
      BY <1>2 DEF TypeOK
    <3>2. entity[g].session \in 0 .. MaxSessions
      BY <3>1, LoginAssumption DEF Places, Sessions
    <3>3. m = [type |-> "kick", session |-> entity[g].session]
      BY DEF Kick
    <3> QED BY <3>1, <3>2, <3>3 DEF Messages
  <2>2. toGate' = [toGate EXCEPT ![g][entity[g].gate] = Append(@, m)]
    BY <1>2 DEF KickPlayer
  <2> HIDE DEF m
  <2>3. toGate[h][G] \in Seq(Messages) /\ toGate \in [Games -> [Gates -> Seq(Messages)]]
    BY DEF TypeOK
  <2>4. Named(toGate[h][G], Answers) \subseteq Named(Append(toGate[h][G], m), Answers)
    BY <2>1, <2>3, AppendNames
  <2>5. toGate'[h][G] = toGate[h][G] \/ (h = g /\ toGate'[h][G] = Append(toGate[h][G], m))
    BY <2>2, <2>3
  <2> QED BY <2>4, <2>5
<1> QED BY <1>1, <1>2

LEMMA UnfailedGame ==
    ASSUME TypeOK, NEW g \in Games, GameReceives(g), Tracked
    PROVE  Tracked'
<1> USE DEF Tracked
<1> DEFINE m == Head(toGame[g])
<1>1. /\ alive[g] /\ toGame[g] # << >> /\ toGame' = [toGame EXCEPT ![g] = Tail(@)]
      /\ KickPlayer(g) \/ toGate' = toGate
      /\ \/ m.type # "token" /\ UNCHANGED << loading, unasked >>
         \/ m.type = "token" /\ loading' = [loading EXCEPT ![g] = @ \cup {m.session}] /\ UNCHANGED unasked
         \/ m.type = "token" /\ unasked' = unasked \cup {m.session} /\ UNCHANGED loading
      /\ UNCHANGED << handle, closing, verifying, alive >>
  BY DEF GameReceives, HandleKickGamePlayer, HandleLoginTellToken, OnClientLostServer,
         OnClientConnectionWorld, GameGets, gateVars
<1> HIDE DEF m
<1>2. /\ toGame'[g] = Tail(toGame[g])
      /\ \A h \in Games \ {g} : toGame'[h] = toGame[h] /\ loading'[h] = loading[h]
      /\ loading[g] \subseteq loading'[g] /\ unasked \subseteq unasked'
      /\ m.type = "token" => m.session \in loading'[g] \cup unasked'
  BY <1>1 DEF TypeOK
<1>3. \A h \in Games, G \in Gates :
         /\ h # g => toGate'[h][G] = toGate[h][G]
         /\ Named(toGate[h][G], Answers) \subseteq Named(toGate'[h][G], Answers)
  <2>1. CASE KickPlayer(g)
    BY <2>1, KickSends
  <2>2. CASE toGate' = toGate
    BY <2>2
  <2> QED BY <1>1, <2>1, <2>2
<1>4. ASSUME NEW h \in Games PROVE Idle(h)'
  <2>1. CASE h = g
    BY <1>1, <2>1 DEF Idle
  <2>2. CASE h # g
    BY <1>1, <1>2, <1>3, <2>2 DEF Idle
  <2> QED BY <2>1, <2>2
<1>5. ASSUME NEW s \in Sessions, handle'[s] = "open" PROVE Waiting(s)'
  <2>1. Waiting(s)
    BY <1>1, <1>5
  <2>2. ASSUME s \in Named(toGame[g], Tokens) PROVE Waiting(s)'
    <3>1. s \in Named(Tail(toGame[g]), Tokens) \/ (m.type \in Tokens /\ m.session = s)
      BY <1>1, <2>2, TailNames DEF TypeOK, m
    <3> QED BY <1>2, <3>1 DEF Tokens, Waiting
  <2>3. CASE s \in Named(toGame[g], Tokens)
    BY <2>2, <2>3
  <2>4. CASE s \notin Named(toGame[g], Tokens)
    <3>1. \A h \in Games : /\ s \in Named(toGame[h], Tokens) => s \in Named(toGame'[h], Tokens)
                           /\ s \in loading[h] => s \in loading'[h]
      BY <1>2, <2>4
    <3> QED BY <1>1, <1>2, <1>3, <2>1, <3>1, WaitingSame
  <2> QED BY <2>3, <2>4
<1> QED BY <1>4, <1>5

\* The load of a player is answered.
LEMMA UnfailedLoaded ==
    ASSUME IInv, NEW g \in Games, NEW t \in loading[g], NEW m \in {Ack(t), Fail(t)},
           loading' = [loading EXCEPT ![g] = @ \ {t}],
           toGate' = [toGate EXCEPT ![g][gateOf[t]] = Append(@, m)],
           UNCHANGED << handle, closing, verifying, unasked, alive, toGame >>,
           Tracked
    PROVE  Tracked'
<1> USE DEF Tracked
<1>1. /\ TypeOK /\ t \in Sessions /\ gateOf[t] \in Gates /\ alive[g]
      /\ m \in Messages /\ m.type \in Answers /\ m.session = t
  <2>1. TypeOK /\ t \in Sessions /\ gateOf[t] \in Gates
    BY AnswerTypes DEF IInv
  <2>2. m \in Messages /\ m.type \in Answers /\ m.session = t
    BY <2>1 DEF Ack, Fail, Messages, Answers
  <2> QED BY <2>1, <2>2 DEF Idle
<1>2. toGate \in [Games -> [Gates -> Seq(Messages)]]
  BY <1>1 DEF TypeOK
<1> DEFINE q == toGate[g][gateOf[t]]
<1>3. /\ toGate'[g][gateOf[t]] = Append(q, m)
      /\ \A h \in Games, G \in Gates : toGate'[h][G] = toGate[h][G] \/ (h = g /\ G = gateOf[t])
  BY <1>1, <1>2
<1>4. /\ Named(q, Answers) \subseteq Named(Append(q, m), Answers)
      /\ t \in Named(Append(q, m), Answers)
  BY <1>1, <1>2, AppendNames
<1>5. /\ \A h \in Games \ {g} : loading'[h] = loading[h]
      /\ loading'[g] = loading[g] \ {t}
  BY <1>1 DEF TypeOK
<1>6. \A h \in Games : Idle(h)'
  <2> TAKE h \in Games
  <2>1. CASE h = g
    BY <1>1, <2>1 DEF Idle
  <2>2. CASE h # g
    BY <1>3, <1>5, <2>2 DEF Idle
  <2> QED BY <2>1, <2>2
<1>7. ASSUME NEW s \in Sessions, handle'[s] = "open" PROVE Waiting(s)'
  <2>1. CASE s = t
    BY <1>1, <1>3, <1>4, <2>1 DEF Waiting
  <2>2. CASE s # t
    <3>1. \A h \in Games, G \in Gates :
             s \in Named(toGate[h][G], Answers) => s \in Named(toGate'[h][G], Answers)
      BY <1>3, <1>4
    <3>2. \A h \in Games : s \in loading[h] => s \in loading'[h]
      BY <1>5, <2>2
    <3> QED BY <1>7, <2>2, <3>1, <3>2, WaitingSame
  <2> QED BY <2>1, <2>2
<1> QED BY <1>6, <1>7

\* A gate takes a message.
LEMMA UnfailedGate ==
    ASSUME TypeOK, NEW g \in Games, NEW G \in Gates, GateReceives(g, G),
           Tracked
    PROVE  Tracked'
<1> USE DEF Tracked
<1> DEFINE m == Head(toGate[g][G])
<1>1. /\ toGate[g][G] # << >> /\ toGate' = [toGate EXCEPT ![g][G] = Tail(@)]
      /\ UNCHANGED << verifying, unasked, alive, loading, toGame >>
      /\ closing \subseteq closing'
      /\ m.type \in {"kick", "ack", "fail"}
  BY DEF GateReceives, HandleKickGatePlayer, HandleLoginGameAck, HandleLoginGameFail,
         Incoming, Received, worldVars, gameVars, Close
<1>2. \A t \in Sessions : handle'[t] = "open" => handle[t] = "open"
  BY DEF GateReceives, HandleKickGatePlayer, HandleLoginGameAck, HandleLoginGameFail, TypeOK
<1>3. \A s \in Sessions : handle'[s] = "open" /\ m.session = s => m.type # "ack" /\ (m.type = "fail" => s \in closing')
  BY DEF GateReceives, HandleKickGatePlayer, HandleLoginGameAck, HandleLoginGameFail, Incoming,
         Close, TypeOK
<1>4. toGate \in [Games -> [Gates -> Seq(Messages)]]
  BY DEF TypeOK
<1>5. /\ toGate'[g][G] = Tail(toGate[g][G])
      /\ \A h \in Games, H \in Gates : toGate'[h][H] = toGate[h][H] \/ (h = g /\ H = G)
  BY <1>1, <1>4
<1>6. \A h \in Games : Idle(h)'
  <2> TAKE h \in Games
  <2>1. CASE h = g
    BY <1>1, <2>1 DEF Idle
  <2>2. CASE h # g
    BY <1>1, <1>5, <2>2 DEF Idle
  <2> QED BY <2>1, <2>2
<1>7. ASSUME NEW s \in Sessions, handle'[s] = "open" PROVE Waiting(s)'
  <2>1. Waiting(s)
    BY <1>2, <1>7
  <2>2. CASE s \in Named(toGate[g][G], Answers)
    <3>1. s \in Named(Tail(toGate[g][G]), Answers) \/ (m.type \in Answers /\ m.session = s)
      BY <1>1, <1>4, <2>2, TailNames
    <3> HIDE DEF m
    <3> QED BY <1>3, <1>5, <1>7, <3>1 DEF Answers, Waiting
  <2>3. CASE s \notin Named(toGate[g][G], Answers)
    <3>1. \A h \in Games, H \in Gates :
             s \in Named(toGate[h][H], Answers) => s \in Named(toGate'[h][H], Answers)
      BY <1>5, <2>3
    <3> QED BY <1>1, <2>1, <3>1, WaitingSame
  <2> QED BY <2>2, <2>3
<1> QED BY <1>6, <1>7

\* A session is opened or ends, or the login process refuses it.
LEMMA UnfailedSession ==
    ASSUME TypeOK, NEW t \in Sessions,
           \/ \E G \in Gates : LoginVerify(t, G)
           \/ SessionLost(t) \/ SessionShut(t) \/ LoginOut(t) \/ VerifyFailed(t),
           NEW s \in Sessions, handle[s] = "open" => Waiting(s), handle'[s] = "open"
    PROVE  Waiting(s)'
<1>1. UNCHANGED << loading, unasked, toGame, toGate >>
  BY DEF LoginVerify, SessionLost, SessionShut, LoginOut, VerifyFailed, gameVars
<1>2. CASE \E G \in Gates : LoginVerify(t, G)
  <2>1. handle' = [handle EXCEPT ![t] = "open"] /\ verifying' = verifying \cup {t} /\ closing' = closing
    BY <1>2 DEF LoginVerify
  <2>2. CASE s = t
    BY <2>1, <2>2 DEF Waiting
  <2>3. CASE s # t
    BY <1>1, <2>1, <2>3, WaitingSame DEF TypeOK
  <2> QED BY <2>2, <2>3
<1>3. CASE SessionLost(t) \/ SessionShut(t)
  <2>1. handle' = [handle EXCEPT ![t] = "closed"] /\ closing' = closing \ {t} /\ verifying' = verifying
    BY <1>3 DEF SessionLost, SessionShut
  <2>2. s # t /\ handle[s] = "open"
    BY <2>1 DEF TypeOK
  <2> QED BY <1>1, <2>1, <2>2, WaitingSame
<1>4. CASE LoginOut(t)
  <2>1. handle' = handle /\ closing \subseteq closing' /\ verifying' = verifying
    BY <1>4 DEF LoginOut, Close
  <2> QED BY <1>1, <2>1, WaitingSame
<1>5. CASE VerifyFailed(t)
  <2>1. handle' = handle /\ verifying' = verifying \ {t} /\ closing \subseteq closing'
        /\ (handle[t] # "closed" => t \in closing')
    BY <1>5 DEF VerifyFailed, Close
  <2>2. CASE s = t
    BY <2>1, <2>2 DEF Waiting
  <2>3. CASE s # t
    BY <1>1, <2>1, <2>3, WaitingSame
  <2> QED BY <2>2, <2>3
<1> QED BY <1>2, <1>3, <1>4, <1>5

LEMMA FaultsGrow ==
    ASSUME [Next]_vars PROVE faults' = faults \/ faults' = faults + 1
<1>1. CASE UNCHANGED vars
  BY <1>1 DEF vars
<1>2. ASSUME NEW s \in Sessions,
             \/ \E G \in Gates : LoginVerify(s, G)
             \/ SessionLost(s) \/ SessionShut(s) \/ LoginOut(s) \/ VerifyFailed(s)
             \/ HandleLoginWorldVerify(s) \/ \E g \in Games : Loaded(g, s)
      PROVE  faults' = faults
  BY <1>2 DEF LoginVerify, SessionLost, SessionShut, LoginOut, VerifyFailed,
              HandleLoginWorldVerify, Loaded, HandleLoadPlayerAck, HandleLoadPlayerFail
<1>3. ASSUME NEW g \in Games, NEW G \in Gates, GateReceives(g, G) \/ HostReceives(g, G)
      PROVE  faults' = faults
  BY <1>3 DEF GateReceives, HandleKickGatePlayer, HandleLoginGameAck, HandleLoginGameFail,
              HostReceives, HandlePlayerDisconnection, DropLoginOut, ToHostLost
<1>4. ASSUME NEW g \in Games,
             WorldReceives(g) \/ GameReceives(g) \/ OnServerLostGame(g) \/ Connect(g) \/ Start(g)
      PROVE  faults' = faults
  BY <1>4 DEF WorldReceives, HandlePlayerEnterWorld, HandlePlayerLeaveWorld, HandleRegister,
              GameReceives, HandleKickGamePlayer, HandleLoginTellToken, OnClientLostServer,
              OnClientConnectionWorld, OnServerLostGame, Connect, Start
<1>5. ASSUME NEW g \in Games, Break(g) \/ Crash(g)
      PROVE  faults' = faults + 1
  BY <1>5 DEF Break, Crash
<1>6. CASE HttpKick
  BY <1>6 DEF HttpKick
<1> QED BY <1>1, <1>2, <1>3, <1>4, <1>5, <1>6 DEF Next, Verified

LEMMA NextUnfailed == IInv /\ Unfailed /\ [Next]_vars => Unfailed'
<1> SUFFICES ASSUME IInv, Unfailed, [Next]_vars, faults' = 0
             PROVE  Live' /\ Tracked'
  BY DEF Unfailed
<1>1. TypeOK
  BY DEF IInv
<1>2. faults = 0
  BY <1>1, FaultsGrow DEF TypeOK
<1>3. Live /\ Tracked
  BY <1>2 DEF Unfailed
<1>4. Live'
  BY <1>1, <1>2, <1>3, NextLive
<1>5. ASSUME UNCHANGED << handle, closing, verifying, unasked, alive, loading, toGame, toGate >>
      PROVE  Tracked'
  BY <1>3, <1>5, UnfailedSends
<1>6. CASE UNCHANGED vars
  BY <1>4, <1>5, <1>6 DEF vars, gateVars, gameVars
<1>7. ASSUME NEW t \in Sessions,
             \/ \E G \in Gates : LoginVerify(t, G)
             \/ SessionLost(t) \/ SessionShut(t) \/ LoginOut(t) \/ VerifyFailed(t)
      PROVE  Tracked'
  <2>1. UNCHANGED << alive, loading, toGame, toGate >>
    BY <1>7 DEF LoginVerify, SessionLost, SessionShut, LoginOut, VerifyFailed, gameVars
  <2>2. \A g \in Games : Idle(g)'
    BY <1>3, <2>1 DEF Idle, Tracked
  <2>3. ASSUME NEW s \in Sessions, handle'[s] = "open" PROVE Waiting(s)'
    BY <1>1, <1>3, <1>7, <2>3, UnfailedSession DEF Tracked
  <2> QED BY <2>2, <2>3 DEF Tracked
<1>8. ASSUME NEW t \in Sessions, HandleLoginWorldVerify(t) PROVE Tracked'
  BY <1>1, <1>3, <1>8, UnfailedWorldVerify
<1>9. ASSUME NEW t \in Sessions, NEW g \in Games, Loaded(g, t) PROVE Tracked'
  <2>1. /\ t \in loading[g] /\ loading' = [loading EXCEPT ![g] = @ \ {t}]
        /\ \E m \in {Ack(t), Fail(t)} : toGate' = [toGate EXCEPT ![g][gateOf[t]] = Append(@, m)]
        /\ UNCHANGED << handle, closing, verifying, unasked, alive, toGame >>
    BY <1>9 DEF Loaded, HandleLoadPlayerAck, HandleLoadPlayerFail, gateVars
  <2> QED BY <1>3, <2>1, UnfailedLoaded
<1>10. ASSUME NEW g \in Games, NEW G \in Gates, GateReceives(g, G) PROVE Tracked'
  BY <1>1, <1>3, <1>10, UnfailedGate
<1>11. ASSUME NEW g \in Games, NEW G \in Gates, HostReceives(g, G) PROVE Tracked'
  <2>1. UNCHANGED << handle, closing, verifying, unasked, alive, loading, toGame, toGate >>
    BY <1>11 DEF HostReceives, HandlePlayerDisconnection, DropLoginOut, ToHostLost, gateVars, gameVars
  <2> QED BY <1>5, <2>1
<1>12. ASSUME NEW g \in Games, HandlePlayerEnterWorld(g) \/ HandlePlayerLeaveWorld(g)
                               \/ OnServerLostGame(g) \/ Connect(g)
       PROVE  Tracked'
  <2>1. UNCHANGED << handle, closing, verifying, unasked, alive, loading, toGame, toGate >>
    BY <1>12 DEF HandlePlayerEnterWorld, HandlePlayerLeaveWorld, OnServerLostGame, Connect, gateVars,
                 gameVars
  <2> QED BY <1>5, <2>1
<1>13. ASSUME NEW g \in Games, HandleRegister(g) PROVE Tracked'
  BY <1>1, <1>3, <1>13, UnfailedRegister
<1>14. ASSUME NEW g \in Games, GameReceives(g) PROVE Tracked'
  BY <1>1, <1>3, <1>14, UnfailedGame
<1>15. ASSUME NEW g \in Games, Break(g) \/ Crash(g) PROVE FALSE
  BY <1>2, <1>15 DEF Break, Crash
<1>16. ASSUME NEW g \in Games, Start(g) PROVE Tracked'
  <2>1. /\ ~ alive[g] /\ alive' = [alive EXCEPT ![g] = TRUE]
        /\ toGate' = [toGate EXCEPT ![g] = [G \in Gates |-> << >>]]
        /\ UNCHANGED << handle, closing, verifying, unasked, loading, toGame >>
    BY <1>16 DEF Start, gateVars
  <2>2. \A h \in Games, G \in Gates : toGate'[h][G] = toGate[h][G]
    BY <1>1, <1>3, <2>1 DEF TypeOK, Idle, Tracked
  <2>3. \A h \in Games : alive[h] => alive'[h]
    BY <1>1, <2>1 DEF TypeOK
  <2>4. \A h \in Games : Idle(h)'
    BY <1>3, <2>1, <2>2, <2>3 DEF Idle, Tracked
  <2>5. \A s \in Sessions : Waiting(s) => Waiting(s)'
    BY <2>1, <2>2, WaitingSame
  <2> QED BY <1>3, <2>1, <2>4, <2>5 DEF Tracked
<1>17. CASE HttpKick
  BY <1>1, <1>3, <1>4, <1>17, UnfailedHttpKick
<1> QED BY <1>4, <1>6, <1>7, <1>8, <1>9, <1>10, <1>11, <1>12, <1>13, <1>14, <1>15, <1>16, <1>17
        DEF Next, Verified, WorldReceives

\* HandleLoginVerifyReq to HandleLoginGameAck, for any number of players' sessions,
\* gates and games: while no game and no connection fails, every login that was
\* begun has been answered once everything is delivered, whatever other logins,
\* kicks and logouts of the player come between; all but those whose load could
\* not be asked for.
THEOREM LoginsAreAnswered == Spec => []AnsweredAtRest
<1>1. IInv /\ Unfailed => AnsweredAtRest
  <2> SUFFICES ASSUME IInv, Unfailed, Settled, faults = 0, NEW s \in Sessions, handle[s] = "open"
               PROVE  s \in unasked
    BY DEF AnsweredAtRest
  <2>1. Waiting(s)
    BY DEF Unfailed, Tracked
  <2>2. s \notin verifying /\ s \notin closing
    BY DEF Settled
  <2>3. ASSUME NEW g \in Games
        PROVE  /\ s \notin Named(toGame[g], Tokens) /\ s \notin loading[g]
               /\ \A G \in Gates : s \notin Named(toGate[g][G], Answers)
    BY EmptyNames DEF Settled
  <2> QED BY <2>1, <2>2, <2>3 DEF Waiting
<1> QED BY <1>1, InitIInv, NextIInv, InitUnfailed, NextUnfailed, PTL DEF Spec

-----------------------------------------------------------------------------
(* The role and the entity of a login. *)

Kicks == {"kick"}
Acks  == {"ack"}
Closings  == {"disconnect"}

\* A login whose entity has not been created.  Once it has, it never becomes
\* fresh again, so that a session has one entity in its life.
Fresh(s) ==
    \/ handle[s] = "none" \/ s \in verifying
    \/ \E g \in Games : s \in Named(toGame[g], Tokens) \/ s \in loading[g]

Hosts(g, s) == entity[g] # None /\ entity[g].session = s
Place(G, s) == [gate |-> G, session |-> s]
Home(g, s)  == [game |-> g, session |-> s]

Dark == \A g \in Games : ~ alive[g] => entity[g] = None /\ loading[g] = {}

Lone ==
    \A g \in Games, s \in Sessions : Hosts(g, s) =>
        /\ ~ Fresh(s) /\ gateOf[s] = entity[g].gate
        /\ \A h \in Games : Hosts(h, s) => h = g

\* The session of a kick on its way to a gate has no entity any more.
KickedOut ==
    \A g \in Games, G \in Gates, s \in Sessions : s \in Named(toGate[g][G], Kicks) =>
        ~ Fresh(s) /\ \A h \in Games : ~ Hosts(h, s)

\* The session whose end is told to a game is closed and has had its answer.
Ended ==
    \A g \in Games, G \in Gates, s \in Sessions : s \in Named(toHost[g][G], Closings) =>
        /\ ~ Fresh(s) /\ handle[s] = "closed"
        /\ \A h \in Games, H \in Gates : s \notin Named(toGate[h][H], Answers)

\* After an answer to s comes the kick that undoes it.
Undone(q, s) ==
    \A i \in 1 .. Len(q) : q[i].type = "ack" /\ q[i].session = s =>
        \E j \in i + 1 .. Len(q) : q[j].type = "kick" /\ q[j].session = s

\* What holds the role of a login and its entity together, while messages about
\* either are on their way.
Paired(g, G, s) ==
    fate[s] = "none" =>
        /\ role[G] = Home(g, s) => entity[g] = Place(G, s) \/ s \in Named(toGate[g][G], Kicks)
        /\ entity[g] = Place(G, s) => \/ role[G] = Home(g, s)
                                      \/ s \in Named(toGate[g][G], Acks)
                                      \/ s \in Named(toHost[g][G], Closings)
        /\ entity[g] # Place(G, s) => Undone(toGate[g][G], s)

Pairs == \A g \in Games, G \in Gates, s \in Sessions : Paired(g, G, s)

JInv == Dark /\ Lone /\ KickedOut /\ Ended /\ Pairs

-----------------------------------------------------------------------------
(* Queues. *)

LEMMA UndoneTail ==
    ASSUME NEW M, NEW q \in Seq(M), q # << >>, NEW s, Undone(q, s)
    PROVE  /\ Undone(Tail(q), s)
           /\ Head(q).type = "ack" /\ Head(q).session = s => s \in Named(Tail(q), Kicks)
<1> DEFINE r == Tail(q)
<1>1. /\ Head(q) = q[1] /\ Len(q) \in Nat /\ Len(q) > 0 /\ Len(r) = Len(q) - 1
      /\ \A i \in 1 .. Len(r) : r[i] = q[i + 1]
  BY HeadTailProperties, EmptySeq, LenProperties
<1> HIDE DEF r
<1>2. ASSUME NEW i \in 1 .. Len(q), NEW j \in i + 1 .. Len(q)
      PROVE  j - 1 \in i .. Len(r) /\ j - 1 \in 1 .. Len(r) /\ r[j - 1] = q[j]
  BY <1>1
<1>3. ASSUME NEW i \in 1 .. Len(r), r[i].type = "ack", r[i].session = s
      PROVE  \E j \in i + 1 .. Len(r) : r[j].type = "kick" /\ r[j].session = s
  <2>1. i + 1 \in 1 .. Len(q) /\ q[i + 1] = r[i]
    BY <1>1
  <2>2. PICK j \in (i + 1) + 1 .. Len(q) : q[j].type = "kick" /\ q[j].session = s
    BY <1>3, <2>1 DEF Undone
  <2>3. j - 1 \in i + 1 .. Len(r) /\ r[j - 1] = q[j]
    BY <1>2, <2>1, <2>2
  <2> QED BY <2>2, <2>3
<1>4. ASSUME Head(q).type = "ack", Head(q).session = s
      PROVE  s \in Named(r, Kicks)
  <2>1. PICK j \in 1 + 1 .. Len(q) : q[j].type = "kick" /\ q[j].session = s
    BY <1>1, <1>4 DEF Undone
  <2>2. j - 1 \in 1 .. Len(r) /\ r[j - 1] = q[j]
    BY <1>1, <1>2, <2>1
  <2> QED BY <2>1, <2>2 DEF Named, Kinds, Kicks
<1>5. Undone(r, s)
  BY <1>3 DEF Undone
<1> QED BY <1>4, <1>5 DEF r

LEMMA UndoneAppend ==
    ASSUME NEW M, NEW q \in Seq(M), NEW m \in M, NEW s
    PROVE  /\ Undone(q, s) /\ (m.type = "ack" => m.session # s) => Undone(Append(q, m), s)
           /\ m.type = "kick" /\ m.session = s => Undone(Append(q, m), s)
<1> DEFINE r == Append(q, m)
<1>1. /\ Len(r) = Len(q) + 1 /\ Len(q) \in Nat
      /\ \A i \in 1 .. Len(q) : r[i] = q[i]
      /\ r[Len(q) + 1] = m
  BY AppendProperties, LenProperties
<1> HIDE DEF r
<1>2. ASSUME Undone(q, s), m.type = "ack" => m.session # s,
             NEW i \in 1 .. Len(r), r[i].type = "ack", r[i].session = s
      PROVE  \E j \in i + 1 .. Len(r) : r[j].type = "kick" /\ r[j].session = s
  <2>1. i \in 1 .. Len(q) /\ q[i] = r[i]
    BY <1>1, <1>2
  <2>2. PICK j \in i + 1 .. Len(q) : q[j].type = "kick" /\ q[j].session = s
    BY <1>2, <2>1 DEF Undone
  <2>3. j \in i + 1 .. Len(r) /\ r[j] = q[j]
    BY <1>1, <2>1, <2>2
  <2> QED BY <2>2, <2>3
<1>3. ASSUME m.type = "kick", m.session = s,
             NEW i \in 1 .. Len(r), r[i].type = "ack", r[i].session = s
      PROVE  \E j \in i + 1 .. Len(r) : r[j].type = "kick" /\ r[j].session = s
  <2>1. Len(r) \in i + 1 .. Len(r) /\ r[Len(r)] = m
    BY <1>1, <1>3
  <2> QED BY <1>3, <2>1
<1> QED BY <1>2, <1>3 DEF Undone, r

LEMMA UndoneNone ==
    ASSUME NEW q, NEW s, s \notin Named(q, Acks)
    PROVE  Undone(q, s)
BY DEF Undone, Named, Kinds, Acks

\* A message at the end names its own session at most.
LEMMA AppendNamesOnly ==
    ASSUME NEW M, NEW q \in Seq(M), NEW m \in M, NEW K, NEW s \in Named(Append(q, m), K)
    PROVE  s \in Named(q, K) \/ (m.type \in K /\ m.session = s)
<1> DEFINE r == Append(q, m)
<1>1. /\ Len(r) = Len(q) + 1 /\ Len(q) \in Nat
      /\ \A i \in 1 .. Len(q) : r[i] = q[i]
      /\ r[Len(q) + 1] = m
  BY AppendProperties, LenProperties
<1> HIDE DEF r
<1>2. PICK i \in Kinds(r, K) : r[i].session = s
  BY DEF Named, r
<1>3. i \in 1 .. Len(q) + 1 /\ r[i].type \in K
  BY <1>1 DEF Kinds
<1>4. CASE i = Len(q) + 1
  BY <1>1, <1>2, <1>3, <1>4
<1>5. CASE i # Len(q) + 1
  <2>1. i \in 1 .. Len(q) /\ q[i] = r[i]
    BY <1>1, <1>3, <1>5
  <2>2. i \in Kinds(q, K)
    BY <1>3, <2>1 DEF Kinds
  <2> QED BY <1>2, <2>1, <2>2 DEF Named
<1> QED BY <1>4, <1>5

LEMMA AcksAreAnswers ==
    ASSUME NEW q PROVE Named(q, Acks) \subseteq Named(q, Answers)
BY DEF Named, Kinds, Acks, Answers

-----------------------------------------------------------------------------
(* What keeps each part of the invariant. *)

\* No login becomes fresh, and no session that has begun changes its gate.
Ages == \A s \in Sessions : /\ Fresh(s)' => Fresh(s)
                            /\ ~ Fresh(s) => gateOf'[s] = gateOf[s]
                            /\ handle[s] = "closed" => handle'[s] = "closed"

\* No entity comes.
Shrinks == \A g \in Games : entity'[g] = entity[g] \/ entity'[g] = None

LEMMA LoneKept ==
    ASSUME Ages, Shrinks, Lone PROVE Lone'
<1>1. ASSUME NEW g \in Games, NEW s \in Sessions, Hosts(g, s)' PROVE Hosts(g, s) /\ entity'[g] = entity[g]
  BY <1>1 DEF Hosts, Shrinks
<1>2. ASSUME NEW g \in Games, NEW s \in Sessions, Hosts(g, s)'
      PROVE  /\ ~ Fresh(s)' /\ gateOf'[s] = entity'[g].gate
             /\ \A h \in Games : Hosts(h, s)' => h = g
  <2>1. Hosts(g, s) /\ entity'[g] = entity[g]
    BY <1>1, <1>2
  <2>2. ~ Fresh(s) /\ gateOf[s] = entity[g].gate /\ \A h \in Games : Hosts(h, s) => h = g
    BY <2>1 DEF Lone
  <2> QED BY <1>1, <2>1, <2>2 DEF Ages
<1> QED BY <1>2 DEF Lone

LEMMA KickedOutKept ==
    ASSUME Ages, Shrinks, KickedOut,
           \A g \in Games, G \in Gates :
              Named(toGate'[g][G], Kicks) \subseteq Named(toGate[g][G], Kicks)
    PROVE  KickedOut'
<1>1. ASSUME NEW g \in Games, NEW s \in Sessions, Hosts(g, s)' PROVE Hosts(g, s)
  BY <1>1 DEF Hosts, Shrinks
<1>2. ASSUME NEW g \in Games, NEW G \in Gates, NEW s \in Sessions, s \in Named(toGate'[g][G], Kicks)
      PROVE  ~ Fresh(s)' /\ \A h \in Games : ~ Hosts(h, s)'
  <2>1. s \in Named(toGate[g][G], Kicks)
    BY <1>2
  <2>2. ~ Fresh(s) /\ \A h \in Games : ~ Hosts(h, s)
    BY <2>1 DEF KickedOut
  <2> QED BY <1>1, <2>2 DEF Ages
<1> QED BY <1>2 DEF KickedOut

LEMMA EndedKept ==
    ASSUME Ages, Ended,
           \A g \in Games, G \in Gates :
              /\ Named(toHost'[g][G], Closings) \subseteq Named(toHost[g][G], Closings)
              /\ \A s \in Sessions : s \in Named(toGate'[g][G], Answers) =>
                    s \in Named(toGate[g][G], Answers) \/ Fresh(s)
    PROVE  Ended'
<1>1. ASSUME NEW g \in Games, NEW G \in Gates, NEW s \in Sessions, s \in Named(toHost'[g][G], Closings)
      PROVE  /\ ~ Fresh(s)' /\ handle'[s] = "closed"
             /\ \A h \in Games, H \in Gates : s \notin Named(toGate'[h][H], Answers)
  <2>1. s \in Named(toHost[g][G], Closings)
    BY <1>1
  <2>2. /\ ~ Fresh(s) /\ handle[s] = "closed"
        /\ \A h \in Games, H \in Gates : s \notin Named(toGate[h][H], Answers)
    BY <2>1 DEF Ended
  <2> QED BY <2>2 DEF Ages
<1> QED BY <1>1 DEF Ended

\* Nothing a pair depends on changes.
LEMMA PairKept ==
    ASSUME NEW g \in Games, NEW G \in Gates, NEW s \in Sessions, Paired(g, G, s),
           fate'[s] = "none" => fate[s] = "none",
           role'[G] = role[G], entity'[g] = entity[g],
           toGate'[g][G] = toGate[g][G], toHost'[g][G] = toHost[g][G]
    PROVE  Paired(g, G, s)'
BY DEF Paired

LEMMA InitJInv == Init => JInv
<1> SUFFICES ASSUME Init PROVE JInv
  OBVIOUS
<1> USE DEF Init
<1>1. Dark
  BY DEF Dark
<1>2. Lone
  BY DEF Lone, Hosts
<1>3. KickedOut /\ Ended
  BY EmptyNames DEF KickedOut, Ended
<1>4. ASSUME NEW g \in Games, NEW G \in Gates, NEW s \in Sessions PROVE Paired(g, G, s)
  <2>1. role[G] = None /\ entity[g] = None /\ toGate[g][G] = << >>
    OBVIOUS
  <2>2. None # Home(g, s) /\ None # Place(G, s)
    BY LoginAssumption DEF Homes, Places, Home, Place
  <2>3. Undone(<< >>, s)
    BY EmptyNames, UndoneNone
  <2> QED BY <2>1, <2>2, <2>3 DEF Paired
<1> QED BY <1>1, <1>2, <1>3, <1>4 DEF JInv, Pairs

-----------------------------------------------------------------------------
(* Steps that leave the roles, the entities and what is said of them alone. *)

LEMMA AsideStep ==
    ASSUME JInv, Ages, UNCHANGED << role, entity, toGate, toHost, fate, alive, loading >>
    PROVE  JInv'
<1> USE DEF JInv
<1>1. Dark'
  BY DEF Dark
<1>2. Lone'
  BY LoneKept DEF Shrinks
<1>3. KickedOut'
  BY KickedOutKept DEF Shrinks
<1>4. Ended'
  BY EndedKept
<1>5. Pairs'
  BY PairKept DEF Pairs
<1> QED BY <1>1, <1>2, <1>3, <1>4, <1>5

\* The fresh logins stay the same or lose some.
LEMMA AgesWhen ==
    ASSUME TypeOK,
           \A s \in Sessions :
              /\ handle'[s] = "none" => handle[s] = "none"
              /\ handle[s] # "none" => gateOf'[s] = gateOf[s]
              /\ handle[s] = "closed" => handle'[s] = "closed"
              /\ s \in verifying' => Fresh(s)
              /\ \A g \in Games : /\ s \in Named(toGame'[g], Tokens) => Fresh(s)
                                  /\ s \in loading'[g] => Fresh(s)
    PROVE  Ages
<1>1. ASSUME NEW s \in Sessions, Fresh(s)' PROVE Fresh(s)
  BY <1>1 DEF Fresh
<1>2. ASSUME NEW s \in Sessions, ~ Fresh(s) PROVE handle[s] # "none"
  BY <1>2 DEF Fresh
<1> QED BY <1>1, <1>2 DEF Ages

LEMMA LoginVerifyPairs ==
    ASSUME TypeOK, JInv, NEW t \in Sessions, NEW G \in Gates, LoginVerify(t, G) PROVE JInv'
<1>1. /\ handle[t] = "none" /\ handle' = [handle EXCEPT ![t] = "open"]
      /\ gateOf' = [gateOf EXCEPT ![t] = G] /\ verifying' = verifying \cup {t}
      /\ UNCHANGED << toGame, loading >>
      /\ UNCHANGED << role, entity, toGate, toHost, fate, alive, loading >>
  BY DEF LoginVerify, gameVars
<1>2. ASSUME NEW s \in Sessions
      PROVE  /\ handle'[s] = "none" => handle[s] = "none"
             /\ handle[s] # "none" => gateOf'[s] = gateOf[s]
             /\ handle[s] = "closed" => handle'[s] = "closed"
             /\ s \in verifying' => Fresh(s)
  BY <1>1 DEF TypeOK, Fresh
<1>3. ASSUME NEW s \in Sessions, NEW g \in Games
      PROVE  (s \in Named(toGame'[g], Tokens) => Fresh(s)) /\ (s \in loading'[g] => Fresh(s))
  BY <1>1 DEF Fresh
<1>4. Ages
  BY <1>2, <1>3, AgesWhen
<1> QED BY <1>1, <1>4, AsideStep

LEMMA QuietPairs ==
    ASSUME TypeOK, JInv,
           UNCHANGED << role, entity, toGate, toHost, fate, alive, loading, gateOf >>,
           verifying' \subseteq verifying,
           \A s \in Sessions : /\ handle'[s] = "none" => handle[s] = "none"
                               /\ handle[s] = "closed" => handle'[s] = "closed",
           \A s \in Sessions, g \in Games : s \in Named(toGame'[g], Tokens) => Fresh(s)
    PROVE  JInv'
<1>1. \A s \in Sessions : s \in verifying' => Fresh(s)
  BY DEF Fresh
<1>2. \A s \in Sessions, g \in Games : s \in loading'[g] => Fresh(s)
  BY DEF Fresh
<1>3. Ages
  BY <1>1, <1>2, AgesWhen
<1> QED BY <1>3, AsideStep

LEMMA SessionShutPairs ==
    ASSUME TypeOK, JInv, Opened, NEW t \in Sessions, SessionShut(t) PROVE JInv'
<1>1. /\ t \in closing /\ handle' = [handle EXCEPT ![t] = "closed"]
      /\ UNCHANGED << role, entity, toGate, toHost, fate, alive, loading, gateOf >>
      /\ verifying' = verifying /\ toGame' = toGame
  BY DEF SessionShut, gameVars
<1>2. ASSUME NEW s \in Sessions
      PROVE  /\ handle'[s] = "none" => handle[s] = "none"
             /\ handle[s] = "closed" => handle'[s] = "closed"
  BY <1>1 DEF TypeOK
<1>3. ASSUME NEW s \in Sessions, NEW g \in Games, s \in Named(toGame'[g], Tokens) PROVE Fresh(s)
  BY <1>1, <1>3 DEF Fresh
<1> QED BY <1>1, <1>2, <1>3, QuietPairs

LEMMA VerifiedPairs ==
    ASSUME TypeOK, JInv, NEW t \in Sessions, Verified(t) PROVE JInv'
<1> DEFINE kicked == IF CanKick THEN SendToGame(toGame, online, Kick) ELSE toGame
<1>1. /\ t \in verifying /\ verifying' \subseteq verifying /\ handle' = handle
      /\ UNCHANGED << role, entity, toGate, toHost, fate, alive, loading, gateOf >>
      /\ \/ toGame' = toGame \/ toGame' = kicked
         \/ ring # {} /\ toGame' = SendToGame(kicked, GameFor[ring], Token(t))
  BY DEF Verified, VerifyFailed, HandleLoginWorldVerify, gameVars, worldVars
<1>2. toGame \in [Games -> Seq(Messages)]
  BY DEF TypeOK
<1>3. /\ kicked \in [Games -> Seq(Messages)]
      /\ \A g \in Games : Named(kicked[g], Tokens) = Named(toGame[g], Tokens)
  <2>1. CASE CanKick
    <3>1. kicked = SendToGame(toGame, online, Kick)
      BY <2>1
    <3> HIDE DEF kicked
    <3> QED BY <2>1, <3>1, KickSent
  <2>2. CASE ~CanKick
    BY <1>2, <2>2
  <2> QED BY <2>1, <2>2
<1> HIDE DEF kicked
<1>4. ASSUME NEW s \in Sessions, NEW g \in Games, s \in Named(toGame'[g], Tokens) PROVE Fresh(s)
  <2>1. Token(t) \in Messages /\ Token(t).session = t /\ Token(t).type \in Tokens
    BY DEF Token, Messages, Tokens
  <2>2. s = t \/ s \in Named(toGame[g], Tokens)
    <3>1. CASE toGame'[g] \in {toGame[g], kicked[g]}
      BY <3>1, <1>3, <1>4
    <3>2. CASE toGame'[g] = Append(kicked[g], Token(t))
      <4>1. kicked[g] \in Seq(Messages)
        BY <1>3
      <4>2. s \in Named(kicked[g], Tokens) \/ s = Token(t).session
        BY <1>4, <2>1, <3>2, <4>1, AppendNamesOnly
      <4> QED BY <4>2, <2>1, <1>3
    <3>3. toGame'[g] \in {toGame[g], kicked[g], Append(kicked[g], Token(t))}
      BY <1>1, <1>3 DEF SendToGame
    <3> QED BY <3>1, <3>2, <3>3
  <2> QED BY <2>2, <1>1 DEF Fresh
<1>5. \A s \in Sessions : /\ handle'[s] = "none" => handle[s] = "none"
                          /\ handle[s] = "closed" => handle'[s] = "closed"
  BY <1>1
<1> QED BY <1>1, <1>4, <1>5, QuietPairs

LEMMA WorldPairs ==
    ASSUME TypeOK, JInv, UNCHANGED gateVars,
           UNCHANGED << entity, toGate, toHost, fate, alive, loading, verifying >>,
           \A g \in Games : Named(toGame'[g], Tokens) \subseteq Named(toGame[g], Tokens)
    PROVE  JInv'
<1>1. \A s \in Sessions, g \in Games : s \in Named(toGame'[g], Tokens) => Fresh(s)
  BY DEF Fresh
<1> QED BY <1>1, QuietPairs DEF gateVars

LEMMA WorldSteps ==
    ASSUME TypeOK, JInv,
           \/ HttpKick
           \/ \E g \in Games : WorldReceives(g) \/ OnServerLostGame(g) \/ Break(g) \/ Connect(g)
    PROVE  JInv'
<1>1. CASE HttpKick
  <2>1. /\ UNCHANGED gateVars /\ CanKick /\ toGame' = SendToGame(toGame, online, Kick)
        /\ UNCHANGED << entity, toGate, toHost, fate, alive, loading, verifying >>
    BY <1>1 DEF HttpKick, gameVars
  <2>2. \A g \in Games : Named(toGame'[g], Tokens) \subseteq Named(toGame[g], Tokens)
    BY <2>1, KickSent
  <2> QED BY <2>1, <2>2, WorldPairs
<1>2. ASSUME NEW g \in Games, HandlePlayerEnterWorld(g) \/ HandlePlayerLeaveWorld(g) PROVE JInv'
  <2>1. /\ UNCHANGED gateVars /\ toGame' = toGame
        /\ UNCHANGED << entity, toGate, toHost, fate, alive, loading, verifying >>
    BY <1>2 DEF HandlePlayerEnterWorld, HandlePlayerLeaveWorld, gameVars
  <2> QED BY <2>1, WorldPairs
<1>3. ASSUME NEW g \in Games, HandleRegister(g) PROVE JInv'
  <2>1. /\ UNCHANGED gateVars /\ (toGame' = toGame \/ toGame' = SendToGame(toGame, g, Welcome))
        /\ UNCHANGED << entity, toGate, toHost, fate, alive, loading, verifying >>
    BY <1>3 DEF HandleRegister, gameVars
  <2>2. \A h \in Games : Named(toGame'[h], Tokens) \subseteq Named(toGame[h], Tokens)
    <3>1. CASE toGame' = toGame
      BY <3>1
    <3>2. CASE toGame' = SendToGame(toGame, g, Welcome)
      <4>1. toGame \in [Games -> Seq(Messages)]
        BY DEF TypeOK
      <4> QED BY <3>2, <4>1, KickMessage, SendToGameTypes
    <3> QED BY <2>1, <3>1, <3>2
  <2> QED BY <2>1, <2>2, WorldPairs
<1>4. ASSUME NEW g \in Games, OnServerLostGame(g) PROVE JInv'
  <2>1. /\ UNCHANGED gateVars /\ toGame' = toGame
        /\ UNCHANGED << entity, toGate, toHost, fate, alive, loading, verifying >>
    BY <1>4 DEF OnServerLostGame, gameVars
  <2> QED BY <2>1, WorldPairs
<1>5. ASSUME NEW g \in Games, Break(g) PROVE JInv'
  <2>1. /\ UNCHANGED gateVars
        /\ \E got \in 0 .. Len(toGame[g]) : \E seen \in 0 .. got :
              toGame' = [toGame EXCEPT ![g] =
                            Append(SubSeq(@, 1, seen), Down) \o SubSeq(@, seen + 1, got)]
        /\ UNCHANGED << entity, toGate, toHost, fate, alive, loading, verifying >>
    BY <1>5 DEF Break
  <2>2. PICK got \in 0 .. Len(toGame[g]) : \E seen \in 0 .. got :
           toGame' = [toGame EXCEPT ![g] =
                         Append(SubSeq(@, 1, seen), Down) \o SubSeq(@, seen + 1, got)]
    BY <2>1
  <2>3. PICK seen \in 0 .. got :
           toGame' = [toGame EXCEPT ![g] =
                         Append(SubSeq(@, 1, seen), Down) \o SubSeq(@, seen + 1, got)]
    BY <2>2
  <2> DEFINE r == Append(SubSeq(toGame[g], 1, seen), Down) \o SubSeq(toGame[g], seen + 1, got)
  <2>4. toGame \in [Games -> Seq(Messages)] /\ toGame' = [toGame EXCEPT ![g] = r]
    BY <2>3 DEF TypeOK
  <2>5. Named(r, Tokens) \subseteq Named(toGame[g], Tokens)
    <3>1. toGame[g] \in Seq(Messages)
      BY <2>4
    <3>2. "down" \notin Tokens
      BY DEF Tokens
    <3> QED BY <3>1, <3>2, CutDownNames
  <2> HIDE DEF r
  <2>6. \A h \in Games : Named(toGame'[h], Tokens) \subseteq Named(toGame[h], Tokens)
    BY <2>4, <2>5
  <2> QED BY <2>1, <2>6, WorldPairs
<1>6. ASSUME NEW g \in Games, Connect(g) PROVE JInv'
  <2>1. /\ UNCHANGED gateVars /\ toGame' = toGame
        /\ UNCHANGED << entity, toGate, toHost, fate, alive, loading, verifying >>
    BY <1>6 DEF Connect, gameVars
  <2> QED BY <2>1, WorldPairs
<1> QED BY <1>1, <1>2, <1>3, <1>4, <1>5, <1>6 DEF WorldReceives

-----------------------------------------------------------------------------
(* Where a login is, and what its fate says. *)

\* A session that is bound has had its answer, and one that is being answered
\* is answered by one game, at its own gate, and is not bound.
LEMMA StagedFacts ==
    ASSUME Staged, NEW s \in Sessions
    PROVE  /\ handle[s] = "bound" =>
                 /\ ~ Fresh(s)
                 /\ \A h \in Games, H \in Gates : s \notin Named(toGate[h][H], Answers)
           /\ \A g \in Games, G \in Gates : s \in Named(toGate[g][G], Answers) =>
                 /\ gateOf[s] = G
                 /\ handle[s] \in {"open", "closed"}
                 /\ ~ Fresh(s)
                 /\ \A h \in Games, H \in Gates : s \in Named(toGate[h][H], Answers) => h = g /\ H = G
<1>1. PICK stage, host : Follows(stage, host)
  BY DEF Staged
<1>2. handle[s] = "bound" => stage[s] = "none"
  BY <1>1 DEF Follows
<1>3. stage[s] \in {"none", "answer"} => ~ Fresh(s) \/ handle[s] = "none"
  BY <1>1 DEF Follows, Fresh
<1>4. \A g \in Games, G \in Gates : s \in Named(toGate[g][G], Answers) =>
          stage[s] = "answer" /\ host[s] = g /\ gateOf[s] = G
  BY <1>1 DEF Follows
<1>5. stage[s] = "answer" => handle[s] \in {"open", "closed"}
  BY <1>1 DEF Follows
<1> QED BY <1>2, <1>3, <1>4, <1>5

LEMMA MarkedFates ==
    ASSUME NEW f \in [Sessions -> Fates], NEW t \in Sessions, NEW what, what # "none", NEW s \in Sessions,
           Mark(f, t, what)[s] = "none"
    PROVE  f[s] = "none" /\ s # t
BY DEF Mark

-----------------------------------------------------------------------------
(* The steps of the gate. *)

\* What a message to a game changes.
LEMMA HostSentElsewhere ==
    ASSUME TypeOK, NEW g \in Games, NEW G \in Gates, NEW m, SendToHost(g, G, m),
           NEW h \in Games, NEW H \in Gates, h # g \/ H # G
    PROVE  toHost'[h][H] = toHost[h][H]
BY DEF SendToHost, TypeOK

LEMMA HostSent ==
    ASSUME TypeOK, NEW g \in Games, NEW G \in Gates, NEW m \in Messages, SendToHost(g, G, m),
           NEW h \in Games, NEW H \in Gates, NEW s
    PROVE  /\ h # g \/ H # G => toHost'[h][H] = toHost[h][H]
           /\ s \in Named(toHost[h][H], Closings) => s \in Named(toHost'[h][H], Closings)
           /\ s \in Named(toHost'[h][H], Closings) =>
                 s \in Named(toHost[h][H], Closings) \/ (m.type \in Closings /\ m.session = s)
           /\ m.type \in Closings => m.session \in Named(toHost'[g][G], Closings)
<1>1. toHost \in [Games -> [Gates -> Seq(Messages)]] /\ toHost[h][H] \in Seq(Messages) /\ toHost[g][G] \in Seq(Messages)
  BY DEF TypeOK
<1> DEFINE r == Append(toHost[g][G], m)
<1>2. toHost' = [toHost EXCEPT ![g][G] = r]
  BY DEF SendToHost
<1>3. /\ Named(toHost[g][G], Closings) \subseteq Named(r, Closings)
      /\ m.type \in Closings => m.session \in Named(r, Closings)
  BY <1>1, AppendNames
<1>4. s \in Named(r, Closings) => s \in Named(toHost[g][G], Closings) \/ (m.type \in Closings /\ m.session = s)
  BY <1>1, AppendNamesOnly
<1> HIDE DEF r
<1>5. toHost'[g][G] = r /\ (h # g \/ H # G => toHost'[h][H] = toHost[h][H])
  BY <1>1, <1>2
<1>6. CASE h = g /\ H = G
  BY <1>3, <1>4, <1>5, <1>6
<1>7. CASE h # g \/ H # G
  BY <1>3, <1>5, <1>7
<1> QED BY <1>6, <1>7

\* A gate drops a role, and tells the game or not.
LEMMA PairParts ==
    ASSUME NEW g \in Games, NEW G \in Gates, NEW s \in Sessions, Paired(g, G, s),
           fate'[s] = "none" => fate[s] = "none",
           role'[G] = None, entity'[g] = entity[g], toGate'[g][G] = toGate[g][G],
           s \in Named(toHost[g][G], Closings) => s \in Named(toHost'[g][G], Closings),
           fate'[s] = "none" /\ role[G] = Home(g, s) /\ entity[g] = Place(G, s) =>
              s \in Named(toHost'[g][G], Closings)
    PROVE  Paired(g, G, s)'
<1>1. None # Home(g, s)
  BY LoginAssumption DEF Homes, Home
<1> QED BY <1>1 DEF Paired

LEMMA SessionLostPairs ==
    ASSUME IInv, JInv, NEW t \in Sessions, SessionLost(t) PROVE JInv'
<1> DEFINE G == gateOf[t]
           m == [type |-> "disconnect", session |-> t]
<1> USE DEF JInv
<1>1. /\ handle[t] \in {"open", "bound"} /\ handle' = [handle EXCEPT ![t] = "closed"]
      /\ UNCHANGED << gateOf, verifying, alive, loading, entity, toGame, toGate >>
      /\ OnPlayerDisconnection(t)
  BY DEF SessionLost, gameVars
<1>2. TypeOK /\ Staged /\ G \in Gates
  BY <1>1 DEF IInv, Opened
<1>3. Ages
  <2>1. ASSUME NEW s \in Sessions
        PROVE  /\ handle'[s] = "none" => handle[s] = "none"
               /\ handle[s] = "closed" => handle'[s] = "closed"
    BY <1>1, <1>2 DEF TypeOK
  <2>2. ASSUME NEW s \in Sessions, Fresh(s)' PROVE Fresh(s)
    BY <1>1, <2>1, <2>2 DEF Fresh
  <2> QED BY <1>1, <2>1, <2>2 DEF Ages
<1>4. CASE ~ (handle[t] = "bound" /\ role[G] # None)
  <2>1. UNCHANGED << role, toHost, fate >>
    BY <1>1, <1>4 DEF OnPlayerDisconnection
  <2> QED BY <1>1, <1>3, <2>1, AsideStep
<1>5. CASE handle[t] = "bound" /\ role[G] # None
  <2>1. /\ SendToHost(role[G].game, G, m)
        /\ role' = [role EXCEPT ![G] = None]
        /\ fate' = IF role[G].session = t THEN fate ELSE Mark(fate, role[G].session, "evicted")
    BY <1>1, <1>5 DEF OnPlayerDisconnection
  <2>2. role[G].game \in Games /\ role[G].session \in Sessions /\ fate \in [Sessions -> Fates]
    BY <1>2, <1>5 DEF TypeOK, Homes, Fates
  <2>3. m \in Messages /\ m.type \in Closings /\ m.session = t
    BY DEF Messages, Closings
  <2> HIDE DEF m, G
  <2>4. ~ Fresh(t) /\ \A h \in Games, H \in Gates : t \notin Named(toGate[h][H], Answers)
    BY <1>2, <1>5, StagedFacts
  <2>5. Dark' /\ Lone' /\ KickedOut'
    <3>1. Shrinks
      BY <1>1 DEF Shrinks
    <3> QED BY <1>1, <1>3, <3>1, LoneKept, KickedOutKept DEF Dark
  <2>6. Ended'
    <3> SUFFICES ASSUME NEW g \in Games, NEW H \in Gates, NEW s \in Sessions,
                        s \in Named(toHost'[g][H], Closings)
                 PROVE  /\ ~ Fresh(s)' /\ handle'[s] = "closed"
                        /\ \A h \in Games, K \in Gates : s \notin Named(toGate'[h][K], Answers)
      BY DEF Ended
    <3>1. s \in Named(toHost[g][H], Closings) \/ s = t
      <4>1. PICK c \in Games : c = role[G].game
        BY <2>2
      <4>2. SendToHost(c, G, m)
        BY <2>1, <4>1
      <4>3. m \in Messages /\ G \in Gates /\ TypeOK
        BY <1>2, <2>3
      <4>4. s \in Named(toHost[g][H], Closings) \/ (m.type \in Closings /\ m.session = s)
        BY <4>2, <4>3, HostSent
      <4> QED BY <4>4, <2>3
    <3>2. CASE s = t
      <4>1. handle'[t] = "closed" /\ ~ Fresh(t)'
        BY <1>1, <1>2, <1>3, <2>4 DEF TypeOK, Ages
      <4> QED BY <1>1, <2>4, <3>2, <4>1
    <3>3. CASE s \in Named(toHost[g][H], Closings)
      <4>1. /\ ~ Fresh(s) /\ handle[s] = "closed"
            /\ \A h \in Games, K \in Gates : s \notin Named(toGate[h][K], Answers)
        BY <3>3 DEF Ended
      <4> QED BY <1>1, <1>3, <4>1 DEF Ages
    <3> QED BY <3>1, <3>2, <3>3
  <2>7. ASSUME NEW g \in Games, NEW H \in Gates, NEW s \in Sessions PROVE Paired(g, H, s)'
    <3>1. Paired(g, H, s)
      BY DEF Pairs
    <3>2. fate'[s] = "none" => fate[s] = "none" /\ (s = role[G].session => s = t)
      BY <2>1, <2>2, MarkedFates
    <3>3. CASE H # G
      <4>1. role'[H] = role[H]
        BY <1>2, <2>1, <3>3 DEF TypeOK
      <4>2. toHost'[g][H] = toHost[g][H]
        BY <1>2, <2>1, <2>2, <2>3, <3>3, HostSentElsewhere
      <4> QED BY <1>1, <3>1, <3>2, <4>1, <4>2, PairKept
    <3>4. CASE H = G
      <4>1. role'[G] = None
        BY <1>2, <2>1 DEF TypeOK
      <4>2. s \in Named(toHost[g][G], Closings) => s \in Named(toHost'[g][G], Closings)
        BY <1>2, <2>1, <2>2, <2>3, HostSent
      <4>3. ASSUME fate'[s] = "none", role[G] = Home(g, s), entity[g] = Place(G, s)
            PROVE  s \in Named(toHost'[g][G], Closings)
        <5>1. role[G].session = s /\ role[G].game = g
          BY <4>3 DEF Home
        <5>2. s = t
          BY <3>2, <4>3, <5>1
        <5> QED BY <1>2, <2>1, <2>2, <2>3, <5>1, <5>2, HostSent
      <4> QED BY <1>1, <1>2, <3>1, <3>2, <3>4, <4>1, <4>2, <4>3, PairParts
    <3> QED BY <3>3, <3>4
  <2> QED BY <2>5, <2>6, <2>7 DEF Pairs
<1> QED BY <1>4, <1>5

LEMMA LoginOutPairs ==
    ASSUME IInv, JInv, NEW t \in Sessions, LoginOut(t) PROVE JInv'
<1> DEFINE G == gateOf[t]
           m == [type |-> "logout", session |-> t]
<1> USE DEF JInv
<1>1. /\ handle[t] = "bound" /\ role[G] # None
      /\ SendToHost(role[G].game, G, m)
      /\ role' = [role EXCEPT ![G] = None]
      /\ fate' = Mark(fate, role[G].session, "logout")
      /\ UNCHANGED << handle, gateOf, verifying, alive, loading, entity, toGame, toGate >>
  BY DEF LoginOut, gameVars
<1>2. TypeOK /\ G \in Gates
  BY <1>1 DEF IInv, Opened
<1>3. role[G].game \in Games /\ role[G].session \in Sessions /\ fate \in [Sessions -> Fates]
  BY <1>1, <1>2 DEF TypeOK, Homes, Fates
<1>4. m \in Messages /\ m.type \notin Closings
  BY DEF Messages, Closings
<1> HIDE DEF m, G
<1>5. Ages
  BY <1>1 DEF Ages, Fresh
<1>6. Shrinks
  BY <1>1 DEF Shrinks
<1>7. Dark' /\ Lone' /\ KickedOut'
  BY <1>1, <1>5, <1>6, LoneKept, KickedOutKept DEF Dark
<1>8. Ended'
  <2>1. \A g \in Games, H \in Gates : Named(toHost'[g][H], Closings) \subseteq Named(toHost[g][H], Closings)
    BY <1>1, <1>2, <1>3, <1>4, HostSent
  <2> QED BY <1>1, <1>5, <2>1, EndedKept
<1>9. ASSUME NEW g \in Games, NEW H \in Gates, NEW s \in Sessions PROVE Paired(g, H, s)'
  <2>1. Paired(g, H, s)
    BY DEF Pairs
  <2>2. fate'[s] = "none" => fate[s] = "none" /\ s # role[G].session
    BY <1>1, <1>3, MarkedFates
  <2>3. CASE H # G
    <3>1. role'[H] = role[H]
      BY <1>1, <1>2, <2>3 DEF TypeOK
    <3>2. toHost'[g][H] = toHost[g][H]
      BY <1>1, <1>2, <1>3, <2>3, HostSentElsewhere
    <3> QED BY <1>1, <2>1, <2>2, <3>1, <3>2, PairKept
  <2>4. CASE H = G
    <3>1. role'[G] = None
      BY <1>1, <1>2 DEF TypeOK
    <3>2. s \in Named(toHost[g][G], Closings) => s \in Named(toHost'[g][G], Closings)
      BY <1>1, <1>2, <1>3, <1>4, HostSent
    <3>3. fate'[s] = "none" => role[G] # Home(g, s)
      BY <2>2 DEF Home
    <3> QED BY <1>1, <1>2, <2>1, <2>2, <2>4, <3>1, <3>2, <3>3, PairParts
  <2> QED BY <2>3, <2>4
<1> QED BY <1>7, <1>8, <1>9 DEF Pairs

\* What the gate takes from a game, and what is left.
LEMMA TakenFrom ==
    ASSUME TypeOK, NEW g \in Games, NEW G \in Gates, NEW type, Incoming(g, G, type), Received(g, G)
    PROVE  /\ toGate[g][G] \in Seq(Messages) /\ toGate[g][G] # << >>
           /\ Head(toGate[g][G]) \in Messages /\ Head(toGate[g][G]).type = type
           /\ toGate'[g][G] = Tail(toGate[g][G])
           /\ \A h \in Games, H \in Gates : h # g \/ H # G => toGate'[h][H] = toGate[h][H]
<1>1. toGate[g][G] \in Seq(Messages) /\ toGate[g][G] # << >>
  BY DEF TypeOK, Incoming
<1>2. Head(toGate[g][G]) \in Messages /\ Head(toGate[g][G]).type = type
  BY <1>1, TailFewer DEF Incoming
<1> QED BY <1>1, <1>2 DEF TypeOK, Received

LEMMA TakenNames ==
    ASSUME TypeOK, NEW g \in Games, NEW G \in Gates, NEW type, Incoming(g, G, type), Received(g, G),
           NEW h \in Games, NEW H \in Gates, NEW K
    PROVE  Named(toGate'[h][H], K) \subseteq Named(toGate[h][H], K)
<1>1. /\ toGate[g][G] \in Seq(Messages) /\ toGate[g][G] # << >>
      /\ toGate'[g][G] = Tail(toGate[g][G])
      /\ h # g \/ H # G => toGate'[h][H] = toGate[h][H]
  BY TakenFrom
<1>2. Named(Tail(toGate[g][G]), K) \subseteq Named(toGate[g][G], K)
  BY <1>1, TailFewer
<1> QED BY <1>1, <1>2

\* Nothing but the messages of the gate and its role changes.
LEMMA TakenParts ==
    ASSUME TypeOK, JInv, NEW g \in Games, NEW G \in Gates, NEW type,
           Incoming(g, G, type), Received(g, G), Ages,
           UNCHANGED << entity, toHost, alive, loading >>
    PROVE  Dark' /\ Lone' /\ KickedOut' /\ Ended'
<1> USE DEF JInv
<1>1. Shrinks
  BY DEF Shrinks
<1>2. \A h \in Games, H \in Gates, K \in {Kicks, Answers} :
         Named(toGate'[h][H], K) \subseteq Named(toGate[h][H], K)
  BY TakenNames
<1>3. Dark' /\ Lone'
  BY <1>1, LoneKept DEF Dark
<1>4. KickedOut'
  BY <1>1, <1>2, KickedOutKept
<1>5. Ended'
  BY <1>2, EndedKept
<1> QED BY <1>3, <1>4, <1>5

LEMMA KickGatePlayerPairs ==
    ASSUME IInv, JInv, NEW g \in Games, NEW G \in Gates, HandleKickGatePlayer(g, G) PROVE JInv'
<1> DEFINE m == Head(toGate[g][G])
<1>1. /\ Incoming(g, G, "kick") /\ Received(g, G) /\ TypeOK
      /\ UNCHANGED << gateOf, handle, verifying, alive, loading, entity, toGame, toHost >>
      /\ \/ role[G] = None /\ UNCHANGED << role, fate >>
         \/ /\ role[G] # None /\ role' = [role EXCEPT ![G] = None]
            /\ fate' = IF m.session = role[G].session THEN fate
                       ELSE Mark(fate, role[G].session, "displaced")
  BY DEF HandleKickGatePlayer, gameVars, IInv
<1>2. /\ toGate[g][G] \in Seq(Messages) /\ toGate[g][G] # << >>
      /\ m \in Messages /\ m.type = "kick"
      /\ toGate'[g][G] = Tail(toGate[g][G])
      /\ \A h \in Games, H \in Gates : h # g \/ H # G => toGate'[h][H] = toGate[h][H]
  BY <1>1, TakenFrom
<1>3. m.type \in Kicks => m.session \in Named(toGate[g][G], Kicks)
  BY <1>2, TailFewer
<1> HIDE DEF m
<1>4. Ages
  BY <1>1 DEF Ages, Fresh
<1>5. Dark' /\ Lone' /\ KickedOut' /\ Ended'
  BY <1>1, <1>4, TakenParts
<1>6. ASSUME NEW h \in Games, NEW H \in Gates, NEW s \in Sessions PROVE Paired(h, H, s)'
  <2>1. Paired(h, H, s)
    BY DEF JInv, Pairs
  <2>2. /\ fate'[s] = "none" => fate[s] = "none"
        /\ fate'[s] = "none" /\ role[G] # None /\ role[G].session = s => m.session = s
    <3>1. CASE role[G] = None
      BY <1>1, <3>1
    <3>2. CASE role[G] # None
      <4>1. role[G].session \in Sessions /\ fate \in [Sessions -> Fates]
        BY <1>1, <3>2 DEF TypeOK, Homes, Fates
      <4> QED BY <1>1, <3>2, <4>1, MarkedFates
    <3> QED BY <3>1, <3>2
  <2>3. CASE H # G
    <3>1. role'[H] = role[H]
      BY <1>1, <2>3 DEF TypeOK
    <3> QED BY <1>1, <1>2, <2>1, <2>2, <2>3, <3>1, PairKept
  <2>4. CASE H = G
    <3>1. role'[G] = None
      BY <1>1 DEF TypeOK
    <3>2. fate'[s] = "none" /\ entity[h] = Place(G, s) => role[G] # Home(h, s)
      <4> SUFFICES ASSUME fate'[s] = "none", entity[h] = Place(G, s), role[G] = Home(h, s) PROVE FALSE
        OBVIOUS
      <4>1. role[G] # None /\ role[G].session = s
        BY LoginAssumption DEF Homes, Home
      <4>2. s \in Named(toGate[g][G], Kicks)
        BY <1>2, <1>3, <2>2, <4>1 DEF Kicks
      <4>3. Hosts(h, s)
        BY LoginAssumption DEF Places, Place, Hosts
      <4> QED BY <4>2, <4>3 DEF JInv, KickedOut
    <3>3. CASE h # g
      <4>1. toGate'[h][G] = toGate[h][G]
        BY <1>2, <3>3
      <4> QED BY <1>1, <2>1, <2>2, <2>4, <3>1, <3>2, <4>1, PairParts
    <3>4. CASE h = g
      <4>1. s \in Named(toGate[g][G], Acks) => s \in Named(toGate'[g][G], Acks)
        <5>1. m.type \notin Acks
          BY <1>2 DEF Acks
        <5>2. s \in Named(toGate[g][G], Acks) =>
                 s \in Named(Tail(toGate[g][G]), Acks) \/ (m.type \in Acks /\ m.session = s)
          BY <1>2, TailNames DEF m
        <5> QED BY <1>2, <5>1, <5>2
      <4>2. Undone(toGate[g][G], s) => Undone(toGate'[g][G], s)
        BY <1>2, UndoneTail
      <4>3. None # Home(g, s)
        BY LoginAssumption DEF Homes, Home
      <4> QED BY <1>1, <2>1, <2>2, <2>4, <3>1, <3>2, <3>4, <4>1, <4>2, <4>3 DEF Paired
    <3> QED BY <3>3, <3>4
  <2> QED BY <2>3, <2>4
<1> QED BY <1>5, <1>6 DEF JInv, Pairs

LEMMA LoginGameFailPairs ==
    ASSUME IInv, JInv, NEW g \in Games, NEW G \in Gates, HandleLoginGameFail(g, G) PROVE JInv'
<1> DEFINE m == Head(toGate[g][G])
<1>1. /\ Incoming(g, G, "fail") /\ Received(g, G) /\ TypeOK
      /\ UNCHANGED << gateOf, handle, role, fate, verifying, alive, loading, entity, toGame, toHost >>
  BY DEF HandleLoginGameFail, gameVars, IInv
<1>2. /\ toGate[g][G] \in Seq(Messages) /\ toGate[g][G] # << >>
      /\ m \in Messages /\ m.type = "fail"
      /\ toGate'[g][G] = Tail(toGate[g][G])
      /\ \A h \in Games, H \in Gates : h # g \/ H # G => toGate'[h][H] = toGate[h][H]
  BY <1>1, TakenFrom
<1>3. Ages
  BY <1>1 DEF Ages, Fresh
<1>4. Dark' /\ Lone' /\ KickedOut' /\ Ended'
  BY <1>1, <1>3, TakenParts
<1>5. ASSUME NEW h \in Games, NEW H \in Gates, NEW s \in Sessions PROVE Paired(h, H, s)'
  <2>1. Paired(h, H, s)
    BY DEF JInv, Pairs
  <2>2. CASE h # g \/ H # G
    BY <1>1, <1>2, <2>1, <2>2, PairKept
  <2>3. CASE h = g /\ H = G
    <3>1. ASSUME NEW K \in {Acks, Kicks}, s \in Named(toGate[g][G], K) PROVE s \in Named(toGate'[g][G], K)
      <4>1. m.type \notin K
        BY <1>2 DEF Acks, Kicks
      <4>2. s \in Named(Tail(toGate[g][G]), K) \/ (m.type \in K /\ m.session = s)
        BY <1>2, <3>1, TailNames DEF m
      <4> QED BY <1>2, <4>1, <4>2
    <3>2. Undone(toGate[g][G], s) => Undone(toGate'[g][G], s)
      BY <1>2, UndoneTail
    <3> QED BY <1>1, <2>1, <2>3, <3>1, <3>2 DEF Paired
  <2> QED BY <2>2, <2>3
<1> QED BY <1>4, <1>5 DEF JInv, Pairs

LEMMA LoginGameAckPairs ==
    ASSUME IInv, JInv, NEW g \in Games, NEW G \in Gates, HandleLoginGameAck(g, G) PROVE JInv'
<1> DEFINE m == Head(toGate[g][G])
           t == m.session
<1>1. /\ Incoming(g, G, "ack") /\ Received(g, G) /\ TypeOK /\ Staged
      /\ UNCHANGED << gateOf, verifying, alive, loading, entity, toGame, toHost >>
      /\ \/ handle[t] = "closed" /\ fate' = Mark(fate, t, "unbound") /\ UNCHANGED << handle, role >>
         \/ /\ handle[t] # "closed" /\ handle' = [handle EXCEPT ![t] = "bound"]
            /\ role' = [role EXCEPT ![G] = Home(g, t)]
            /\ fate' = IF role[G] = None THEN fate ELSE Mark(fate, role[G].session, "displaced")
  BY DEF HandleLoginGameAck, gameVars, IInv, Home
<1>2. /\ toGate[g][G] \in Seq(Messages) /\ toGate[g][G] # << >>
      /\ m \in Messages /\ m.type = "ack"
      /\ toGate'[g][G] = Tail(toGate[g][G])
      /\ \A h \in Games, H \in Gates : h # g \/ H # G => toGate'[h][H] = toGate[h][H]
  BY <1>1, TakenFrom
<1>3. t \in Sessions
  BY <1>2 DEF Messages
<1>4. t \in Named(toGate[g][G], Answers)
  BY <1>2, TailFewer DEF Answers
<1>5. fate \in [Sessions -> Fates]
  BY <1>1 DEF TypeOK, Fates
<1>6. /\ handle[t] \in {"open", "closed"} /\ gateOf[t] = G
      /\ \A h \in Games, H \in Gates : t \in Named(toGate[h][H], Answers) => h = g /\ H = G
  <2>1. handle[t] # "none"
    <3>1. PICK stage, host : Follows(stage, host)
      BY <1>1 DEF Staged
    <3> QED BY <1>3, <1>4, <3>1 DEF Follows
  <2> QED BY <1>1, <1>3, <1>4, <2>1, StagedFacts
<1>7. ASSUME NEW s \in Sessions, NEW K, s \in Named(toGate[g][G], K), s # t \/ "ack" \notin K
      PROVE  s \in Named(toGate'[g][G], K)
  <2>1. s \in Named(Tail(toGate[g][G]), K) \/ (m.type \in K /\ m.session = s)
    BY <1>2, <1>7, TailNames
  <2> QED BY <1>2, <1>7, <2>1
<1>8. ASSUME NEW s, Undone(toGate[g][G], s)
      PROVE  Undone(toGate'[g][G], s) /\ (s = t => t \in Named(toGate'[g][G], Kicks))
  BY <1>2, <1>8, UndoneTail
<1> HIDE DEF m, t
<1>9. Ages
  <2>1. ASSUME NEW s \in Sessions PROVE handle'[s] = "none" => handle[s] = "none"
    BY <1>1, <1>3 DEF TypeOK
  <2>2. ASSUME NEW s \in Sessions PROVE handle[s] = "closed" => handle'[s] = "closed"
    BY <1>1, <1>3 DEF TypeOK
  <2>3. ASSUME NEW s \in Sessions, Fresh(s)' PROVE Fresh(s)
    BY <1>1, <2>1, <2>3 DEF Fresh
  <2> QED BY <1>1, <2>2, <2>3 DEF Ages
<1>10. Dark' /\ Lone' /\ KickedOut' /\ Ended'
  BY <1>1, <1>9, TakenParts
<1>11. ASSUME NEW h \in Games, NEW H \in Gates, NEW s \in Sessions PROVE Paired(h, H, s)'
  <2>1. Paired(h, H, s)
    BY DEF JInv, Pairs
  <2>2. CASE handle[t] = "closed"
    <3>1. fate'[s] = "none" => fate[s] = "none" /\ s # t
      BY <1>1, <1>3, <1>5, <2>2, MarkedFates
    <3>2. role' = role
      BY <1>1, <2>2
    <3>3. CASE h # g \/ H # G
      BY <1>1, <1>2, <2>1, <3>1, <3>2, <3>3, PairKept
    <3>4. CASE h = g /\ H = G
      <4>1. s # t /\ s \in Named(toGate[g][G], Acks) => s \in Named(toGate'[g][G], Acks)
        BY <1>7
      <4>2. s \in Named(toGate[g][G], Kicks) => s \in Named(toGate'[g][G], Kicks)
        BY <1>7 DEF Kicks
      <4>3. Undone(toGate[g][G], s) => Undone(toGate'[g][G], s)
        BY <1>8
      <4> QED BY <1>1, <2>1, <3>1, <3>2, <3>4, <4>1, <4>2, <4>3 DEF Paired
    <3> QED BY <3>3, <3>4
  <2>3. CASE handle[t] # "closed"
    <3>1. fate'[s] = "none" => fate[s] = "none" /\ (role[G] # None => s # role[G].session)
      <4>1. CASE role[G] = None
        BY <1>1, <2>3, <4>1
      <4>2. CASE role[G] # None
        <5>1. role[G].session \in Sessions
          BY <1>1, <4>2 DEF TypeOK, Homes
        <5> QED BY <1>1, <1>5, <2>3, <4>2, <5>1, MarkedFates
      <4> QED BY <4>1, <4>2
    <3>2. CASE H # G
      <4>1. role'[H] = role[H]
        BY <1>1, <2>3, <3>2 DEF TypeOK
      <4> QED BY <1>1, <1>2, <2>1, <3>1, <3>2, <4>1, PairKept
    <3>3. CASE H = G
      <4>1. role'[G] = Home(g, t)
        BY <1>1, <2>3 DEF TypeOK
      <4>2. ASSUME fate'[s] = "none" PROVE role[G] # Home(h, s)
        BY <3>1, <4>2, LoginAssumption DEF Homes, Home
      <4>3. Home(g, t) = Home(h, s) <=> h = g /\ s = t
        BY DEF Home
      <4>4. toGate'[h][G] = toGate[h][G] \/ h = g
        BY <1>2
      <4>5. ASSUME role'[G] = Home(h, s), entity[h] # Place(G, s), fate'[s] = "none"
            PROVE  s \in Named(toGate'[h][G], Kicks)
        <5>1. h = g /\ s = t
          BY <4>1, <4>3, <4>5
        <5>2. Undone(toGate[g][G], s)
          BY <2>1, <3>1, <3>3, <4>5, <5>1 DEF Paired
        <5> QED BY <1>8, <5>1, <5>2
      <4>6. ASSUME entity[h] = Place(G, s), fate'[s] = "none"
            PROVE  \/ role'[G] = Home(h, s)
                   \/ s \in Named(toGate'[h][G], Acks) \/ s \in Named(toHost'[h][G], Closings)
        <5>1. s \in Named(toGate[h][G], Acks) \/ s \in Named(toHost[h][G], Closings)
          BY <2>1, <3>1, <3>3, <4>2, <4>6 DEF Paired
        <5>2. CASE s # t
          BY <1>1, <1>7, <4>4, <5>1, <5>2
        <5>3. CASE s = t
          <6>1. s \notin Named(toHost[h][G], Closings)
            BY <1>4, <5>3 DEF JInv, Ended
          <6>2. h = g
            BY <1>6, <5>1, <5>3, <6>1, AcksAreAnswers
          <6> QED BY <4>1, <5>3, <6>2
        <5> QED BY <5>2, <5>3
      <4>7. Undone(toGate[h][G], s) => Undone(toGate'[h][G], s)
        BY <1>8, <4>4
      <4> QED BY <1>1, <2>1, <3>1, <3>3, <4>5, <4>6, <4>7 DEF Paired
    <3> QED BY <3>2, <3>3
  <2> QED BY <2>2, <2>3
<1> QED BY <1>10, <1>11 DEF JInv, Pairs

-----------------------------------------------------------------------------
(* The steps of the game. *)

\* The entity of a game goes and its gate is told: a role of the entity finds
\* the kick, and an answer that is still on its way is undone by it.
LEMMA KickPlayerPairs ==
    ASSUME IInv, JInv, NEW g \in Games, KickPlayer(g), Ages, alive[g],
           UNCHANGED << role, fate, toHost, alive >>,
           \A h \in Games \ {g} : loading'[h] = loading[h]
    PROVE  JInv'
<1> USE DEF JInv
<1>1. TypeOK /\ entity' = [entity EXCEPT ![g] = None]
  BY DEF IInv, KickPlayer, RemoveEntity
<1>2. Shrinks /\ \A h \in Games \ {g} : entity'[h] = entity[h]
  BY <1>1 DEF TypeOK, Shrinks
<1>3. entity'[g] = None
  BY <1>1 DEF TypeOK
<1>4. Dark' /\ Lone'
  BY <1>2, LoneKept DEF Dark
<1>5. CASE entity[g] = None
  <2>1. toGate' = toGate /\ entity' = entity
    BY <1>1, <1>5 DEF KickPlayer, TypeOK
  <2>2. KickedOut' /\ Ended'
    BY <1>2, <2>1, KickedOutKept, EndedKept
  <2>3. Pairs'
    BY <2>1, PairKept DEF Pairs
  <2> QED BY <1>4, <2>2, <2>3
<1>6. CASE entity[g] # None
  <2> DEFINE t == entity[g].session
             G == entity[g].gate
             m == [Kick EXCEPT !.session = t]
             r == Append(toGate[g][G], m)
  <2>1. entity[g] \in Places /\ t \in Sessions /\ G \in Gates /\ entity[g] = Place(G, t)
    BY <1>1, <1>6 DEF TypeOK, Places, Place
  <2>2. m = [type |-> "kick", session |-> t]
    BY DEF Kick
  <2>3. m \in Messages /\ m.type = "kick" /\ m.session = t
    <3>1. t \in 0 .. MaxSessions
      BY <2>1, LoginAssumption DEF Sessions
    <3> QED BY <2>2, <3>1 DEF Messages
  <2>4. toGate' = [toGate EXCEPT ![g][G] = r]
    BY <1>6 DEF KickPlayer
  <2>5. Hosts(g, t)
    BY <1>6 DEF Hosts
  <2>6. toGate[g][G] \in Seq(Messages) /\ toGate \in [Games -> [Gates -> Seq(Messages)]]
    BY <1>1, <2>1 DEF TypeOK
  <2> HIDE DEF t, G, m
  <2>7. /\ toGate'[g][G] = r
        /\ \A h \in Games, H \in Gates : h # g \/ H # G => toGate'[h][H] = toGate[h][H]
    BY <2>1, <2>4, <2>6
  <2>8. ~ Fresh(t) /\ gateOf[t] = entity[g].gate /\ \A h \in Games : Hosts(h, t) => h = g
    BY <2>1, <2>5 DEF Lone
  <2>9. \A h \in Games, H \in Gates : Named(toGate'[h][H], Answers) = Named(toGate[h][H], Answers)
    <3>1. Named(r, Answers) = Named(toGate[g][G], Answers)
      <4>1. m.type \notin Answers
        BY <2>3 DEF Answers
      <4> QED BY <2>3, <2>6, <4>1, AppendOther
    <3> QED BY <2>7, <3>1
  <2>10. Ended'
    BY <2>9, EndedKept
  <2>11. KickedOut'
    <3> SUFFICES ASSUME NEW k \in Games, NEW H \in Gates, NEW s \in Sessions,
                        s \in Named(toGate'[k][H], Kicks)
                 PROVE  ~ Fresh(s)' /\ \A h \in Games : ~ Hosts(h, s)'
      BY DEF KickedOut
    <3>1. \A h \in Games : Hosts(h, s)' => Hosts(h, s) /\ h # g
      BY <1>2, <1>3 DEF Hosts
    <3>2. CASE s \in Named(toGate[k][H], Kicks)
      <4>1. ~ Fresh(s) /\ \A h \in Games : ~ Hosts(h, s)
        BY <3>2 DEF KickedOut
      <4> QED BY <3>1, <4>1 DEF Ages
    <3>3. CASE s \notin Named(toGate[k][H], Kicks)
      <4>1. k = g /\ H = G
        BY <2>7, <3>3
      <4>2. s \in Named(r, Kicks)
        BY <2>7, <4>1
      <4>3. s \in Named(toGate[g][G], Kicks) \/ (m.type \in Kicks /\ m.session = s)
        BY <2>3, <2>6, <4>2, AppendNamesOnly
      <4>4. s = t
        BY <2>3, <3>3, <4>1, <4>3
      <4> QED BY <2>8, <3>1, <4>4 DEF Ages
    <3> QED BY <3>2, <3>3
  <2>12. ASSUME NEW h \in Games, NEW H \in Gates, NEW s \in Sessions PROVE Paired(h, H, s)'
    <3>1. Paired(h, H, s)
      BY DEF Pairs
    <3>2. CASE h # g
      BY <1>2, <2>7, <3>1, <3>2, PairKept
    <3>3. CASE h = g
      <4>1. None # Place(H, s)
        BY LoginAssumption DEF Places, Place
      <4>2. entity[g] = Place(H, s) => H = G /\ s = t
        BY <2>1 DEF Place
      <4>3. CASE H # G
        BY <1>3, <2>7, <3>1, <3>3, <4>1, <4>2, <4>3 DEF Paired
      <4>4. CASE H = G
        <5>1. /\ s \in Named(toGate[g][G], Kicks) => s \in Named(toGate'[g][G], Kicks)
              /\ s = t => s \in Named(toGate'[g][G], Kicks)
          <6>1. m.type \in Kicks
            BY <2>3 DEF Kicks
          <6> QED BY <2>3, <2>6, <2>7, <6>1, AppendNames
        <5>2. s = t \/ Undone(toGate[g][G], s) => Undone(toGate'[g][G], s)
          BY <2>3, <2>6, <2>7, UndoneAppend
        <5> QED BY <1>3, <3>1, <3>3, <4>1, <4>2, <4>4, <5>1, <5>2 DEF Paired
      <4> QED BY <4>3, <4>4
    <3> QED BY <3>2, <3>3
  <2> QED BY <1>4, <2>10, <2>11, <2>12 DEF Pairs
<1> QED BY <1>5, <1>6

LEMMA KickingPairs ==
    ASSUME IInv, JInv, NEW g \in Games, HandleKickGamePlayer(g) \/ HandleLoginTellToken(g) PROVE JInv'
<1> DEFINE m == Head(toGame[g])
<1>1. /\ alive[g] /\ toGame[g] # << >> /\ toGame' = [toGame EXCEPT ![g] = Tail(@)]
      /\ KickPlayer(g)
      /\ \/ UNCHANGED loading
         \/ m.type = "token" /\ loading' = [loading EXCEPT ![g] = @ \cup {m.session}]
      /\ UNCHANGED << gateOf, handle, role, verifying, alive, toHost, fate >>
  BY DEF HandleKickGamePlayer, HandleLoginTellToken, GameGets, gateVars
<1>2. TypeOK /\ toGame[g] \in Seq(Messages) /\ toGame \in [Games -> Seq(Messages)]
  BY DEF IInv, TypeOK
<1>3. /\ Named(Tail(toGame[g]), Tokens) \subseteq Named(toGame[g], Tokens)
      /\ m.type \in Tokens => m.session \in Named(toGame[g], Tokens)
  BY <1>1, <1>2, TailFewer
<1> HIDE DEF m
<1>4. \A h \in Games : Named(toGame'[h], Tokens) \subseteq Named(toGame[h], Tokens)
  BY <1>1, <1>2, <1>3
<1>5. \A h \in Games : /\ h # g => loading'[h] = loading[h]
                       /\ loading'[h] \subseteq loading[h] \cup Named(toGame[h], Tokens)
  BY <1>1, <1>2, <1>3 DEF TypeOK, Tokens
<1>6. Ages
  <2>1. ASSUME NEW s \in Sessions, Fresh(s)' PROVE Fresh(s)
    BY <1>1, <1>4, <1>5, <2>1 DEF Fresh
  <2> QED BY <1>1, <2>1 DEF Ages
<1>7. \A h \in Games \ {g} : loading'[h] = loading[h]
  BY <1>5
<1> QED BY <1>1, <1>6, <1>7, KickPlayerPairs

\* The game takes what the world sent it.
LEMMA TakenTokens ==
    ASSUME TypeOK, NEW g \in Games, toGame[g] # << >>, toGame' = [toGame EXCEPT ![g] = Tail(@)]
    PROVE  \A h \in Games : Named(toGame'[h], Tokens) \subseteq Named(toGame[h], Tokens)
<1>1. toGame[g] \in Seq(Messages) /\ toGame \in [Games -> Seq(Messages)]
  BY DEF TypeOK
<1>2. Named(Tail(toGame[g]), Tokens) \subseteq Named(toGame[g], Tokens)
  BY <1>1, TailFewer
<1> QED BY <1>1, <1>2

LEMMA GameReceivesPairs ==
    ASSUME IInv, JInv, NEW g \in Games, GameReceives(g) PROVE JInv'
<1>1. TypeOK
  BY DEF IInv
<1>2. CASE HandleKickGamePlayer(g) \/ HandleLoginTellToken(g)
  BY <1>2, KickingPairs
<1>3. CASE OnClientLostServer(g) \/ OnClientConnectionWorld(g)
  <2>1. /\ toGame[g] # << >> /\ toGame' = [toGame EXCEPT ![g] = Tail(@)] /\ UNCHANGED gateVars
        /\ UNCHANGED << entity, toGate, toHost, fate, alive, loading, verifying >>
    BY <1>3 DEF OnClientLostServer, OnClientConnectionWorld, GameGets
  <2> QED BY <1>1, <2>1, TakenTokens, WorldPairs
<1> QED BY <1>2, <1>3 DEF GameReceives

\* A load is known in one place, so that the login is not fresh once it is done.
LEMMA LoadFacts ==
    ASSUME IInv, NEW g \in Games, NEW t \in Sessions, t \in loading[g],
           UNCHANGED << handle, verifying, toGame, gateOf >>,
           loading' = [loading EXCEPT ![g] = @ \ {t}]
    PROVE  /\ Ages /\ Fresh(t) /\ ~ Fresh(t)' /\ gateOf[t] \in Gates
           /\ \A h \in Games, H \in Gates : t \notin Named(toGate[h][H], Answers)
<1>1. TypeOK /\ Opened
  BY DEF IInv
<1>2. PICK stage, host : Follows(stage, host)
  BY DEF IInv, Staged
<1>3. stage[t] = "load" /\ host[t] = g
  BY <1>2 DEF Follows
<1>4. handle[t] \in {"open", "closed"}
  BY <1>2, <1>3 DEF Follows
<1>5. /\ t \notin verifying
      /\ \A h \in Games : t \notin Named(toGame[h], Tokens) /\ (h # g => t \notin loading[h])
      /\ \A h \in Games, H \in Gates : t \notin Named(toGate[h][H], Answers)
  BY <1>2, <1>3, Alone
<1>6. \A h \in Games : loading'[h] = IF h = g THEN loading[g] \ {t} ELSE loading[h]
  BY <1>1 DEF TypeOK
<1>7. ~ Fresh(t)'
  BY <1>4, <1>5, <1>6 DEF Fresh
<1>8. Fresh(t)
  BY DEF Fresh
<1>9. Ages
  <2>1. ASSUME NEW s \in Sessions, Fresh(s)' PROVE Fresh(s)
    BY <1>6, <2>1 DEF Fresh
  <2> QED BY <2>1 DEF Ages
<1>10. gateOf[t] \in Gates
  BY <1>1, <1>4 DEF Opened
<1> QED BY <1>5, <1>7, <1>8, <1>9, <1>10

\* An entity is created: its answer goes to its gate, and whoever had the game's
\* entity before has been replaced.
LEMMA LoadPlayerAckPairs ==
    ASSUME IInv, JInv, NEW g \in Games, NEW t \in Sessions, HandleLoadPlayerAck(g, t) PROVE JInv'
<1> USE DEF JInv
<1> DEFINE G == gateOf[t]
           m == Ack(t)
           r == Append(toGate[g][G], m)
<1>1. /\ t \in loading[g]
      /\ loading' = [loading EXCEPT ![g] = @ \ {t}]
      /\ entity' = [entity EXCEPT ![g] = Place(G, t)]
      /\ fate' = IF entity[g] = None THEN fate ELSE Mark(fate, entity[g].session, "replaced")
      /\ toGate' = [toGate EXCEPT ![g][G] = r]
      /\ UNCHANGED << gateOf, handle, role, verifying, alive, toGame, toHost >>
  BY DEF HandleLoadPlayerAck, gateVars, Place
<1>2. /\ Ages /\ Fresh(t) /\ ~ Fresh(t)' /\ G \in Gates
      /\ \A h \in Games, H \in Gates : t \notin Named(toGate[h][H], Answers)
  BY <1>1, LoadFacts
<1>3. TypeOK
  BY DEF IInv
<1>4. m \in Messages /\ m.type = "ack" /\ m.session = t
  BY DEF Ack, Messages
<1> HIDE DEF m, G
<1>5. toGate[g][G] \in Seq(Messages) /\ toGate \in [Games -> [Gates -> Seq(Messages)]]
  BY <1>2, <1>3 DEF TypeOK
<1>6. /\ toGate'[g][G] = r
      /\ \A h \in Games, H \in Gates : h # g \/ H # G => toGate'[h][H] = toGate[h][H]
  BY <1>1, <1>2, <1>5
<1>7. entity'[g] = Place(G, t) /\ \A h \in Games \ {g} : entity'[h] = entity[h]
  BY <1>1, <1>3 DEF TypeOK
<1>8. None # Place(G, t)
  BY <1>2, LoginAssumption DEF Places, Place
<1>9. /\ \A s \in Sessions : Hosts(g, s)' <=> s = t
      /\ \A h \in Games \ {g}, s \in Sessions : Hosts(h, s)' <=> Hosts(h, s)
  BY <1>7, <1>8 DEF Hosts, Place
<1>10. \A h \in Games : ~ Hosts(h, t)
  BY <1>2 DEF Lone
<1>11. Dark'
  <2>1. ASSUME NEW h \in Games, ~ alive[h] PROVE entity'[h] = None /\ loading'[h] = {}
    <3>1. h # g
      BY <1>1, <2>1 DEF Dark
    <3>2. entity'[h] = entity[h] /\ loading'[h] = loading[h]
      BY <1>1, <1>3, <1>7, <3>1 DEF TypeOK
    <3> QED BY <2>1, <3>2 DEF Dark
  <2> QED BY <1>1, <2>1 DEF Dark
<1>12. Lone'
  <2> SUFFICES ASSUME NEW h \in Games, NEW s \in Sessions, Hosts(h, s)'
               PROVE  /\ ~ Fresh(s)' /\ gateOf'[s] = entity'[h].gate
                      /\ \A k \in Games : Hosts(k, s)' => k = h
    BY DEF Lone
  <2>1. CASE h = g
    <3>1. s = t
      BY <1>9, <2>1
    <3>2. gateOf'[t] = entity'[g].gate
      BY <1>1, <1>7 DEF Place, G
    <3> QED BY <1>2, <1>9, <1>10, <2>1, <3>1, <3>2
  <2>2. CASE h # g
    <3>1. Hosts(h, s) /\ s # t
      BY <1>9, <1>10, <2>2
    <3>2. ~ Fresh(s) /\ gateOf[s] = entity[h].gate /\ \A k \in Games : Hosts(k, s) => k = h
      BY <3>1 DEF Lone
    <3>3. \A k \in Games : Hosts(k, s)' => k = h
      BY <1>9, <3>1, <3>2
    <3> QED BY <1>1, <1>2, <1>7, <2>2, <3>2, <3>3 DEF Ages
  <2> QED BY <2>1, <2>2
<1>13. KickedOut'
  <2> SUFFICES ASSUME NEW k \in Games, NEW H \in Gates, NEW s \in Sessions,
                      s \in Named(toGate'[k][H], Kicks)
               PROVE  ~ Fresh(s)' /\ \A h \in Games : ~ Hosts(h, s)'
    BY DEF KickedOut
  <2>1. s \in Named(toGate[k][H], Kicks)
    <3>1. CASE k = g /\ H = G
      <4>1. Named(r, Kicks) = Named(toGate[g][G], Kicks)
        <5>1. m.type \notin Kicks
          BY <1>4 DEF Kicks
        <5> QED BY <1>4, <1>5, <5>1, AppendOther
      <4> QED BY <1>6, <3>1, <4>1
    <3>2. CASE ~ (k = g /\ H = G)
      BY <1>6, <3>2
    <3> QED BY <3>1, <3>2
  <2>2. ~ Fresh(s) /\ \A h \in Games : ~ Hosts(h, s)
    BY <2>1 DEF KickedOut
  <2>3. s # t
    BY <1>2, <2>2
  <2> QED BY <1>2, <1>9, <2>2, <2>3 DEF Ages
<1>14. Ended'
  <2>1. ASSUME NEW h \in Games, NEW H \in Gates, NEW s \in Sessions, s \in Named(toGate'[h][H], Answers)
        PROVE  s \in Named(toGate[h][H], Answers) \/ Fresh(s)
    <3>1. CASE h = g /\ H = G
      <4>1. s \in Named(r, Answers)
        BY <1>6, <2>1, <3>1
      <4>2. s \in Named(toGate[g][G], Answers) \/ (m.type \in Answers /\ m.session = s)
        BY <1>4, <1>5, <4>1, AppendNamesOnly
      <4> QED BY <1>2, <1>4, <3>1, <4>2
    <3>2. CASE ~ (h = g /\ H = G)
      BY <1>6, <2>1, <3>2
    <3> QED BY <3>1, <3>2
  <2> QED BY <1>1, <1>2, <2>1, EndedKept
<1>15. ASSUME NEW h \in Games, NEW H \in Gates, NEW s \in Sessions PROVE Paired(h, H, s)'
  <2>1. Paired(h, H, s)
    BY DEF Pairs
  <2>2. fate'[s] = "none" => fate[s] = "none" /\ (entity[g] # None => s # entity[g].session)
    <3>1. CASE entity[g] = None
      BY <1>1, <3>1
    <3>2. CASE entity[g] # None
      <4>1. entity[g].session \in Sessions /\ fate \in [Sessions -> Fates]
        BY <1>3, <3>2 DEF TypeOK, Places, Fates
      <4> QED BY <1>1, <3>2, <4>1, MarkedFates
    <3> QED BY <3>1, <3>2
  <2>3. CASE h # g
    BY <1>1, <1>6, <1>7, <2>1, <2>2, <2>3, PairKept
  <2>4. CASE h = g
    <3> SUFFICES ASSUME fate'[s] = "none"
                 PROVE  /\ role'[H] = Home(g, s) => entity'[g] = Place(H, s) \/ s \in Named(toGate'[g][H], Kicks)
                        /\ entity'[g] = Place(H, s) => s \in Named(toGate'[g][H], Acks)
                        /\ entity'[g] # Place(H, s) => Undone(toGate'[g][H], s)
      BY <2>4 DEF Paired
    <3>1. entity[g] # Place(H, s)
      BY <2>2, LoginAssumption DEF Places, Place
    <3>2. Undone(toGate[g][H], s) /\ (role[H] = Home(g, s) => s \in Named(toGate[g][H], Kicks))
      BY <2>1, <2>2, <2>4, <3>1 DEF Paired
    <3>3. Place(G, t) = Place(H, s) <=> H = G /\ s = t
      BY DEF Place
    <3>4. s \in Named(toGate[g][H], Kicks) => s \in Named(toGate'[g][H], Kicks)
      <4>1. Named(toGate[g][G], Kicks) \subseteq Named(r, Kicks)
        BY <1>4, <1>5, AppendNames
      <4> QED BY <1>6, <4>1
    <3>5. H = G /\ s = t => s \in Named(toGate'[g][H], Acks)
      <4>1. m.type \in Acks
        BY <1>4 DEF Acks
      <4>2. m.session \in Named(r, Acks)
        BY <1>4, <1>5, <4>1, AppendNames
      <4> QED BY <1>4, <1>6, <4>2
    <3>6. ~ (H = G /\ s = t) => Undone(toGate'[g][H], s)
      <4>1. CASE H # G
        BY <1>6, <3>2, <4>1
      <4>2. CASE H = G /\ s # t
        <5>1. Undone(r, s)
          BY <1>4, <1>5, <3>2, <4>2, UndoneAppend
        <5> QED BY <1>6, <4>2, <5>1
      <4> QED BY <4>1, <4>2
    <3> QED BY <1>1, <1>7, <3>2, <3>3, <3>4, <3>5, <3>6
  <2> QED BY <2>3, <2>4
<1> QED BY <1>11, <1>12, <1>13, <1>14, <1>15 DEF Pairs

LEMMA LoadPlayerFailPairs ==
    ASSUME IInv, JInv, NEW g \in Games, NEW t \in Sessions, HandleLoadPlayerFail(g, t) PROVE JInv'
<1> USE DEF JInv
<1> DEFINE G == gateOf[t]
           m == Fail(t)
           r == Append(toGate[g][G], m)
<1>1. /\ t \in loading[g]
      /\ loading' = [loading EXCEPT ![g] = @ \ {t}]
      /\ toGate' = [toGate EXCEPT ![g][G] = r]
      /\ UNCHANGED << gateOf, handle, role, verifying, alive, entity, fate, toGame, toHost >>
  BY DEF HandleLoadPlayerFail, gateVars
<1>2. Ages /\ Fresh(t) /\ G \in Gates
  BY <1>1, LoadFacts
<1>3. TypeOK
  BY DEF IInv
<1>4. m \in Messages /\ m.type = "fail" /\ m.session = t
  BY DEF Fail, Messages
<1> HIDE DEF m, G
<1>5. toGate[g][G] \in Seq(Messages) /\ toGate \in [Games -> [Gates -> Seq(Messages)]]
  BY <1>2, <1>3 DEF TypeOK
<1>6. /\ toGate'[g][G] = r
      /\ \A h \in Games, H \in Gates : h # g \/ H # G => toGate'[h][H] = toGate[h][H]
  BY <1>1, <1>2, <1>5
<1>7. ASSUME NEW K \in {Kicks, Acks}, NEW h \in Games, NEW H \in Gates
      PROVE  Named(toGate'[h][H], K) = Named(toGate[h][H], K)
  <2>1. m.type \notin K
    BY <1>4 DEF Kicks, Acks
  <2>2. Named(r, K) = Named(toGate[g][G], K)
    BY <1>4, <1>5, <2>1, AppendOther
  <2> QED BY <1>6, <2>2
<1>8. Shrinks
  BY <1>1 DEF Shrinks
<1>9. Dark'
  <2>1. ASSUME NEW h \in Games PROVE loading'[h] \subseteq loading[h]
    BY <1>1, <1>3 DEF TypeOK
  <2> QED BY <1>1, <2>1 DEF Dark
<1>10. Lone'
  BY <1>2, <1>8, LoneKept
<1>11. KickedOut'
  BY <1>2, <1>7, <1>8, KickedOutKept
<1>12. Ended'
  <2>1. ASSUME NEW h \in Games, NEW H \in Gates, NEW s \in Sessions, s \in Named(toGate'[h][H], Answers)
        PROVE  s \in Named(toGate[h][H], Answers) \/ Fresh(s)
    <3>1. CASE h = g /\ H = G
      <4>1. s \in Named(r, Answers)
        BY <1>6, <2>1, <3>1
      <4>2. s \in Named(toGate[g][G], Answers) \/ (m.type \in Answers /\ m.session = s)
        BY <1>4, <1>5, <4>1, AppendNamesOnly
      <4> QED BY <1>2, <1>4, <3>1, <4>2
    <3>2. CASE ~ (h = g /\ H = G)
      BY <1>6, <2>1, <3>2
    <3> QED BY <3>1, <3>2
  <2> QED BY <1>1, <1>2, <2>1, EndedKept
<1>13. ASSUME NEW h \in Games, NEW H \in Gates, NEW s \in Sessions PROVE Paired(h, H, s)'
  <2>1. Paired(h, H, s)
    BY DEF Pairs
  <2>2. Undone(toGate[h][H], s) => Undone(toGate'[h][H], s)
    <3>1. CASE h = g /\ H = G
      <4>1. Undone(toGate[g][G], s) => Undone(r, s)
        BY <1>4, <1>5, UndoneAppend
      <4> QED BY <1>6, <3>1, <4>1
    <3>2. CASE ~ (h = g /\ H = G)
      BY <1>6, <3>2
    <3> QED BY <3>1, <3>2
  <2>3. /\ s \in Named(toGate'[h][H], Acks) <=> s \in Named(toGate[h][H], Acks)
        /\ s \in Named(toGate'[h][H], Kicks) <=> s \in Named(toGate[h][H], Kicks)
    BY <1>7
  <2> QED BY <1>1, <2>1, <2>2, <2>3 DEF Paired
<1> QED BY <1>9, <1>10, <1>11, <1>12, <1>13 DEF Pairs

\* A game takes what a gate sent it.
LEMMA HostTaken ==
    ASSUME TypeOK, NEW g \in Games, NEW G \in Gates, toHost[g][G] # << >>,
           toHost' = [toHost EXCEPT ![g][G] = Tail(@)],
           NEW h \in Games, NEW H \in Gates
    PROVE  /\ h # g \/ H # G => toHost'[h][H] = toHost[h][H]
           /\ Named(toHost'[h][H], Closings) \subseteq Named(toHost[h][H], Closings)
           /\ Head(toHost[g][G]) \in Messages
           /\ Head(toHost[g][G]).type \notin Closings =>
                 Named(toHost[h][H], Closings) \subseteq Named(toHost'[h][H], Closings)
           /\ Head(toHost[g][G]).type \in Closings =>
                 Head(toHost[g][G]).session \in Named(toHost[g][G], Closings)
<1>1. toHost[g][G] \in Seq(Messages) /\ toHost \in [Games -> [Gates -> Seq(Messages)]]
  BY DEF TypeOK
<1> DEFINE r == Tail(toHost[g][G])
<1>2. /\ toHost'[g][G] = r
      /\ h # g \/ H # G => toHost'[h][H] = toHost[h][H]
  BY <1>1
<1>3. /\ Named(r, Closings) \subseteq Named(toHost[g][G], Closings)
      /\ Head(toHost[g][G]) \in Messages
      /\ Head(toHost[g][G]).type \in Closings =>
            Head(toHost[g][G]).session \in Named(toHost[g][G], Closings)
  BY <1>1, TailFewer
<1>4. ASSUME NEW s \in Named(toHost[g][G], Closings), Head(toHost[g][G]).type \notin Closings
      PROVE  s \in Named(r, Closings)
  <2>1. s \in Named(Tail(toHost[g][G]), Closings) \/ (Head(toHost[g][G]).type \in Closings /\ Head(toHost[g][G]).session = s)
    BY <1>1, TailNames
  <2> QED BY <1>4, <2>1
<1> HIDE DEF r
<1>5. CASE h = g /\ H = G
  BY <1>2, <1>3, <1>4, <1>5
<1>6. CASE ~ (h = g /\ H = G)
  BY <1>2, <1>3, <1>6
<1> QED BY <1>5, <1>6

LEMMA DropLoginOutPairs ==
    ASSUME IInv, JInv, NEW g \in Games, NEW G \in Gates, DropLoginOut(g, G) PROVE JInv'
<1> USE DEF JInv
<1>1. /\ toHost[g][G] # << >> /\ Head(toHost[g][G]).type = "logout"
      /\ toHost' = [toHost EXCEPT ![g][G] = Tail(@)]
      /\ UNCHANGED << gateOf, handle, role, verifying, alive, loading, entity, fate, toGame, toGate >>
  BY DEF DropLoginOut, HostGets, gateVars, gameVars
<1>2. TypeOK /\ Head(toHost[g][G]).type \notin Closings
  BY <1>1 DEF IInv, Closings
<1>3. \A h \in Games, H \in Gates : Named(toHost'[h][H], Closings) = Named(toHost[h][H], Closings)
  <2> TAKE h \in Games, H \in Gates
  <2>1. Named(toHost'[h][H], Closings) \subseteq Named(toHost[h][H], Closings)
    BY <1>1, <1>2, HostTaken
  <2>2. Named(toHost[h][H], Closings) \subseteq Named(toHost'[h][H], Closings)
    BY <1>1, <1>2, HostTaken
  <2> QED BY <2>1, <2>2
<1>4. Ages /\ Shrinks
  BY <1>1 DEF Ages, Shrinks, Fresh
<1>5. Dark' /\ Lone' /\ KickedOut'
  BY <1>1, <1>4, LoneKept, KickedOutKept DEF Dark
<1>6. Ended'
  BY <1>1, <1>3, <1>4, EndedKept
<1>7. ASSUME NEW h \in Games, NEW H \in Gates, NEW s \in Sessions PROVE Paired(h, H, s)'
  <2>1. Paired(h, H, s)
    BY DEF Pairs
  <2>2. s \in Named(toHost[h][H], Closings) => s \in Named(toHost'[h][H], Closings)
    BY <1>3
  <2> QED BY <1>1, <2>1, <2>2 DEF Paired
<1> QED BY <1>5, <1>6, <1>7 DEF Pairs

\* The entity of a game goes, and whoever it was for, if it is not the session
\* whose end was told, is marked.
LEMMA EntityGoes ==
    ASSUME IInv, JInv, NEW g \in Games, NEW G \in Gates, NEW s \in Sessions,
           entity'[g] = None, role' = role, toGate' = toGate,
           fate'[s] = "none" => fate[s] = "none",
           fate'[s] = "none" /\ Hosts(g, s) =>
              handle[s] = "closed" /\ s \notin Named(toGate[g][G], Answers)
    PROVE  Paired(g, G, s)'
<1>1. Paired(g, G, s)
  BY DEF JInv, Pairs
<1>2. None # Place(G, s)
  BY LoginAssumption DEF Places, Place
<1>3. entity[g] = Place(G, s) => Hosts(g, s)
  BY <1>2 DEF Hosts, Place
<1>4. role[G] = Home(g, s) => handle[s] = "bound"
  <2>1. None # Home(g, s) /\ Home(g, s).session = s
    BY LoginAssumption DEF Homes, Home
  <2> QED BY <2>1 DEF IInv, RoleIsBound
<1>5. s \notin Named(toGate[g][G], Answers) => Undone(toGate[g][G], s)
  BY UndoneNone, AcksAreAnswers
<1> QED BY <1>1, <1>2, <1>3, <1>4, <1>5 DEF Paired

LEMMA DisconnectionPairs ==
    ASSUME IInv, JInv, NEW g \in Games, NEW G \in Gates, HandlePlayerDisconnection(g, G) PROVE JInv'
<1> USE DEF JInv
<1> DEFINE t == Head(toHost[g][G]).session
<1>1. /\ toHost[g][G] # << >> /\ Head(toHost[g][G]).type = "disconnect"
      /\ toHost' = [toHost EXCEPT ![g][G] = Tail(@)]
      /\ RemoveEntity(g)
      /\ fate' = IF entity[g] = None \/ entity[g].session = t THEN fate
                 ELSE Mark(fate, entity[g].session, "evicted")
      /\ UNCHANGED << gateOf, handle, role, verifying, alive, loading, toGame, toGate >>
  BY DEF HandlePlayerDisconnection, HostGets, gateVars
<1>2. TypeOK /\ Head(toHost[g][G]).type \in Closings
  BY <1>1 DEF IInv, Closings
<1>3. Head(toHost[g][G]) \in Messages /\ t \in Named(toHost[g][G], Closings)
  BY <1>1, <1>2, HostTaken
<1>4. t \in Sessions
  BY <1>1, <1>3 DEF Messages
<1> HIDE DEF t
<1>5. /\ handle[t] = "closed"
      /\ \A h \in Games, H \in Gates : t \notin Named(toGate[h][H], Answers)
  BY <1>3, <1>4 DEF Ended
<1>6. entity'[g] = None /\ \A h \in Games \ {g} : entity'[h] = entity[h]
  BY <1>1, <1>2 DEF RemoveEntity, TypeOK
<1>7. Ages /\ Shrinks
  BY <1>1, <1>6 DEF Ages, Shrinks, Fresh
<1>8. Dark' /\ Lone' /\ KickedOut'
  BY <1>1, <1>6, <1>7, LoneKept, KickedOutKept DEF Dark
<1>9. Ended'
  <2>1. \A h \in Games, H \in Gates : Named(toHost'[h][H], Closings) \subseteq Named(toHost[h][H], Closings)
    BY <1>1, <1>2, HostTaken
  <2> QED BY <1>1, <1>7, <2>1, EndedKept
<1>10. ASSUME NEW h \in Games, NEW H \in Gates, NEW s \in Sessions PROVE Paired(h, H, s)'
  <2>1. Paired(h, H, s)
    BY DEF Pairs
  <2>2. /\ fate'[s] = "none" => fate[s] = "none"
        /\ fate'[s] = "none" /\ Hosts(g, s) => s = t
    <3>1. CASE entity[g] = None
      BY <1>1, <3>1 DEF Hosts
    <3>2. CASE entity[g] # None
      <4>1. entity[g].session \in Sessions /\ fate \in [Sessions -> Fates]
        BY <1>2, <3>2 DEF TypeOK, Places, Fates
      <4> QED BY <1>1, <3>2, <4>1, MarkedFates DEF Hosts
    <3> QED BY <3>1, <3>2
  <2>3. CASE h # g
    <3>1. toHost'[h][H] = toHost[h][H]
      BY <1>1, <1>2, <2>3, HostTaken
    <3> QED BY <1>1, <1>6, <2>1, <2>2, <2>3, <3>1, PairKept
  <2>4. CASE h = g
    BY <1>1, <1>5, <1>6, <2>2, <2>4, EntityGoes
  <2> QED BY <2>3, <2>4
<1> QED BY <1>8, <1>9, <1>10 DEF Pairs

LEMMA ToHostLostPairs ==
    ASSUME IInv, JInv, NEW g \in Games, NEW G \in Gates, ToHostLost(g, G) PROVE JInv'
<1> USE DEF JInv
<1>1. /\ ~alive[g] /\ toHost[g][G] # << >>
      /\ toHost' = [toHost EXCEPT ![g][G] = Tail(@)]
      /\ UNCHANGED << gateOf, handle, role, verifying, alive, loading, entity, fate, toGame, toGate >>
  BY DEF ToHostLost, gateVars, gameVars
<1>2. TypeOK
  BY DEF IInv
<1>3. Ages /\ Shrinks
  BY <1>1 DEF Ages, Shrinks, Fresh
<1>4. Dark' /\ Lone' /\ KickedOut'
  BY <1>1, <1>3, LoneKept, KickedOutKept DEF Dark
<1>5. Ended'
  <2>1. \A h \in Games, H \in Gates : Named(toHost'[h][H], Closings) \subseteq Named(toHost[h][H], Closings)
    BY <1>1, <1>2, HostTaken
  <2> QED BY <1>1, <1>3, <2>1, EndedKept
<1>6. ASSUME NEW h \in Games, NEW H \in Gates, NEW s \in Sessions PROVE Paired(h, H, s)'
  <2>1. Paired(h, H, s)
    BY DEF Pairs
  <2>2. CASE h # g
    <3>1. toHost'[h][H] = toHost[h][H]
      BY <1>1, <1>2, <2>2, HostTaken
    <3> QED BY <1>1, <2>1, <3>1, PairKept
  <2>3. CASE h = g
    <3>1. entity[g] # Place(H, s)
      BY <1>1, LoginAssumption DEF Dark, Places, Place
    <3> QED BY <1>1, <2>1, <2>3, <3>1 DEF Paired
  <2> QED BY <2>2, <2>3
<1> QED BY <1>4, <1>5, <1>6 DEF Pairs

LEMMA CrashPairs ==
    ASSUME IInv, JInv, NEW g \in Games, Crash(g) PROVE JInv'
<1> USE DEF JInv
<1>1. /\ alive' = [alive EXCEPT ![g] = FALSE]
      /\ loading' = [loading EXCEPT ![g] = {}]
      /\ entity' = [entity EXCEPT ![g] = None]
      /\ toGame' = [toGame EXCEPT ![g] = << >>]
      /\ fate' = IF entity[g] = None THEN fate ELSE Mark(fate, entity[g].session, "crashed")
      /\ UNCHANGED << gateOf, handle, role, verifying, toGate, toHost >>
  BY DEF Crash, gateVars
<1>2. TypeOK
  BY DEF IInv
<1>3. entity'[g] = None /\ \A h \in Games \ {g} : entity'[h] = entity[h]
  BY <1>1, <1>2 DEF TypeOK
<1>4. \A h \in Games : /\ toGame'[h] = IF h = g THEN << >> ELSE toGame[h]
                       /\ loading'[h] = IF h = g THEN {} ELSE loading[h]
  BY <1>1, <1>2 DEF TypeOK
<1>5. toHost' = toHost
  BY <1>1
<1>6. Ages
  <2>1. ASSUME NEW s \in Sessions, Fresh(s)' PROVE Fresh(s)
    BY <1>1, <1>4, <2>1, EmptyNames DEF Fresh
  <2> QED BY <1>1, <2>1 DEF Ages
<1>7. Shrinks
  BY <1>3 DEF Shrinks
<1>8. Dark'
  <2>1. ASSUME NEW h \in Games, ~ alive'[h] PROVE entity'[h] = None /\ loading'[h] = {}
    <3>1. CASE h = g
      BY <1>3, <1>4, <3>1
    <3>2. CASE h # g
      <4>1. ~ alive[h]
        BY <1>1, <1>2, <2>1, <3>2 DEF TypeOK
      <4> QED BY <1>3, <1>4, <3>2, <4>1 DEF Dark
    <3> QED BY <3>1, <3>2
  <2> QED BY <2>1 DEF Dark
<1>9. Lone' /\ KickedOut'
  BY <1>1, <1>6, <1>7, LoneKept, KickedOutKept
<1>10. Ended'
  BY <1>1, <1>6, EndedKept
<1>11. ASSUME NEW h \in Games, NEW H \in Gates, NEW s \in Sessions PROVE Paired(h, H, s)'
  <2>1. Paired(h, H, s)
    BY DEF Pairs
  <2>2. /\ fate'[s] = "none" => fate[s] = "none"
        /\ fate'[s] = "none" => ~ Hosts(g, s)
    <3>1. CASE entity[g] = None
      BY <1>1, <3>1 DEF Hosts
    <3>2. CASE entity[g] # None
      <4>1. entity[g].session \in Sessions /\ fate \in [Sessions -> Fates]
        BY <1>2, <3>2 DEF TypeOK, Places, Fates
      <4> QED BY <1>1, <3>2, <4>1, MarkedFates DEF Hosts
    <3> QED BY <3>1, <3>2
  <2>3. CASE h # g
    BY <1>1, <1>3, <1>5, <2>1, <2>2, <2>3, PairKept
  <2>4. CASE h = g
    BY <1>1, <1>3, <2>2, <2>4, EntityGoes
  <2> QED BY <2>3, <2>4
<1> QED BY <1>8, <1>9, <1>10, <1>11 DEF Pairs

LEMMA StartPairs ==
    ASSUME IInv, JInv, NEW g \in Games, Start(g) PROVE JInv'
<1> USE DEF JInv
<1>1. /\ ~ alive[g] /\ alive' = [alive EXCEPT ![g] = TRUE]
      /\ toGate' = [toGate EXCEPT ![g] = [G \in Gates |-> << >>]]
      /\ fate' = [s \in Sessions |->
                     IF /\ fate[s] = "none"
                        /\ \E G \in Gates : \E i \in DOMAIN toGate[g][G] : toGate[g][G][i].session = s
                     THEN "crashed" ELSE fate[s]]
      /\ UNCHANGED << gateOf, handle, role, verifying, loading, entity, toGame, toHost >>
  BY DEF Start, gateVars
<1>2. TypeOK
  BY DEF IInv
<1>3. \A h \in Games, H \in Gates : toGate'[h][H] = IF h = g THEN << >> ELSE toGate[h][H]
  BY <1>1, <1>2 DEF TypeOK
<1>4. \A h \in Games, H \in Gates, K \in {Kicks, Answers} :
         Named(toGate'[h][H], K) \subseteq Named(toGate[h][H], K)
  BY <1>3, EmptyNames
<1>5. Ages /\ Shrinks
  BY <1>1 DEF Ages, Shrinks, Fresh
<1>6. Dark'
  <2>1. ASSUME NEW h \in Games, ~ alive'[h] PROVE ~ alive[h]
    BY <1>1, <1>2, <2>1 DEF TypeOK
  <2> QED BY <1>1, <2>1 DEF Dark
<1>7. Lone' /\ KickedOut' /\ Ended'
  BY <1>1, <1>4, <1>5, LoneKept, KickedOutKept, EndedKept
<1>8. ASSUME NEW h \in Games, NEW H \in Gates, NEW s \in Sessions PROVE Paired(h, H, s)'
  <2>1. Paired(h, H, s)
    BY DEF Pairs
  <2>2. fate'[s] = "none" =>
           /\ fate[s] = "none"
           /\ \A i \in DOMAIN toGate[g][H] : toGate[g][H][i].session # s
    BY <1>1
  <2>3. CASE h # g
    BY <1>1, <1>3, <2>1, <2>2, <2>3, PairKept
  <2>4. CASE h = g
    <3>1. fate'[s] = "none" => s \notin Named(toGate[g][H], Kicks) /\ s \notin Named(toGate[g][H], Acks)
      <4>1. toGate[g][H] \in Seq(Messages)
        BY <1>2 DEF TypeOK
      <4>2. DOMAIN toGate[g][H] = 1 .. Len(toGate[g][H])
        BY <4>1
      <4> QED BY <2>2, <4>2 DEF Named, Kinds
    <3>2. toGate'[g][H] = << >> /\ Undone(<< >>, s)
      BY <1>3, EmptyNames, UndoneNone
    <3> QED BY <1>1, <2>1, <2>2, <2>4, <3>1, <3>2 DEF Paired
  <2> QED BY <2>3, <2>4
<1> QED BY <1>6, <1>7, <1>8 DEF Pairs

-----------------------------------------------------------------------------
(* The theorem. *)

LEMMA NextJInv == IInv /\ JInv /\ [Next]_vars => JInv'
<1> SUFFICES ASSUME IInv, JInv, [Next]_vars PROVE JInv'
  OBVIOUS
<1>1. TypeOK /\ Opened
  BY DEF IInv
<1>2. CASE UNCHANGED vars
  <2>1. UNCHANGED << gateVars, entity, toGate, toHost, fate, alive, loading, verifying, toGame >>
    BY <1>2 DEF vars, gameVars
  <2> QED BY <1>1, <2>1, WorldPairs
<1>3. ASSUME NEW s \in Sessions,
             \/ \E G \in Gates : LoginVerify(s, G)
             \/ SessionLost(s) \/ SessionShut(s) \/ LoginOut(s)
             \/ Verified(s)
             \/ \E g \in Games : Loaded(g, s)
      PROVE  JInv'
  <2>1. CASE (\E G \in Gates : LoginVerify(s, G)) \/ SessionShut(s) \/ Verified(s)
    BY <1>1, <2>1, LoginVerifyPairs, SessionShutPairs, VerifiedPairs
  <2>2. CASE SessionLost(s) \/ LoginOut(s)
    BY <2>2, SessionLostPairs, LoginOutPairs
  <2>3. CASE \E g \in Games : Loaded(g, s)
    BY <2>3, LoadPlayerAckPairs, LoadPlayerFailPairs DEF Loaded
  <2> QED BY <1>3, <2>1, <2>2, <2>3
<1>4. ASSUME NEW g \in Games, NEW G \in Gates, GateReceives(g, G) \/ HostReceives(g, G) PROVE JInv'
  <2>1. CASE GateReceives(g, G)
    BY <2>1, KickGatePlayerPairs, LoginGameAckPairs, LoginGameFailPairs DEF GateReceives
  <2>2. CASE HostReceives(g, G)
    BY <2>2, DisconnectionPairs, DropLoginOutPairs, ToHostLostPairs DEF HostReceives
  <2> QED BY <1>4, <2>1, <2>2
<1>5. ASSUME NEW g \in Games, GameReceives(g) \/ Crash(g) \/ Start(g) PROVE JInv'
  BY <1>5, GameReceivesPairs, CrashPairs, StartPairs
<1>6. ASSUME \/ HttpKick
             \/ \E g \in Games : WorldReceives(g) \/ OnServerLostGame(g) \/ Break(g) \/ Connect(g)
      PROVE  JInv'
  BY <1>1, <1>6, WorldSteps
<1> QED BY <1>2, <1>3, <1>4, <1>5, <1>6 DEF Next

\* At rest the gate and the game agree on every login that nothing named by its
\* fate has come between, whatever the order in which kicks, answers, losses and
\* crashes of several logins of the player were handled: a role the gate keeps
\* points at the game that has the entity, and an entity has its role.
THEOREM RolesAreEntities == Spec => []RoleIsEntity
<1>1. JInv => RoleIsEntity
  <2> SUFFICES ASSUME JInv, Settled, NEW g \in Games, NEW G \in Gates, NEW s \in Sessions, fate[s] = "none"
               PROVE  role[G] = Home(g, s) <=> entity[g] = Place(G, s)
    BY DEF RoleIsEntity, Home, Place
  <2>1. Paired(g, G, s)
    BY DEF JInv, Pairs
  <2>2. toGate[g][G] = << >> /\ (alive[g] => toHost[g][G] = << >>)
    BY DEF Settled
  <2>3. entity[g] = Place(G, s) => alive[g]
    BY LoginAssumption DEF JInv, Dark, Places, Place
  <2> QED BY <2>1, <2>2, <2>3, EmptyNames DEF Paired
<1> QED BY InitIInv, NextIInv, InitJInv, NextJInv, <1>1, PTL DEF Spec
=============================================================================
