-------------------------- MODULE StreamTextProofs --------------------------
(***************************************************************************)
(* Proofs about StreamText, for every length of a sequence, every set of     *)
(* tokens and of tool calls, and texts of any length.                       *)
(***************************************************************************)
EXTENDS StreamText, SequenceLemmas

-----------------------------------------------------------------------------
(***************************************************************************)
(* The scan for whole sequences                                            *)
(***************************************************************************)
Scans == [complete : Seq(Atoms), pending : Seq(Atoms)]
Nothing == [complete |-> <<>>, pending |-> <<>>]

\* What may be pending: a sequence that lacks bytes.
Pendings ==
  {p \in Seq(Atoms) : p = <<>> \/ (p[1] = "lead" /\ Len(p) < SeqLen /\ \A i \in 1..Len(p) : p[i] \notin Markers)}

\* With the atom x a sequence that was pending is whole.
Ends(pending, x) ==
  LET more == Append(pending, x)
  IN  more[1] # "lead" \/ Len(more) = SeqLen \/ x \in Markers

\* One atom is skipped, completes what is pending, or is pending with it.
LEMMA ScanAtomCases ==
  ASSUME NEW scan \in Scans, NEW x \in Atoms
  PROVE  /\ ScanAtom(scan, x) \in Scans
         /\ scan.pending = <<>> /\ x = "cont" => ScanAtom(scan, x) = scan
         /\ ~(scan.pending = <<>> /\ x = "cont") /\ Ends(scan.pending, x) =>
              /\ ScanAtom(scan, x).complete = scan.complete \o Append(scan.pending, x)
              /\ ScanAtom(scan, x).pending = <<>>
         /\ ~(scan.pending = <<>> /\ x = "cont") /\ ~Ends(scan.pending, x) =>
              /\ ScanAtom(scan, x).complete = scan.complete
              /\ ScanAtom(scan, x).pending = Append(scan.pending, x)
<1> DEFINE more == Append(scan.pending, x)
<1>1. scan.complete \in Seq(Atoms) /\ scan.pending \in Seq(Atoms) /\ more \in Seq(Atoms)
      /\ scan.complete \o more \in Seq(Atoms) /\ <<>> \in Seq(Atoms)
  BY DEF Scans
<1>2. [scan EXCEPT !.pending = more] = [complete |-> scan.complete, pending |-> more]
  <2> HIDE DEF more
  <2> QED BY DEF Scans
<1>3. CASE scan.pending = <<>> /\ x = "cont"
  BY <1>3 DEF ScanAtom
<1>4. CASE ~(scan.pending = <<>> /\ x = "cont") /\ Ends(scan.pending, x)
  <2>1. ScanAtom(scan, x) = [complete |-> scan.complete \o more, pending |-> <<>>]
    BY <1>4 DEF ScanAtom, Ends
  <2> HIDE DEF more
  <2>2. ScanAtom(scan, x) \in Scans
    BY <1>1, <2>1 DEF Scans
  <2>3. ScanAtom(scan, x).complete = scan.complete \o more /\ ScanAtom(scan, x).pending = <<>>
    BY <2>1
  <2> QED BY <1>4, <2>2, <2>3 DEF more
<1>5. CASE ~(scan.pending = <<>> /\ x = "cont") /\ ~Ends(scan.pending, x)
  <2>1. ScanAtom(scan, x) = [complete |-> scan.complete, pending |-> more]
    BY <1>2, <1>5 DEF ScanAtom, Ends
  <2> HIDE DEF more
  <2>2. ScanAtom(scan, x) \in Scans
    BY <1>1, <2>1 DEF Scans
  <2>3. ScanAtom(scan, x).complete = scan.complete /\ ScanAtom(scan, x).pending = more
    BY <2>1
  <2> QED BY <1>5, <2>2, <2>3 DEF more
<1> QED BY <1>3, <1>4, <1>5

\* Scan is what its definition says: nothing of nothing, and one step per atom.
LEMMA ScanDef ==
  /\ Scan[<<>>].complete = <<>> /\ Scan[<<>>].pending = <<>>
  /\ \A s \in Seq(Atoms) : /\ Scan[s] \in Scans
                           /\ Scan[s].complete \in Seq(Atoms) /\ Scan[s].pending \in Seq(Atoms)
  /\ \A s \in Seq(Atoms), x \in Atoms : Scan[Append(s, x)] = ScanAtom(Scan[s], x)
<1> DEFINE g == [y \in Scans \X Atoms |-> ScanAtom(y[1], y[2])]
<1>1. g \in [Scans \X Atoms -> Scans]
  BY ScanAtomCases
<1>2. Nothing \in Scans
  BY DEF Nothing, Scans
<1>3. PICK F \in [Seq(Atoms) -> Scans] : Follows(F, Seq(Atoms), Nothing, g)
  <2> HIDE DEF g
  <2> QED BY <1>1, <1>2, SeqRecursion
<1>4. \A s \in Seq(Atoms) : s # <<>> => g[<<F[Front(s)], Last(s)>>] = ScanAtom(F[Front(s)], Last(s))
  BY FrontLast
<1>5. F = [s \in Seq(Atoms) |-> IF s = <<>> THEN Nothing ELSE ScanAtom(F[Front(s)], Last(s))]
  <2> HIDE DEF g
  <2> QED BY <1>3, <1>4 DEF Follows
<1>6. Scan = [s \in Seq(Atoms) |-> IF s = <<>> THEN Nothing ELSE ScanAtom(Scan[Front(s)], Last(s))]
  BY <1>5 DEF Scan, Nothing
<1>7. Scan[<<>>] = Nothing
  BY <1>6
<1>8. \A s \in Seq(Atoms), x \in Atoms : Scan[Append(s, x)] = ScanAtom(Scan[s], x)
  BY <1>6, FrontLastOfAppend
<1>9. \A s \in Seq(Atoms) : Scan[s] \in Scans
  <2> DEFINE S == {s \in Seq(Atoms) : Scan[s] \in Scans}
  <2>1. <<>> \in S
    BY <1>2, <1>7
  <2>2. ASSUME NEW s \in Seq(Atoms), NEW x \in Atoms, s \in S
        PROVE  Append(s, x) \in S
    <3>1. ScanAtom(Scan[s], x) \in Scans
      BY <2>2, ScanAtomCases
    <3> QED BY <1>8, <3>1
  <2>3. Seq(Atoms) \subseteq S
    <3> HIDE DEF S
    <3> QED BY <2>1, <2>2, SeqSet
  <2> QED BY <2>3
<1>10. Nothing.complete = <<>> /\ Nothing.pending = <<>>
  BY DEF Nothing
<1>11. \A scan \in Scans : scan.complete \in Seq(Atoms) /\ scan.pending \in Seq(Atoms)
  BY DEF Scans
<1> QED BY <1>7, <1>8, <1>9, <1>10, <1>11

\* The pieces of the definition of what may be pending.
LEMMA PendingsDef ==
  /\ <<>> \in Pendings
  /\ \A p \in Pendings : p \in Seq(Atoms)
  /\ \A p \in Seq(Atoms), x \in Atoms :
       Append(p, x) \in Pendings <=>
         p \in Pendings /\ ~(p = <<>> /\ x = "cont") /\ ~Ends(p, x)
<1>1. <<>> \in Seq(Atoms) /\ <<>> \in Pendings
  BY DEF Pendings
<1>2. ASSUME NEW p \in Seq(Atoms), NEW x \in Atoms
      PROVE  Append(p, x) \in Pendings <=> p \in Pendings /\ ~(p = <<>> /\ x = "cont") /\ ~Ends(p, x)
  <2> DEFINE more == Append(p, x)
             Plain(q) == \A i \in 1..Len(q) : q[i] \notin Markers
  <2>1. more \in Seq(Atoms) /\ more # <<>> /\ Len(more) = Len(p) + 1 /\ more[Len(p) + 1] = x
        /\ (\A i \in 1..Len(p) : more[i] = p[i]) /\ Len(p) \in Nat
    BY AppendProperties
  <2>2. p = <<>> => more[1] = x /\ Len(p) = 0 /\ Plain(p)
    BY <2>1
  <2>3. p # <<>> => more[1] = p[1] /\ Len(p) >= 1
    BY <2>1
  <2>4. Ends(p, x) <=> more[1] # "lead" \/ Len(p) + 1 = SeqLen \/ x \in Markers
    BY <2>1 DEF Ends
  <2>5. Plain(more) <=> x \notin Markers /\ Plain(p)
    BY <2>1
  <2> SUFFICES more \in Pendings <=> p \in Pendings /\ ~(p = <<>> /\ x = "cont") /\ ~Ends(p, x)
    OBVIOUS
  <2> HIDE DEF more
  <2>6. more \in Pendings <=> more[1] = "lead" /\ Len(p) + 1 < SeqLen /\ x \notin Markers /\ Plain(p)
    BY <2>1, <2>5 DEF Pendings
  <2>7. p \in Pendings <=> p = <<>> \/ (p[1] = "lead" /\ Len(p) < SeqLen /\ Plain(p))
    BY DEF Pendings
  <2> HIDE DEF Plain
  <2>8. SeqLen \in 2..4
    BY StreamAssumption
  <2>9. CASE p = <<>>
    BY <2>1, <2>2, <2>4, <2>6, <2>7, <2>8, <2>9
  <2>10. CASE p # <<>>
    BY <2>1, <2>3, <2>4, <2>6, <2>7, <2>8, <2>10
  <2> QED BY <2>9, <2>10
<1> QED BY <1>1, <1>2 DEF Pendings

\* What is pending lacks bytes, and is pending of itself.
LEMMA ScanPending ==
  /\ \A s \in Seq(Atoms) : Scan[s].pending \in Pendings
  /\ \A p \in Pendings : Scan[p].complete = <<>> /\ Scan[p].pending = p
<1>1. \A s \in Seq(Atoms) : Scan[s].pending \in Pendings
  <2> DEFINE S == {s \in Seq(Atoms) : Scan[s].pending \in Pendings}
  <2>1. <<>> \in S
    BY ScanDef, PendingsDef
  <2>2. ASSUME NEW s \in Seq(Atoms), NEW x \in Atoms, s \in S
        PROVE  Append(s, x) \in S
    <3>1. /\ Scan[s] \in Scans /\ Scan[s].pending \in Seq(Atoms)
          /\ Scan[Append(s, x)] = ScanAtom(Scan[s], x) /\ Scan[s].pending \in Pendings
          /\ Append(s, x) \in Seq(Atoms)
      BY <2>2, ScanDef, AppendProperties
    <3>2. CASE Scan[s].pending = <<>> /\ x = "cont"
      BY <3>1, <3>2, ScanAtomCases
    <3>3. CASE ~(Scan[s].pending = <<>> /\ x = "cont") /\ Ends(Scan[s].pending, x)
      <4>1. Scan[Append(s, x)].pending = <<>>
        BY <3>1, <3>3, ScanAtomCases
      <4> QED BY <3>1, <4>1, PendingsDef
    <3>4. CASE ~(Scan[s].pending = <<>> /\ x = "cont") /\ ~Ends(Scan[s].pending, x)
      <4>1. Scan[Append(s, x)].pending = Append(Scan[s].pending, x)
        BY <3>1, <3>4, ScanAtomCases, ZenonT(60)
      <4> QED BY <3>1, <3>4, <4>1, PendingsDef, ZenonT(60)
    <3> QED BY <3>2, <3>3, <3>4
  <2>3. Seq(Atoms) \subseteq S
    <3> HIDE DEF S
    <3> QED BY <2>1, <2>2, SeqSet
  <2> QED BY <2>3
<1>2. \A p \in Pendings : Scan[p].complete = <<>> /\ Scan[p].pending = p
  <2> DEFINE S == {s \in Seq(Atoms) : s \in Pendings => Scan[s].complete = <<>> /\ Scan[s].pending = s}
  <2>1. <<>> \in S
    BY ScanDef
  <2>2. ASSUME NEW s \in Seq(Atoms), NEW x \in Atoms, s \in S
        PROVE  Append(s, x) \in S
    <3>1. Append(s, x) \in Seq(Atoms) /\ Scan[s] \in Scans /\ Scan[Append(s, x)] = ScanAtom(Scan[s], x)
      BY ScanDef, AppendProperties
    <3>2. ASSUME Append(s, x) \in Pendings
          PROVE  Scan[Append(s, x)].complete = <<>> /\ Scan[Append(s, x)].pending = Append(s, x)
      <4>1. s \in Pendings /\ ~(s = <<>> /\ x = "cont") /\ ~Ends(s, x)
        BY <3>2, PendingsDef
      <4> QED BY <2>2, <3>1, <4>1, ScanAtomCases, ZenonT(60)
    <3> QED BY <3>1, <3>2
  <2>3. Seq(Atoms) \subseteq S
    <3> HIDE DEF S
    <3> QED BY <2>1, <2>2, SeqSet
  <2> QED BY <2>3, PendingsDef
<1> QED BY <1>1, <1>2

\* A scan that goes on from what is pending finds what the scan of all does.
LEMMA ScanSplit ==
  ASSUME NEW b \in Seq(Atoms), NEW t \in Seq(Atoms)
  PROVE  /\ Scan[b].pending \o t \in Seq(Atoms)
         /\ Scan[b \o t].complete = Scan[b].complete \o Scan[Scan[b].pending \o t].complete
         /\ Scan[b \o t].pending = Scan[Scan[b].pending \o t].pending
<1> DEFINE p == Scan[b].pending
           c == Scan[b].complete
           Splits(u) == /\ Scan[b \o u].complete = c \o Scan[p \o u].complete
                        /\ Scan[b \o u].pending = Scan[p \o u].pending
           S == {u \in Seq(Atoms) : Splits(u)}
<1>1. p \in Seq(Atoms) /\ c \in Seq(Atoms) /\ p \in Pendings
  BY ScanDef, ScanPending
<1>2. <<>> \in S
  <2>1. b \o <<>> = b /\ p \o <<>> = p /\ c \o <<>> = c
    BY <1>1
  <2>2. Scan[p].complete = <<>> /\ Scan[p].pending = p
    BY <1>1, ScanPending
  <2>3. <<>> \in Seq(Atoms)
    OBVIOUS
  <2> HIDE DEF p, c
  <2> QED BY <2>1, <2>2, <2>3 DEF p, c
<1>3. ASSUME NEW u \in Seq(Atoms), NEW x \in Atoms, u \in S
      PROVE  Append(u, x) \in S
  <2> HIDE DEF p, c
  <2> DEFINE m == Scan[b \o u]
             n == Scan[p \o u]
             d == n.complete
             q == n.pending
  <2>1. /\ b \o u \in Seq(Atoms) /\ b \o Append(u, x) = Append(b \o u, x)
        /\ p \o u \in Seq(Atoms) /\ p \o Append(u, x) = Append(p \o u, x)
        /\ Append(u, x) \in Seq(Atoms)
    BY <1>1, ConcatAppend, SMTT(40)
  <2>2. m.complete = c \o d /\ m.pending = q /\ n.complete = d /\ n.pending = q
    BY <1>3
  <2>3. /\ Scan[b \o Append(u, x)] = ScanAtom(m, x)
        /\ Scan[p \o Append(u, x)] = ScanAtom(n, x)
        /\ m \in Scans /\ n \in Scans /\ d \in Seq(Atoms) /\ q \in Seq(Atoms)
    BY <2>1, ScanDef
  <2> SUFFICES /\ ScanAtom(m, x).complete = c \o ScanAtom(n, x).complete
               /\ ScanAtom(m, x).pending = ScanAtom(n, x).pending
    BY <2>1, <2>3
  <2> HIDE DEF m, n, d, q
  <2>4. CASE q = <<>> /\ x = "cont"
    <3>1. ScanAtom(m, x) = m /\ ScanAtom(n, x) = n
      <4>1. m.pending = <<>> /\ n.pending = <<>> /\ x = "cont"
        BY <2>2, <2>4
      <4> QED BY <2>3, <4>1, ScanAtomCases
    <3> QED BY <2>2, <3>1
  <2>5. CASE ~(q = <<>> /\ x = "cont") /\ Ends(q, x)
    <3>1. /\ ScanAtom(m, x).complete = m.complete \o Append(q, x) /\ ScanAtom(m, x).pending = <<>>
          /\ ScanAtom(n, x).complete = n.complete \o Append(q, x) /\ ScanAtom(n, x).pending = <<>>
      BY <2>2, <2>3, <2>5, ScanAtomCases, ZenonT(60)
    <3>2. (c \o d) \o Append(q, x) = c \o (d \o Append(q, x))
      <4>1. Append(q, x) \in Seq(Atoms) /\ c \in Seq(Atoms) /\ d \in Seq(Atoms)
        BY <1>1, <2>3, AppendProperties
      <4> DEFINE e == Append(q, x)
      <4> HIDE DEF e
      <4>2. c \in Seq(Atoms) /\ d \in Seq(Atoms) /\ e \in Seq(Atoms)
        BY <4>1 DEF e
      <4>3. (c \o d) \o e = c \o (d \o e)
        BY <4>2, ConcatAssociative, SMTT(40)
      <4> QED BY <4>3 DEF e
    <3> QED BY <2>2, <3>1, <3>2
  <2>6. CASE ~(q = <<>> /\ x = "cont") /\ ~Ends(q, x)
    <3>1. /\ ScanAtom(m, x).complete = m.complete /\ ScanAtom(m, x).pending = Append(q, x)
          /\ ScanAtom(n, x).complete = n.complete /\ ScanAtom(n, x).pending = Append(q, x)
      BY <2>2, <2>3, <2>6, ScanAtomCases, ZenonT(60)
    <3> QED BY <2>2, <3>1
  <2> QED BY <2>4, <2>5, <2>6
<1>4. Seq(Atoms) \subseteq S
  <2> HIDE DEF S
  <2> QED BY <1>2, <1>3, SeqSet
<1>5. Splits(t)
  BY <1>4
<1>6. p \o t \in Seq(Atoms)
  BY <1>1
<1> QED BY <1>5, <1>6

\* A scan only skips atoms; one that has skipped none has the text.
LEMMA ScanConserves ==
  ASSUME NEW s \in Seq(Atoms)
  PROVE  /\ Len(Scan[s].complete) + Len(Scan[s].pending) <= Len(s)
         /\ Len(Scan[s].complete) + Len(Scan[s].pending) = Len(s) =>
              Scan[s].complete \o Scan[s].pending = s
<1> DEFINE Conserves(u) ==
             /\ Len(Scan[u].complete) + Len(Scan[u].pending) <= Len(u)
             /\ Len(Scan[u].complete) + Len(Scan[u].pending) = Len(u) =>
                  Scan[u].complete \o Scan[u].pending = u
           S == {u \in Seq(Atoms) : Conserves(u)}
<1>1. <<>> \in S
  <2>1. <<>> \in Seq(Atoms) /\ Len(<<>>) + Len(<<>>) <= Len(<<>>) /\ <<>> \o <<>> = <<>>
    OBVIOUS
  <2> QED BY <2>1, ScanDef, Zenon
<1>2. ASSUME NEW u \in Seq(Atoms), NEW x \in Atoms, u \in S
      PROVE  Append(u, x) \in S
  <2> DEFINE m == Scan[u]
             c == m.complete
             p == m.pending
             n == Scan[Append(u, x)]
  <2>1. /\ Append(u, x) \in Seq(Atoms) /\ Len(Append(u, x)) = Len(u) + 1
        /\ n = ScanAtom(m, x) /\ m \in Scans /\ c \in Seq(Atoms) /\ p \in Seq(Atoms)
    BY ScanDef, AppendProperties
  <2>2. Len(c) + Len(p) <= Len(u) /\ (Len(c) + Len(p) = Len(u) => c \o p = u)
    BY <1>2
  <2>3. c \o Append(p, x) = Append(c \o p, x) /\ Append(p, x) \in Seq(Atoms)
        /\ Len(Append(p, x)) = Len(p) + 1 /\ Len(c \o Append(p, x)) = Len(c) + Len(p) + 1
        /\ (c \o Append(p, x)) \o <<>> = c \o Append(p, x)
    <3> HIDE DEF c, p
    <3>1. Append(p, x) \in Seq(Atoms) /\ Len(Append(p, x)) = Len(p) + 1
      BY <2>1, AppendProperties
    <3>2. c \o Append(p, x) \in Seq(Atoms) /\ Len(c \o Append(p, x)) = Len(c) + Len(p) + 1
      BY <2>1, <3>1, ConcatProperties
    <3>3. (c \o Append(p, x)) \o <<>> = c \o Append(p, x)
      BY <3>2, ConcatEmptySeq
    <3> QED BY <2>1, <3>1, <3>2, <3>3, ConcatAppend
  <2> SUFFICES Conserves(Append(u, x))
    BY <2>1
  <2> HIDE DEF m, n, c, p
  <2>4. CASE p = <<>> /\ x = "cont"
    <3>1. n.complete = c /\ n.pending = p
      BY <2>1, <2>4, ScanAtomCases DEF c, p
    <3> QED BY <2>1, <2>2, <3>1 DEF n
  <2>5. CASE ~(p = <<>> /\ x = "cont") /\ Ends(p, x)
    <3>1. n.complete = c \o Append(p, x) /\ n.pending = <<>>
      BY <2>1, <2>5, ScanAtomCases DEF c, p
    <3> QED BY <2>1, <2>2, <2>3, <3>1, SMTT(40) DEF n
  <2>6. CASE ~(p = <<>> /\ x = "cont") /\ ~Ends(p, x)
    <3>1. n.complete = c /\ n.pending = Append(p, x)
      BY <2>1, <2>6, ScanAtomCases DEF c, p
    <3> QED BY <2>1, <2>2, <2>3, <3>1, SMTT(40) DEF n
  <2> QED BY <2>4, <2>5, <2>6
<1>3. Seq(Atoms) \subseteq S
  <2> HIDE DEF S
  <2> QED BY <1>1, <1>2, SeqSet
<1> QED BY <1>3

\* What a scan let through, another lets through.
LEMMA ScanAgain ==
  ASSUME NEW s \in Seq(Atoms)
  PROVE  Scan[Scan[s].complete].complete = Scan[s].complete /\ Scan[Scan[s].complete].pending = <<>>
<1> DEFINE Again(c) == Scan[c].complete = c /\ Scan[c].pending = <<>>
           S == {u \in Seq(Atoms) : Again(Scan[u].complete)}
<1>1. <<>> \in S
  BY ScanDef
<1>2. ASSUME NEW u \in Seq(Atoms), NEW x \in Atoms, u \in S
      PROVE  Append(u, x) \in S
  <2> DEFINE c == Scan[u].complete
             p == Scan[u].pending
             n == Scan[Append(u, x)]
             more == Append(p, x)
  <2>1. /\ Append(u, x) \in Seq(Atoms) /\ n = ScanAtom(Scan[u], x) /\ Scan[u] \in Scans
        /\ c \in Seq(Atoms) /\ p \in Seq(Atoms) /\ p \in Pendings /\ more \in Seq(Atoms)
    BY ScanDef, ScanPending, AppendProperties
  <2>2. Again(c)
    BY <1>2
  <2> SUFFICES Again(n.complete)
    BY <2>1
  <2>3. CASE p = <<>> /\ x = "cont"
    BY <2>1, <2>2, <2>3, ScanAtomCases
  <2>4. CASE ~(p = <<>> /\ x = "cont") /\ Ends(p, x)
    <3>1. n.complete = c \o more
      BY <2>1, <2>4, ScanAtomCases, ZenonT(60)
    <3>2. Scan[more] = ScanAtom(Scan[p], x) /\ Scan[p] \in Scans /\ Scan[p].complete = <<>> /\ Scan[p].pending = p
      BY <2>1, ScanDef, ScanPending
    <3>3. Scan[more].complete = more /\ Scan[more].pending = <<>>
      <4>1. Scan[more].complete = <<>> \o more /\ Scan[more].pending = <<>>
        BY <2>4, <3>2, ScanAtomCases, ZenonT(60)
      <4> QED BY <2>1, <4>1
    <3>4. Scan[c \o more].complete = c \o Scan[<<>> \o more].complete
          /\ Scan[c \o more].pending = Scan[<<>> \o more].pending
      <4>1. /\ Scan[c \o more].complete = Scan[c].complete \o Scan[Scan[c].pending \o more].complete
            /\ Scan[c \o more].pending = Scan[Scan[c].pending \o more].pending
        <5> HIDE DEF c, more
        <5> QED BY <2>1, ScanSplit
      <4> HIDE DEF c, more
      <4> QED BY <2>2, <4>1
    <3>5. <<>> \o more = more
      BY <2>1
    <3> HIDE DEF c, p, n, more
    <3> QED BY <3>1, <3>3, <3>4, <3>5
  <2>5. CASE ~(p = <<>> /\ x = "cont") /\ ~Ends(p, x)
    BY <2>1, <2>2, <2>5, ScanAtomCases, ZenonT(60)
  <2> QED BY <2>3, <2>4, <2>5
<1>3. Seq(Atoms) \subseteq S
  <2> HIDE DEF S
  <2> QED BY <1>1, <1>2, SeqSet
<1> QED BY <1>3

-----------------------------------------------------------------------------
(***************************************************************************)
(* Well-formed text                                                        *)
(***************************************************************************)
\* No sequence that begins in the first k atoms goes on behind them.
Closed(b, k) == \A j \in 1..k : b[j] = "lead" => j + SeqLen - 1 <= k

\* The two halves of the definition.
LEMMA WellFormedDef ==
  ASSUME NEW b, WellFormed(b)
  PROVE  /\ \A i \in DOMAIN b : b[i] = "lead" =>
              /\ i + SeqLen - 1 <= Len(b)
              /\ \A j \in i + 1 .. i + SeqLen - 1 : b[j] = "cont"
         /\ \A i \in DOMAIN b : b[i] = "cont" =>
              \E j \in i - SeqLen + 1 .. i - 1 : j > 0 /\ b[j] = "lead"
BY DEF WellFormed

\* The scan of a part of well-formed text skips nothing and cuts no sequence.
LEMMA ScanOfWellFormed ==
  ASSUME NEW b \in Seq(Atoms), WellFormed(b), NEW k \in 0..Len(b)
  PROVE  LET s == SubSeq(b, 1, k)
         IN  /\ s \in Seq(Atoms)
             /\ Scan[s].complete \o Scan[s].pending = s
             /\ Closed(b, Len(Scan[s].complete))
<1> DEFINE Pre(n) == SubSeq(b, 1, n)
           Good(s) == Scan[s].complete \o Scan[s].pending = s /\ Closed(b, Len(Scan[s].complete))
           S == {n \in Nat : n <= Len(b) => Good(Pre(n))}
<1>1. SeqLen \in 2..4 /\ Len(b) \in Nat
  BY StreamAssumption
<1>2. \A n \in 0..Len(b) : /\ Pre(n) \in Seq(Atoms) /\ Len(Pre(n)) = n
                           /\ \A i \in 1..n : Pre(n)[i] = b[i]
  OBVIOUS
<1>3. 0 \in S
  <2>1. Pre(0) = <<>>
    BY SubSeqEmpty
  <2>2. <<>> \o <<>> = <<>> /\ Closed(b, Len(<<>>))
    BY DEF Closed
  <2>3. Good(<<>>)
    BY <2>2, ScanDef, Zenon
  <2> HIDE DEF Pre, Good
  <2> QED BY <2>1, <2>3
<1>4. ASSUME NEW n \in Nat, n \in S
      PROVE  n + 1 \in S
  <2> HIDE DEF Good, Pre
  <2>1. SUFFICES ASSUME n + 1 <= Len(b)
                 PROVE  Good(Pre(n + 1))
    OBVIOUS
  <2> USE DEF Good, Pre
  <2> DEFINE s == Pre(n)
             x == b[n + 1]
             c == Scan[s].complete
             p == Scan[s].pending
             t == Scan[Append(s, x)]
  <2>2. x \in Atoms /\ s \in Seq(Atoms) /\ Len(s) = n /\ \A i \in 1..n : s[i] = b[i]
    BY <1>2, <2>1
  <2>3. Pre(n + 1) = Append(s, x)
    <3>1. SubSeq(b, 1, n + 1) = SubSeq(b, 1, n) \o <<b[n + 1]>>
      BY <2>1, SubSeqRecursiveSecond
    <3>2. Append(s, x) = s \o <<x>>
      <4> HIDE DEF s, x
      <4> QED BY <2>2, AppendIsConcat
    <3> QED BY <3>1, <3>2
  <2>4. c \o p = s /\ Closed(b, Len(c))
    <3>1. n <= Len(b)
      BY <1>1, <2>1
    <3>2. Good(s)
      <4> HIDE DEF s, Good
      <4>1. n <= Len(b) => Good(Pre(n))
        BY <1>4
      <4> QED BY <3>1, <4>1 DEF s
    <3> HIDE DEF s
    <3> QED BY <3>2
  <2>5. /\ t = ScanAtom(Scan[s], x) /\ Scan[s] \in Scans /\ p \in Pendings
        /\ c \in Seq(Atoms) /\ p \in Seq(Atoms)
    <3> HIDE DEF s, x
    <3> QED BY <2>2, ScanDef, ScanPending
  <2> SUFFICES /\ t.complete \o t.pending = Append(s, x)
               /\ Closed(b, Len(t.complete))
    BY <2>3
  <2> DEFINE more == Append(p, x)
  <2>6. /\ c \o more = Append(s, x) /\ more \in Seq(Atoms) /\ Len(more) = Len(p) + 1
        /\ (c \o more) \o <<>> = c \o more /\ Len(c \o more) = Len(c) + Len(p) + 1
        /\ Len(c) + Len(p) = n
    <3>1. c \o more = Append(c \o p, x)
      <4> HIDE DEF c, p, x
      <4> QED BY <2>2, <2>5, ConcatAppend
    <3>2. more \in Seq(Atoms) /\ Len(more) = Len(p) + 1
      <4> HIDE DEF p, x
      <4> QED BY <2>2, <2>5, AppendProperties
    <3>3. c \o more \in Seq(Atoms) /\ Len(c \o more) = Len(c) + Len(more) /\ Len(c \o p) = Len(c) + Len(p)
      <4> HIDE DEF c, p, more
      <4> QED BY <2>5, <3>2, ConcatProperties
    <3>4. (c \o more) \o <<>> = c \o more
      <4> HIDE DEF c, more
      <4> QED BY <3>3, ConcatEmptySeq
    <3> HIDE DEF s, c, p, more
    <3>5. Len(c) \in Nat /\ Len(p) \in Nat
      BY <2>5
    <3> QED BY <2>2, <2>4, <3>1, <3>2, <3>3, <3>4, <3>5
  <2>7. p # <<>> => /\ Len(p) \in 1..SeqLen - 1 /\ b[Len(c) + 1] = "lead"
    <3> HIDE DEF s, c, p
    <3>1. p # <<>> => p[1] = "lead" /\ Len(p) < SeqLen /\ Len(p) >= 1
      BY <2>5 DEF Pendings
    <3>2. p # <<>> => s[Len(c) + 1] = p[1]
      <4>1. p # <<>> => (c \o p)[Len(c) + 1] = p[1]
        BY <2>5, <3>1, ConcatProperties
      <4> QED BY <2>4, <4>1
    <3>3. Len(c) \in Nat /\ Len(p) \in Nat
      BY <2>5
    <3> QED BY <1>1, <2>2, <2>6, <3>1, <3>2, <3>3
  <2> HIDE DEF s, x, c, p, t, more
  <2>8. CASE p = <<>> /\ x = "cont"
    <3>1. n + 1 \in DOMAIN b /\ b[n + 1] = "cont"
      BY <2>1, <2>8 DEF x
    <3>2. PICK j \in n + 1 - SeqLen + 1 .. n : j > 0 /\ b[j] = "lead"
      BY <1>1, <3>1, WellFormedDef
    <3>3. Len(c) = n
      BY <2>5, <2>6, <2>8
    <3>4. j + SeqLen - 1 <= n
      BY <1>1, <2>4, <3>2, <3>3 DEF Closed
    <3> QED BY <1>1, <3>2, <3>4
  <2>9. CASE ~(p = <<>> /\ x = "cont") /\ Ends(p, x)
    <3>1. t.complete = c \o more /\ t.pending = <<>>
      BY <2>2, <2>5, <2>9, ScanAtomCases DEF c, p, more
    <3>2. Len(t.complete) = n + 1
      BY <2>5, <2>6, <3>1
    <3>3. ASSUME NEW j \in 1..n + 1, b[j] = "lead"
          PROVE  j + SeqLen - 1 <= n + 1
      <4>1. CASE j <= Len(c)
        BY <1>1, <2>4, <2>5, <2>6, <3>3, <4>1 DEF Closed
      <4>2. CASE j > Len(c) /\ p = <<>>
        <5>1. j = n + 1 /\ x = "lead"
          BY <2>5, <2>6, <3>3, <4>2 DEF x
        <5>2. ~Ends(p, x)
          BY <1>1, <4>2, <5>1 DEF Ends, Markers
        <5> QED BY <2>9, <5>2
      <4>3. CASE j > Len(c) /\ p # <<>>
        <5> DEFINE f == Len(c) + 1
        <5>1. f \in DOMAIN b /\ b[f] = "lead" /\ f \in Nat /\ Len(p) \in 1..SeqLen - 1
          BY <2>1, <2>5, <2>6, <2>7, <4>3
        <5>2. \A i \in f + 1 .. f + SeqLen - 1 : b[i] = "cont"
          <6> HIDE DEF f
          <6> QED BY <5>1, WellFormedDef
        <5>3. n + 1 \in f + 1 .. f + SeqLen - 1
          BY <1>1, <2>6, <5>1
        <5>4. x = "cont"
          BY <5>2, <5>3 DEF x
        <5>5. more[1] = "lead"
          BY <2>2, <2>5, <4>3 DEF more, Pendings
        <5>6. Len(p) + 1 = SeqLen
          BY <2>6, <2>9, <5>4, <5>5 DEF Ends, Markers, more
        <5>7. j = f
          <6>1. j \in Nat /\ j <= f + SeqLen - 1 /\ f <= j
            BY <1>1, <2>5, <2>6, <3>3, <4>3, <5>6
          <6> HIDE DEF f
          <6>2. f # j => j \in f + 1 .. f + SeqLen - 1
            BY <1>1, <5>1, <6>1
          <6>3. f # j => b[j] = "cont"
            BY <5>2, <6>2
          <6> QED BY <3>3, <6>3
        <5> QED BY <1>1, <2>6, <5>1, <5>6, <5>7
      <4> QED BY <2>5, <4>1, <4>2, <4>3
    <3> QED BY <2>6, <3>1, <3>2, <3>3 DEF Closed
  <2>10. CASE ~(p = <<>> /\ x = "cont") /\ ~Ends(p, x)
    <3>1. t.complete = c /\ t.pending = more
      BY <2>2, <2>5, <2>10, ScanAtomCases DEF c, p, more
    <3> QED BY <2>4, <2>6, <3>1
  <2> QED BY <2>8, <2>9, <2>10
<1>5. Nat \subseteq S
  <2> HIDE DEF S
  <2> QED BY <1>3, <1>4, NatSet
<1>6. Good(Pre(k))
  <2> HIDE DEF Good, Pre
  <2>1. k \in S /\ k <= Len(b)
    BY <1>1, <1>5
  <2> QED BY <2>1
<1> QED BY <1>2, <1>6

\* The scan of well-formed text lets all of it through.
LEMMA WholeIfWellFormed ==
  ASSUME NEW b \in Seq(Atoms), WellFormed(b)
  PROVE  Scan[b].complete = b /\ Scan[b].pending = <<>>
<1> DEFINE c == Scan[b].complete
           p == Scan[b].pending
<1>1. SeqLen \in 2..4 /\ Len(b) \in 0..Len(b) /\ Len(b) \in Nat
  BY StreamAssumption
<1>2. SubSeq(b, 1, Len(b)) = b
  BY SubSeqFull
<1>3. c \o p = b /\ Closed(b, Len(c))
  BY <1>1, <1>2, ScanOfWellFormed
<1>4. c \in Seq(Atoms) /\ p \in Seq(Atoms) /\ p \in Pendings
  BY ScanDef, ScanPending
<1> SUFFICES c = b /\ p = <<>>
  OBVIOUS
<1> HIDE DEF c, p
<1>5. Len(c) \in Nat /\ Len(p) \in Nat /\ Len(b) = Len(c) + Len(p) /\ c \o <<>> = c
  BY <1>3, <1>4
<1>6. ASSUME p # <<>> PROVE FALSE
  <2>1. p[1] = "lead" /\ Len(p) < SeqLen /\ Len(p) >= 1
    BY <1>4, <1>6 DEF Pendings
  <2>2. (c \o p)[Len(c) + 1] = p[1]
    BY <1>4, <1>5, <2>1
  <2>3. Len(c) + 1 \in DOMAIN b /\ b[Len(c) + 1] = "lead"
    BY <1>3, <1>5, <2>1, <2>2
  <2>4. Len(c) + 1 + SeqLen - 1 <= Len(b)
    BY <2>3, WellFormedDef
  <2> QED BY <1>1, <1>5, <2>1, <2>4
<1> QED BY <1>3, <1>5, <1>6

\* Well-formed text falls into well-formed parts where the scan has no atom left.
LEMMA WellFormedParts ==
  ASSUME NEW b \in Seq(Atoms), NEW c \in Seq(Atoms),
         Scan[b].complete = b, WellFormed(b \o c)
  PROVE  WellFormed(b) /\ WellFormed(c)
<1> DEFINE d == b \o c
           n == Len(b)
<1>1. /\ d \in Seq(Atoms) /\ n \in Nat /\ Len(c) \in Nat /\ Len(d) = n + Len(c)
      /\ (\A i \in 1..n : d[i] = b[i]) /\ (\A i \in 1..Len(c) : d[n + i] = c[i])
  OBVIOUS
<1>2. SubSeq(d, 1, n) = b
  BY SubSeqOfConcat1, SubSeqFull
<1>3. SeqLen \in 2..4
  BY StreamAssumption
<1>4. WellFormed(d)
  OBVIOUS
<1> HIDE DEF d, n
<1>5. Closed(d, n)
  <2>1. n \in 0..Len(d) /\ d \in Seq(Atoms)
    BY <1>1
  <2>2. Closed(d, Len(Scan[SubSeq(d, 1, n)].complete))
    BY <1>4, <2>1, ScanOfWellFormed
  <2> QED BY <1>2, <2>2 DEF n
<1>6. Len(b) = n /\ DOMAIN b = 1..n /\ DOMAIN c = 1..Len(c) /\ DOMAIN d = 1..n + Len(c)
  BY <1>1 DEF n
<1>7. ASSUME NEW i \in 1..n + Len(c), d[i] = "lead"
      PROVE  i + SeqLen - 1 <= n + Len(c) /\ \A j \in i + 1 .. i + SeqLen - 1 : d[j] = "cont"
  BY <1>1, <1>4, <1>6, <1>7, WellFormedDef
<1>8. ASSUME NEW i \in 1..n + Len(c), d[i] = "cont"
      PROVE  \E j \in i - SeqLen + 1 .. i - 1 : j > 0 /\ d[j] = "lead"
  BY <1>4, <1>6, <1>8, WellFormedDef
<1>9. WellFormed(b)
  <2>1. ASSUME NEW i \in 1..n, b[i] = "lead"
        PROVE  i + SeqLen - 1 <= n /\ \A j \in i + 1 .. i + SeqLen - 1 : b[j] = "cont"
    <3>1. d[i] = "lead" /\ i \in 1..n + Len(c)
      BY <1>1, <2>1
    <3>2. i + SeqLen - 1 <= n
      BY <1>5, <3>1 DEF Closed
    <3> QED BY <1>1, <1>3, <1>7, <3>1, <3>2
  <2>2. ASSUME NEW i \in 1..n, b[i] = "cont"
        PROVE  \E j \in i - SeqLen + 1 .. i - 1 : j > 0 /\ b[j] = "lead"
    <3>1. d[i] = "cont" /\ i \in 1..n + Len(c)
      BY <1>1, <2>2
    <3>2. PICK j \in i - SeqLen + 1 .. i - 1 : j > 0 /\ d[j] = "lead"
      BY <1>8, <3>1
    <3>3. b[j] = "lead"
      BY <1>1, <1>3, <3>2
    <3> QED BY <3>2, <3>3
  <2> QED BY <1>6, <2>1, <2>2 DEF WellFormed
<1>10. WellFormed(c)
  <2>1. ASSUME NEW i \in 1..Len(c), c[i] = "lead"
        PROVE  i + SeqLen - 1 <= Len(c) /\ \A j \in i + 1 .. i + SeqLen - 1 : c[j] = "cont"
    <3>1. d[n + i] = "lead" /\ n + i \in 1..n + Len(c)
      BY <1>1, <2>1
    <3>2. n + i + SeqLen - 1 <= n + Len(c) /\ \A j \in n + i + 1 .. n + i + SeqLen - 1 : d[j] = "cont"
      BY <1>7, <3>1
    <3>3. i + SeqLen - 1 <= Len(c)
      BY <1>1, <1>3, <3>2
    <3>4. ASSUME NEW j \in i + 1 .. i + SeqLen - 1
          PROVE  c[j] = "cont"
      <4>1. n + j \in n + i + 1 .. n + i + SeqLen - 1 /\ j \in 1..Len(c)
        BY <1>1, <1>3, <3>3
      <4> QED BY <1>1, <3>2, <4>1
    <3> QED BY <3>3, <3>4
  <2>2. ASSUME NEW i \in 1..Len(c), c[i] = "cont"
        PROVE  \E j \in i - SeqLen + 1 .. i - 1 : j > 0 /\ c[j] = "lead"
    <3> DEFINE k == n + i
    <3>1. d[k] = "cont" /\ k \in 1..n + Len(c) /\ k = n + i
      <4>1. d[k] = c[i] /\ k \in 1..n + Len(c)
        BY <1>1
      <4> QED BY <2>2, <4>1
    <3> HIDE DEF k
    <3>2. PICK j \in k - SeqLen + 1 .. k - 1 : j > 0 /\ d[j] = "lead"
      BY <1>8, <3>1
    <3>3. j > n
      BY <1>1, <1>3, <1>5, <3>1, <3>2, SMTT(40) DEF Closed
    <3>4. j - n \in i - SeqLen + 1 .. i - 1 /\ j - n > 0 /\ j - n \in 1..Len(c) /\ n + (j - n) = j
      BY <1>1, <1>3, <3>1, <3>2, <3>3
    <3>5. c[j - n] = "lead"
      BY <1>1, <3>2, <3>4
    <3> QED BY <3>4, <3>5
  <2> QED BY <1>6, <2>1, <2>2 DEF WellFormed
<1> QED BY <1>9, <1>10

\* A text is valid, but for a last sequence it may end inside.
Valid(b) == b = Scan[b].complete \o Scan[b].pending /\ WellFormed(Scan[b].complete)

\* Of a valid text each part is valid, and each chunk of it well-formed.
LEMMA ValidParts ==
  ASSUME NEW b \in Seq(Atoms), NEW t \in Seq(Atoms), Valid(b \o t)
  PROVE  Valid(b) /\ WellFormed(Scan[Scan[b].pending \o t].complete)
<1> DEFINE c == Scan[b].complete
           p == Scan[b].pending
           e == Scan[p \o t].complete
           q == Scan[p \o t].pending
<1>1. c \in Seq(Atoms) /\ p \in Seq(Atoms) /\ p \o t \in Seq(Atoms) /\ b \o t \in Seq(Atoms)
  BY ScanDef
<1>2. e \in Seq(Atoms) /\ q \in Seq(Atoms)
  <2> HIDE DEF p
  <2> QED BY <1>1, ScanDef
<1>3. Scan[b \o t].complete = c \o e /\ Scan[b \o t].pending = q
  BY ScanSplit
<1>4. b \o t = (c \o e) \o q /\ WellFormed(c \o e)
  BY <1>3 DEF Valid
<1>5. Scan[c].complete = c
  BY ScanAgain
<1>6. Len(c) + Len(p) <= Len(b) /\ (Len(c) + Len(p) = Len(b) => c \o p = b)
  BY ScanConserves
<1>7. Len(e) + Len(q) <= Len(p \o t)
  <2> HIDE DEF p
  <2> QED BY <1>1, ScanConserves
<1> SUFFICES b = c \o p /\ WellFormed(c) /\ WellFormed(e)
  BY DEF Valid
<1> HIDE DEF c, p, e, q
<1>8. WellFormed(c) /\ WellFormed(e)
  BY <1>1, <1>2, <1>4, <1>5, WellFormedParts
<1>9. Len(b \o t) = Len(b) + Len(t) /\ Len(p \o t) = Len(p) + Len(t) /\ Len((c \o e) \o q) = Len(c) + Len(e) + Len(q)
      /\ {Len(b), Len(t), Len(c), Len(p), Len(e), Len(q)} \subseteq Nat
  BY <1>1, <1>2
<1>10. Len(c) + Len(p) = Len(b)
  BY <1>4, <1>6, <1>7, <1>9
<1> QED BY <1>6, <1>8, <1>10

\* Well-formed text is valid.
LEMMA ValidIfWellFormed ==
  ASSUME NEW b \in Seq(Atoms), WellFormed(b)
  PROVE  Valid(b)
<1>1. b \o <<>> = b
  OBVIOUS
<1> QED BY <1>1, WholeIfWellFormed DEF Valid

-----------------------------------------------------------------------------
(***************************************************************************)
(* What an answer says                                                     *)
(***************************************************************************)
Modes == {"content", "reasoning"}
Words == Atoms \cup {"[Error parsing tool call]"}
Events == {"content", "reasoning", "call"} \X Words
Readers == [inTool : BOOLEAN, mode : Modes, tool : Seq(Atoms), sent : Seq(Events)]
Plain == Seq(Atoms \ Markers)

\* Plain text is text.
LEMMA PlainText == \A s \in Plain : s \in Seq(Atoms) /\ \A i \in 1..Len(s) : s[i] \in Atoms \ Markers
BY SeqMonotonic, ElementOfSeq DEF Plain

\* To tag a text is to tag its atoms.
LEMMA TaggedText ==
  ASSUME NEW type \in {"content", "reasoning", "call"}, NEW s \in Seq(Atoms)
  PROVE  /\ Tagged(type, s) \in Seq(Events)
         /\ Len(Tagged(type, s)) = Len(s)
         /\ DOMAIN Tagged(type, s) = 1..Len(s)
         /\ \A i \in 1..Len(s) : Tagged(type, s)[i] = <<type, s[i]>> /\ Tagged(type, s)[i][2] = s[i]
         /\ s = <<>> => Tagged(type, s) = <<>>
         /\ \A x \in Atoms : Tagged(type, Append(s, x)) = Append(Tagged(type, s), <<type, x>>)
         /\ \A t \in Seq(Atoms) : Tagged(type, s \o t) = Tagged(type, s) \o Tagged(type, t)
<1>1. ASSUME NEW u \in Seq(Atoms)
      PROVE  /\ Tagged(type, u) \in Seq(Events)
             /\ Len(Tagged(type, u)) = Len(u)
             /\ DOMAIN Tagged(type, u) = 1..Len(u)
             /\ \A i \in 1..Len(u) : Tagged(type, u)[i] = <<type, u[i]>> /\ Tagged(type, u)[i][2] = u[i]
  <2>1. Len(u) \in Nat /\ DOMAIN u = 1..Len(u) /\ \A i \in 1..Len(u) : u[i] \in Atoms
    OBVIOUS
  <2>2. \A i \in 1..Len(u) : <<type, u[i]>> \in Events
    BY <2>1 DEF Events, Words
  <2>3. Tagged(type, u) = [i \in 1..Len(u) |-> <<type, u[i]>>]
    BY <2>1 DEF Tagged
  <2> HIDE DEF Events
  <2> QED BY <2>1, <2>2, <2>3
<1>2. s = <<>> => Tagged(type, s) = <<>>
  <2>1. Tagged(type, s) \in Seq(Events) /\ Len(Tagged(type, s)) = Len(s)
    BY <1>1
  <2>2. s = <<>> => Len(s) = 0
    OBVIOUS
  <2> HIDE DEF Events
  <2> QED BY <2>1, <2>2, EmptySeq
<1>3. ASSUME NEW x \in Atoms
      PROVE  Tagged(type, Append(s, x)) = Append(Tagged(type, s), <<type, x>>)
  <2> DEFINE l == Tagged(type, Append(s, x))
             m == Tagged(type, s)
             e == <<type, x>>
             a == Append(s, x)
  <2>1. a \in Seq(Atoms) /\ Len(a) = Len(s) + 1 /\ (\A i \in 1..Len(s) : a[i] = s[i]) /\ a[Len(s) + 1] = x
    BY AppendProperties
  <2>2. /\ l \in Seq(Events) /\ Len(l) = Len(a)
        /\ (\A i \in 1..Len(a) : l[i] = <<type, a[i]>>)
    BY <1>1, <2>1
  <2>3. m \in Seq(Events) /\ Len(m) = Len(s) /\ (\A i \in 1..Len(s) : m[i] = <<type, s[i]>>)
    BY <1>1
  <2>4. e \in Events
    BY DEF Events, Words
  <2> SUFFICES l = Append(m, e)
    OBVIOUS
  <2> HIDE DEF l, m, a, Events
  <2>5. /\ Append(m, e) \in Seq(Events) /\ Len(Append(m, e)) = Len(m) + 1
        /\ (\A i \in 1..Len(m) : Append(m, e)[i] = m[i]) /\ Append(m, e)[Len(m) + 1] = e
    <3> HIDE DEF e
    <3> QED BY <2>3, <2>4, AppendProperties
  <2>6. \A i \in 1..Len(l) : l[i] = Append(m, e)[i]
    <3>1. ASSUME NEW i \in 1..Len(s) PROVE l[i] = Append(m, e)[i]
      <4>1. l[i] = <<type, a[i]>> /\ a[i] = s[i]
        BY <2>1, <2>2
      <4>2. Append(m, e)[i] = m[i] /\ m[i] = <<type, s[i]>>
        BY <2>3, <2>5
      <4> QED BY <4>1, <4>2
    <3>2. l[Len(s) + 1] = <<type, a[Len(s) + 1]>>
      BY <2>1, <2>2
    <3>3. l[Len(s) + 1] = e /\ Append(m, e)[Len(s) + 1] = e
      BY <2>1, <2>3, <2>5, <3>2
    <3> HIDE DEF e
    <3>4. Len(l) = Len(s) + 1 /\ Len(s) \in Nat
      BY <2>1, <2>2
    <3>5. \A i \in 1..Len(l) : i \in 1..Len(s) \/ i = Len(s) + 1
      BY <3>4
    <3> QED BY <3>1, <3>3, <3>5
  <2> HIDE DEF e
  <2> QED BY <2>1, <2>2, <2>3, <2>5, <2>6, SeqEqual
<1>4. ASSUME NEW t \in Seq(Atoms)
      PROVE  Tagged(type, s \o t) = Tagged(type, s) \o Tagged(type, t)
  <2> DEFINE l == Tagged(type, s \o t)
             m == Tagged(type, s)
             n == Tagged(type, t)
             a == s \o t
  <2>1. /\ a \in Seq(Atoms) /\ Len(a) = Len(s) + Len(t) /\ Len(s) \in Nat /\ Len(t) \in Nat
        /\ \A i \in 1..Len(a) : a[i] = IF i <= Len(s) THEN s[i] ELSE t[i - Len(s)]
    BY ConcatProperties
  <2>2. /\ l \in Seq(Events) /\ Len(l) = Len(a)
        /\ (\A i \in 1..Len(a) : l[i] = <<type, a[i]>>)
    BY <1>1, <2>1
  <2>3. m \in Seq(Events) /\ Len(m) = Len(s) /\ (\A i \in 1..Len(s) : m[i] = <<type, s[i]>>)
    BY <1>1
  <2>4. n \in Seq(Events) /\ Len(n) = Len(t) /\ (\A i \in 1..Len(t) : n[i] = <<type, t[i]>>)
    BY <1>1
  <2> SUFFICES l = m \o n
    OBVIOUS
  <2> HIDE DEF l, m, n, a, Events
  <2>5. /\ m \o n \in Seq(Events) /\ Len(m \o n) = Len(m) + Len(n)
        /\ \A i \in 1..Len(m) + Len(n) : (m \o n)[i] = IF i <= Len(m) THEN m[i] ELSE n[i - Len(m)]
    <3>1. m \in Seq(Events) /\ n \in Seq(Events)
      BY <2>3, <2>4
    <3> QED BY <3>1, ConcatProperties
  <2>6. ASSUME NEW i \in 1..Len(l)
        PROVE  l[i] = (m \o n)[i]
    <3>1. i \in 1..Len(a) /\ Len(a) = Len(s) + Len(t) /\ i \in 1..Len(m) + Len(n)
      BY <2>1, <2>2, <2>3, <2>4
    <3>2. CASE i <= Len(s)
      <4>1. l[i] = <<type, s[i]>>
        BY <2>1, <2>2, <3>1, <3>2
      <4>2. (m \o n)[i] = m[i] /\ m[i] = <<type, s[i]>>
        BY <2>3, <2>5, <3>1, <3>2
      <4> QED BY <4>1, <4>2
    <3>3. CASE ~(i <= Len(s))
      <4>1. l[i] = <<type, t[i - Len(s)]>> /\ i - Len(s) \in 1..Len(t)
        BY <2>1, <2>2, <3>1, <3>3
      <4>2. (m \o n)[i] = n[i - Len(s)]
        BY <2>3, <2>5, <3>1, <3>3
      <4> QED BY <2>4, <4>1, <4>2
    <3> QED BY <3>2, <3>3
  <2> QED BY <2>1, <2>2, <2>3, <2>4, <2>5, <2>6, SeqEqual
<1> QED BY <1>1, <1>2, <1>3, <1>4

\* A call is text, or the report that it is none; either can be dumped.
LEMMA CallText ==
  ASSUME NEW body \in Seq(Atoms)
  PROVE  CallEvent(body) \in Seq(Events) /\ Dumps(CallEvent(body))
<1>1. CASE body \in ToolCalls
  <2> DEFINE b == Append(body, "</tool_call>")
  <2>1. /\ b \in Seq(Atoms) /\ Len(b) = Len(body) + 1 /\ b[Len(b)] = "</tool_call>"
        /\ \A i \in 1..Len(body) : b[i] = body[i]
    BY AppendProperties DEF Atoms, Markers
  <2>2. CallEvent(body) = Tagged("call", b)
    BY <1>1 DEF CallEvent
  <2>3. WellFormed(body) /\ SeqLen \in 2..4 /\ DOMAIN body = 1..Len(body) /\ Len(body) \in Nat
    BY <1>1, StreamAssumption
  <2> HIDE DEF b
  <2>4. /\ Tagged("call", b) \in Seq(Events) /\ DOMAIN Tagged("call", b) = 1..Len(b)
        /\ \A i \in 1..Len(b) : Tagged("call", b)[i][2] = b[i]
    BY <2>1, TaggedText
  <2> DEFINE w == [i \in DOMAIN Tagged("call", b) |-> Tagged("call", b)[i][2]]
  <2>5. w = b
    BY <2>1, <2>4
  <2>6. WellFormed(b)
    <3>1. ASSUME NEW i \in 1..Len(b), b[i] = "lead"
          PROVE  i + SeqLen - 1 <= Len(b) /\ \A j \in i + 1 .. i + SeqLen - 1 : b[j] = "cont"
      <4>1. i \in 1..Len(body) /\ body[i] = "lead"
        BY <2>1, <2>3, <3>1
      <4>2. i + SeqLen - 1 <= Len(body) /\ \A j \in i + 1 .. i + SeqLen - 1 : body[j] = "cont"
        BY <2>3, <4>1, WellFormedDef
      <4> QED BY <2>1, <2>3, <4>1, <4>2
    <3>2. ASSUME NEW i \in 1..Len(b), b[i] = "cont"
          PROVE  \E j \in i - SeqLen + 1 .. i - 1 : j > 0 /\ b[j] = "lead"
      <4>1. i \in 1..Len(body) /\ body[i] = "cont"
        BY <2>1, <2>3, <3>2
      <4>2. PICK j \in i - SeqLen + 1 .. i - 1 : j > 0 /\ body[j] = "lead"
        BY <2>3, <4>1, WellFormedDef
      <4> QED BY <2>1, <2>3, <4>1, <4>2
    <3>3. DOMAIN b = 1..Len(b)
      BY <2>1
    <3> QED BY <3>1, <3>2, <3>3 DEF WellFormed
  <2> QED BY <2>2, <2>4, <2>5, <2>6 DEF Dumps
<1>2. CASE body \notin ToolCalls
  <2> DEFINE e == <<"content", "[Error parsing tool call]">>
  <2>1. CallEvent(body) = <<e>> /\ e \in Events
    BY <1>2 DEF CallEvent, Events, Words
  <2>2. CallEvent(body) \in Seq(Events) /\ DOMAIN CallEvent(body) = {1} /\ CallEvent(body)[1] = e
    <3> HIDE DEF e
    <3> QED BY <2>1
  <2>3. e[2] = "[Error parsing tool call]"
    OBVIOUS
  <2> HIDE DEF e
  <2> DEFINE w == [i \in DOMAIN CallEvent(body) |-> CallEvent(body)[i][2]]
  <2>4. DOMAIN w = {1} /\ w[1] = "[Error parsing tool call]"
    BY <2>2, <2>3
  <2>5. WellFormed(w)
    <3> HIDE DEF w
    <3> QED BY <2>4 DEF WellFormed
  <2> QED BY <2>2, <2>5 DEF Dumps
<1> QED BY <1>1, <1>2

\* An event of tagged text can be dumped when the text is well-formed, and no event always.
LEMMA DumpsText ==
  ASSUME NEW type \in {"content", "reasoning", "call"}, NEW s \in Seq(Atoms)
  PROVE  (Dumps(Tagged(type, s)) <=> WellFormed(s)) /\ Dumps(<<>>)
<1>1. [i \in DOMAIN Tagged(type, s) |-> Tagged(type, s)[i][2]] = s
  <2>1. DOMAIN Tagged(type, s) = 1..Len(s) /\ \A i \in 1..Len(s) : Tagged(type, s)[i][2] = s[i]
    BY TaggedText
  <2>2. DOMAIN s = 1..Len(s) /\ s = [i \in 1..Len(s) |-> s[i]]
    OBVIOUS
  <2> QED BY <2>1, <2>2
<1>2. Dumps(<<>>)
  BY DEF Dumps, WellFormed
<1> QED BY <1>1, <1>2 DEF Dumps

\* What one atom more says, field by field.
LEMMA SaidCases ==
  ASSUME NEW r \in Readers, NEW x \in Atoms
  PROVE  /\ Said(r, x) \in Readers
         /\ r.inTool /\ x = "</tool_call>" =>
              /\ ~Said(r, x).inTool /\ Said(r, x).mode = r.mode /\ Said(r, x).tool = r.tool
              /\ Said(r, x).sent = r.sent \o CallEvent(r.tool)
         /\ r.inTool /\ x # "</tool_call>" =>
              /\ Said(r, x).inTool /\ Said(r, x).mode = r.mode /\ Said(r, x).tool = Append(r.tool, x)
              /\ Said(r, x).sent = r.sent
         /\ ~r.inTool /\ x = "<tool_call>" =>
              /\ Said(r, x).inTool /\ Said(r, x).mode = r.mode /\ Said(r, x).tool = <<>>
              /\ Said(r, x).sent = r.sent
         /\ ~r.inTool /\ x # "<tool_call>" /\ x = EndOf(r.mode) =>
              /\ ~Said(r, x).inTool /\ Said(r, x).mode = Other(r.mode)
              /\ Said(r, x).sent = r.sent
         /\ ~r.inTool /\ x # "<tool_call>" /\ x # EndOf(r.mode) =>
              /\ ~Said(r, x).inTool /\ Said(r, x).mode = r.mode
              /\ Said(r, x).sent = Append(r.sent, <<r.mode, x>>)
<1> DEFINE e == <<r.mode, x>>
           call == CallEvent(r.tool)
           other == Other(r.mode)
           nil == <<>>
           grown == Append(r.tool, x)
           n == Said(r, x)
<1>1. /\ r.inTool \in BOOLEAN /\ r.mode \in Modes /\ r.tool \in Seq(Atoms) /\ r.sent \in Seq(Events)
      /\ r = [inTool |-> r.inTool, mode |-> r.mode, tool |-> r.tool, sent |-> r.sent]
  BY DEF Readers
<1>2. e \in Events /\ call \in Seq(Events) /\ other \in Modes
  BY <1>1, CallText DEF Events, Words, Modes, Other
<1> HIDE DEF e, call, other, nil, Events
<1>3. r.sent \o call \in Seq(Events) /\ Append(r.sent, e) \in Seq(Events) /\ grown \in Seq(Atoms)
      /\ nil \in Seq(Atoms)
  BY <1>1, <1>2 DEF nil
<1> HIDE DEF grown
<1>4. CASE r.inTool /\ x = "</tool_call>"
  <2>1. n = [inTool |-> FALSE, mode |-> r.mode, tool |-> r.tool, sent |-> r.sent \o call]
    BY <1>1, <1>4 DEF Said, call
  <2>2. n \in Readers
    BY <1>1, <1>2, <1>3, <2>1 DEF Readers
  <2>3. n.inTool = FALSE /\ n.mode = r.mode /\ n.tool = r.tool /\ n.sent = r.sent \o call
    BY <2>1
  <2> HIDE DEF n
  <2> QED BY <1>1, <1>4, <2>2, <2>3 DEF n, call
<1>5. CASE r.inTool /\ x # "</tool_call>"
  <2>1. n = [inTool |-> TRUE, mode |-> r.mode, tool |-> grown, sent |-> r.sent]
    BY <1>1, <1>5 DEF Said, grown
  <2>2. n \in Readers
    BY <1>1, <1>2, <1>3, <2>1 DEF Readers
  <2>3. n.inTool = TRUE /\ n.mode = r.mode /\ n.tool = grown /\ n.sent = r.sent
    BY <2>1
  <2> HIDE DEF n
  <2> QED BY <1>1, <1>5, <2>2, <2>3 DEF n, grown
<1>6. CASE ~r.inTool /\ x = "<tool_call>"
  <2>1. n = [inTool |-> TRUE, mode |-> r.mode, tool |-> nil, sent |-> r.sent]
    BY <1>1, <1>6 DEF Said, EndOf, nil
  <2>2. n \in Readers
    BY <1>1, <1>2, <1>3, <2>1 DEF Readers
  <2>3. n.inTool = TRUE /\ n.mode = r.mode /\ n.tool = nil /\ n.sent = r.sent
    BY <2>1
  <2> HIDE DEF n
  <2> QED BY <1>1, <1>6, <2>2, <2>3 DEF n, nil
<1>7. CASE ~r.inTool /\ x # "<tool_call>" /\ x = EndOf(r.mode)
  <2>1. n = [inTool |-> FALSE, mode |-> other, tool |-> r.tool, sent |-> r.sent]
    BY <1>1, <1>7 DEF Said, other
  <2>2. n \in Readers
    BY <1>1, <1>2, <1>3, <2>1 DEF Readers
  <2>3. n.inTool = FALSE /\ n.mode = other /\ n.tool = r.tool /\ n.sent = r.sent
    BY <2>1
  <2> HIDE DEF n
  <2> QED BY <1>1, <1>7, <2>2, <2>3 DEF n, other
<1>8. CASE ~r.inTool /\ x # "<tool_call>" /\ x # EndOf(r.mode)
  <2>1. n = [inTool |-> FALSE, mode |-> r.mode, tool |-> r.tool, sent |-> Append(r.sent, e)]
    BY <1>1, <1>8 DEF Said, e
  <2>2. n \in Readers
    BY <1>1, <1>2, <1>3, <2>1 DEF Readers
  <2>3. n.inTool = FALSE /\ n.mode = r.mode /\ n.tool = r.tool /\ n.sent = Append(r.sent, e)
    BY <2>1
  <2> HIDE DEF n
  <2> QED BY <1>1, <1>8, <2>2, <2>3 DEF n, e
<1> QED BY <1>1, <1>4, <1>5, <1>6, <1>7, <1>8

\* Reader is what its definition says.
LEMMA ReaderDef ==
  /\ ~Reader[<<>>].inTool /\ Reader[<<>>].mode = "content" /\ Reader[<<>>].sent = <<>>
  /\ \A s \in Seq(Atoms) : Reader[s] \in Readers
  /\ \A s \in Seq(Atoms), x \in Atoms : Reader[Append(s, x)] = Said(Reader[s], x)
<1> DEFINE g == [y \in Readers \X Atoms |-> Said(y[1], y[2])]
           start == [inTool |-> FALSE, mode |-> "content", tool |-> <<>>, sent |-> <<>>]
<1>1. g \in [Readers \X Atoms -> Readers]
  BY SaidCases
<1>2. start \in Readers
  BY DEF Readers, Modes
<1>3. start.inTool = FALSE /\ start.mode = "content" /\ start.sent = <<>>
  OBVIOUS
<1> HIDE DEF start
<1>4. PICK F \in [Seq(Atoms) -> Readers] : Follows(F, Seq(Atoms), start, g)
  <2> HIDE DEF g
  <2> QED BY <1>1, <1>2, SeqRecursion
<1>5. \A s \in Seq(Atoms) : s # <<>> => g[<<F[Front(s)], Last(s)>>] = Said(F[Front(s)], Last(s))
  BY FrontLast
<1>6. F = [s \in Seq(Atoms) |-> IF s = <<>> THEN start ELSE Said(F[Front(s)], Last(s))]
  <2> HIDE DEF g
  <2> QED BY <1>4, <1>5 DEF Follows
<1>7. Reader = [s \in Seq(Atoms) |-> IF s = <<>> THEN start ELSE Said(Reader[Front(s)], Last(s))]
  BY <1>6 DEF Reader, start
<1>8. Reader[<<>>] = start
  BY <1>7
<1>9. \A s \in Seq(Atoms), x \in Atoms : Reader[Append(s, x)] = Said(Reader[s], x)
  BY <1>7, FrontLastOfAppend
<1>10. \A s \in Seq(Atoms) : Reader[s] \in Readers
  <2> DEFINE S == {s \in Seq(Atoms) : Reader[s] \in Readers}
  <2>1. <<>> \in S
    BY <1>2, <1>8
  <2>2. ASSUME NEW s \in Seq(Atoms), NEW x \in Atoms, s \in S
        PROVE  Append(s, x) \in S
    <3>1. Said(Reader[s], x) \in Readers
      BY <2>2, SaidCases
    <3> QED BY <1>9, <3>1
  <2>3. Seq(Atoms) \subseteq S
    <3> HIDE DEF S
    <3> QED BY <2>1, <2>2, SeqSet
  <2> QED BY <2>3
<1> QED BY <1>3, <1>8, <1>9, <1>10

\* The fields of a reader.
LEMMA ReaderFields ==
  ASSUME NEW r \in Readers
  PROVE  /\ r.inTool \in BOOLEAN /\ r.mode \in Modes /\ r.tool \in Seq(Atoms) /\ r.sent \in Seq(Events)
         /\ \A x \in Atoms : <<r.mode, x>> \in Events
BY DEF Readers, Events, Modes, Words

\* What is said is never taken back.
LEMMA ReaderGrows ==
  ASSUME NEW s \in Seq(Atoms), NEW t \in Seq(Atoms)
  PROVE  IsPrefix(Reader[s].sent, Reader[s \o t].sent)
<1> DEFINE S == {u \in Seq(Atoms) : IsPrefix(Reader[s].sent, Reader[s \o u].sent)}
<1>1. \A u \in Seq(Atoms) : Reader[u] \in Readers /\ Reader[u].sent \in Seq(Events)
  BY ReaderDef, ReaderFields
<1>2. <<>> \in S
  <2>1. s \o <<>> = s /\ <<>> \in Seq(Atoms)
    OBVIOUS
  <2>2. IsPrefix(Reader[s].sent, Reader[s].sent)
    BY DEF IsPrefix
  <2> QED BY <2>1, <2>2
<1>3. ASSUME NEW u \in Seq(Atoms), NEW x \in Atoms, u \in S
      PROVE  Append(u, x) \in S
  <2> DEFINE r == Reader[s \o u]
             n == Reader[s \o Append(u, x)]
             before == r.sent
             after == n.sent
             first == Reader[s].sent
  <2>1. s \o u \in Seq(Atoms) /\ s \o Append(u, x) = Append(s \o u, x) /\ Append(u, x) \in Seq(Atoms)
        /\ s \o Append(u, x) \in Seq(Atoms)
    BY ConcatAppend
  <2>2. n = Said(r, x) /\ r \in Readers /\ before \in Seq(Events) /\ after \in Seq(Events) /\ first \in Seq(Events)
    BY <1>1, <2>1, ReaderDef
  <2>3. IsPrefix(first, before)
    BY <1>3
  <2> SUFFICES IsPrefix(first, after)
    BY <2>1
  <2>4. \/ after = before
        \/ \E e \in Seq(Events) : after = before \o e
    <3>1. r.tool \in Seq(Atoms) /\ <<r.mode, x>> \in Events
      BY <2>2, ReaderFields
    <3>2. CallEvent(r.tool) \in Seq(Events)
      BY <3>1, CallText
    <3>3. Append(before, <<r.mode, x>>) = before \o <<<<r.mode, x>>>> /\ <<<<r.mode, x>>>> \in Seq(Events)
      <4> DEFINE e == <<r.mode, x>>
      <4> HIDE DEF e, before, Events
      <4>1. e \in Events
        BY <3>1 DEF e
      <4>2. Append(before, e) = before \o <<e>> /\ <<e>> \in Seq(Events)
        BY <2>2, <4>1, AppendIsConcat
      <4> QED BY <4>2 DEF e
    <3>4. \/ n.sent = r.sent
          \/ n.sent = r.sent \o CallEvent(r.tool)
          \/ n.sent = Append(r.sent, <<r.mode, x>>)
      <4> HIDE DEF r, n
      <4> QED BY <2>2, SaidCases
    <3> DEFINE call == CallEvent(r.tool)
               e == <<<<r.mode, x>>>>
    <3>5. after = before \/ after = before \o call \/ after = before \o e
      BY <3>3, <3>4
    <3>6. call \in Seq(Events) /\ e \in Seq(Events)
      BY <3>2, <3>3
    <3> HIDE DEF call, e, before, after, Events
    <3> QED BY <3>5, <3>6
  <2> HIDE DEF r, n, before, after, first, Events
  <2>5. IsPrefix(before, after)
    <3>1. IsPrefix(before, before)
      BY <2>2 DEF IsPrefix
    <3> QED BY <2>2, <2>4, <3>1, PrefixOfConcat
  <2> QED BY <2>2, <2>3, <2>5, PrefixTransitive
<1>4. Seq(Atoms) \subseteq S
  <2> HIDE DEF S
  <2> QED BY <1>2, <1>3, SeqSet
<1> QED BY <1>4

\* Plain text is part of a tool call, or is said as what the mode is.
LEMMA ReadsPlain ==
  ASSUME NEW s \in Seq(Atoms), NEW t \in Plain
  PROVE  LET r == Reader[s]
             n == Reader[s \o t]
         IN  /\ n.inTool = r.inTool /\ n.mode = r.mode
             /\ r.inTool => n.tool = r.tool \o t /\ n.sent = r.sent
             /\ ~r.inTool => n.sent = r.sent \o Tagged(r.mode, t)
<1> DEFINE r == Reader[s]
           Reads(u) == /\ Reader[s \o u].inTool = r.inTool /\ Reader[s \o u].mode = r.mode
                       /\ r.inTool => Reader[s \o u].tool = r.tool \o u /\ Reader[s \o u].sent = r.sent
                       /\ ~r.inTool => Reader[s \o u].sent = r.sent \o Tagged(r.mode, u)
           S == {u \in Plain : Reads(u)}
<1>1. /\ r \in Readers /\ r.inTool \in BOOLEAN /\ r.mode \in Modes /\ r.tool \in Seq(Atoms) /\ r.sent \in Seq(Events)
  BY ReaderDef, ReaderFields
<1>2. <<>> \in S
  <2>1. s \o <<>> = s /\ <<>> \in Plain /\ <<>> \in Seq(Atoms) /\ r.tool \o <<>> = r.tool /\ r.sent \o <<>> = r.sent
    BY <1>1 DEF Plain
  <2>2. Tagged(r.mode, <<>>) = <<>>
    BY <1>1, <2>1, TaggedText DEF Modes
  <2> HIDE DEF r
  <2> QED BY <2>1, <2>2 DEF r
<1>3. ASSUME NEW u \in Plain, NEW x \in Atoms \ Markers, u \in S
      PROVE  Append(u, x) \in S
  <2> HIDE DEF r
  <2> DEFINE m == Reader[s \o u]
             n == Reader[s \o Append(u, x)]
             e == <<r.mode, x>>
             said == Tagged(r.mode, u)
  <2>1. /\ u \in Seq(Atoms) /\ x \in Atoms /\ s \o u \in Seq(Atoms) /\ Append(u, x) \in Plain
        /\ s \o Append(u, x) = Append(s \o u, x)
    <3>1. u \in Seq(Atoms) /\ x \in Atoms
      BY PlainText
    <3> QED BY <3>1, ConcatAppend DEF Plain
  <2>2. n = Said(m, x) /\ m \in Readers
    BY <2>1, ReaderDef
  <2>3. /\ m.inTool = r.inTool /\ m.mode = r.mode
        /\ r.inTool => m.tool = r.tool \o u /\ m.sent = r.sent
        /\ ~r.inTool => m.sent = r.sent \o said
    BY <1>3
  <2>4. x \notin {"</tool_call>", "<tool_call>", "<think>", "</think>"}
    BY DEF Markers
  <2>5. x # EndOf(r.mode)
    BY <2>4 DEF EndOf
  <2>6. e \in Events /\ said \in Seq(Events) /\ Tagged(r.mode, Append(u, x)) = Append(said, e)
    <3>1. r.mode \in {"content", "reasoning", "call"}
      BY <1>1 DEF Modes
    <3>2. e \in Events
      BY <1>1, <2>1, ReaderFields
    <3> QED BY <2>1, <3>1, <3>2, TaggedText
  <2> SUFFICES /\ n.inTool = r.inTool /\ n.mode = r.mode
               /\ r.inTool => n.tool = r.tool \o Append(u, x) /\ n.sent = r.sent
               /\ ~r.inTool => n.sent = r.sent \o Append(said, e)
    BY <2>1, <2>6
  <2> HIDE DEF n, m, said, Events
  <2>7. CASE r.inTool
    <3>1. n.inTool = r.inTool /\ n.mode = r.mode /\ n.tool = Append(m.tool, x) /\ n.sent = m.sent
      BY <1>1, <2>1, <2>2, <2>3, <2>4, <2>7, SaidCases
    <3>2. Append(r.tool \o u, x) = r.tool \o Append(u, x)
      <4> DEFINE tool == r.tool
      <4>1. tool \in Seq(Atoms) /\ u \in Seq(Atoms) /\ x \in Atoms
        BY <1>1, <2>1
      <4> HIDE DEF tool
      <4>2. tool \o Append(u, x) = Append(tool \o u, x)
        BY ONLY <4>1, ConcatAppend
      <4> QED BY <4>2 DEF tool
    <3> QED BY <2>3, <2>7, <3>1, <3>2
  <2>8. CASE ~r.inTool
    <3>1. ~m.inTool /\ x # "<tool_call>" /\ x # EndOf(m.mode)
      BY <2>3, <2>4, <2>5, <2>8
    <3>2. ~n.inTool /\ n.mode = m.mode /\ n.sent = Append(m.sent, <<m.mode, x>>) /\ n.inTool \in BOOLEAN
      BY <2>1, <2>2, <3>1, SaidCases, ReaderFields
    <3>3. n.sent = Append(r.sent \o said, e)
      BY <2>3, <2>8, <3>2
    <3>4. Append(r.sent \o said, e) = r.sent \o Append(said, e)
      <4> DEFINE before == r.sent
      <4>1. before \in Seq(Events) /\ said \in Seq(Events) /\ e \in Events
        BY <1>1, <2>6
      <4> HIDE DEF e, before
      <4>2. before \o Append(said, e) = Append(before \o said, e)
        BY ONLY <4>1, ConcatAppend
      <4> QED BY <4>2 DEF before
    <3> HIDE DEF e
    <3> QED BY <1>1, <2>3, <2>8, <3>2, <3>3, <3>4
  <2> QED BY <1>1, <2>7, <2>8
<1>4. Plain \subseteq S
  <2>1. \A u \in Seq(Atoms \ Markers), x \in Atoms \ Markers : u \in S => Append(u, x) \in S
    <3> HIDE DEF S
    <3> QED BY <1>3 DEF Plain
  <2> HIDE DEF S
  <2> QED BY <1>2, <2>1, SeqSet DEF Plain
<1> QED BY <1>4

-----------------------------------------------------------------------------
(***************************************************************************)
(* The parser                                                              *)
(***************************************************************************)
Parsers == [buffer : Seq(Atoms), inTool : BOOLEAN, mode : Modes, tool : Seq(Atoms)]

\* A parser is its four fields.
LEMMA ParserFields ==
  ASSUME NEW p \in Parsers
  PROVE  /\ p.buffer \in Seq(Atoms) /\ p.inTool \in BOOLEAN /\ p.mode \in Modes /\ p.tool \in Seq(Atoms)
         /\ p = [buffer |-> p.buffer, inTool |-> p.inTool, mode |-> p.mode, tool |-> p.tool]
         /\ p.mode \in {"content", "reasoning", "call"}
         /\ EndOf(p.mode) \in Markers \ {"<tool_call>", "</tool_call>"} /\ Other(p.mode) \in Modes
         /\ EndOf(Other(p.mode)) \in Markers \ {"<tool_call>", "</tool_call>", EndOf(p.mode)}
BY DEF Parsers, Modes, EndOf, Other, Markers

\* Four fields make a parser.
LEMMA ParserOf ==
  ASSUME NEW b \in Seq(Atoms), NEW i \in BOOLEAN, NEW m \in Modes, NEW t \in Seq(Atoms)
  PROVE  LET p == [buffer |-> b, inTool |-> i, mode |-> m, tool |-> t]
         IN  p \in Parsers /\ p.buffer = b /\ p.inTool = i /\ p.mode = m /\ p.tool = t
BY DEF Parsers

\* A part of a text, up to its end, is a text.
LEMMA SubText ==
  ASSUME NEW X, NEW s \in Seq(X), NEW i \in Nat, NEW j \in Nat, i >= 1, j <= Len(s)
  PROVE  SubSeq(s, i, j) \in Seq(X)
<1>1. \A k \in i..j : s[k] \in X
  OBVIOUS
<1> QED BY <1>1, SubSeqProperties

\* What is left of the buffer from i on.
LEMMA FromFields ==
  ASSUME NEW p \in Parsers, NEW i \in Nat \ {0}
  PROVE  /\ From(p, i) \in Parsers
         /\ From(p, i).buffer = SubSeq(p.buffer, i, Len(p.buffer))
         /\ From(p, i).inTool = p.inTool /\ From(p, i).mode = p.mode /\ From(p, i).tool = p.tool
<1> DEFINE b == SubSeq(p.buffer, i, Len(p.buffer))
<1>1. p.buffer \in Seq(Atoms) /\ p.inTool \in BOOLEAN /\ p.mode \in Modes /\ p.tool \in Seq(Atoms)
      /\ p = [buffer |-> p.buffer, inTool |-> p.inTool, mode |-> p.mode, tool |-> p.tool]
  BY ParserFields
<1>2. b \in Seq(Atoms)
  <2>1. Len(p.buffer) \in Nat
    BY <1>1
  <2> QED BY <1>1, <2>1, SubText
<1>3. From(p, i) = [p EXCEPT !.buffer = b]
  BY DEF From
<1> HIDE DEF b
<1>4. From(p, i) = [buffer |-> b, inTool |-> p.inTool, mode |-> p.mode, tool |-> p.tool]
  BY <1>1, <1>3
<1>5. /\ From(p, i) \in Parsers /\ From(p, i).buffer = b
      /\ From(p, i).inTool = p.inTool /\ From(p, i).mode = p.mode /\ From(p, i).tool = p.tool
  BY <1>1, <1>2, <1>4 DEF Parsers
<1> QED BY <1>5 DEF b

\* Where a marker is, the first of them.
LEMMA PlaceOf ==
  ASSUME NEW p \in Parsers, NEW m \in Markers
  PROVE  /\ Has(p, m) <=> \E i \in 1..Len(p.buffer) : p.buffer[i] = m
         /\ Has(p, m) => /\ Place(p, m) \in 1..Len(p.buffer) /\ p.buffer[Place(p, m)] = m
                         /\ \A i \in 1..Len(p.buffer) : p.buffer[i] = m => Place(p, m) <= i
         /\ ~Has(p, m) => Place(p, m) = 0
<1> DEFINE I == {i \in 1..Len(p.buffer) : p.buffer[i] = m}
<1>1. Has(p, m) <=> I # {}
  BY DEF Has, Contains
<1>2. Place(p, m) = IF I # {} THEN Min(I) ELSE 0
  BY DEF Place, SelectInSeq
<1>3. I # {} => Min(I) \in I /\ \A i \in I : Min(I) <= i
  <2>1. I \subseteq Nat
    OBVIOUS
  <2> HIDE DEF I
  <2> QED BY <2>1, MinOfNat
<1> QED BY <1>1, <1>2, <1>3

\* The step keeps the types.
LEMMA StepType ==
  ASSUME NEW p \in Parsers, p.buffer # <<>>
  PROVE  Step(p).parser \in Parsers
<1> DEFINE end == "</tool_call>"
           n == Len(p.buffer)
<1>1. /\ p.buffer \in Seq(Atoms) /\ p.inTool \in BOOLEAN /\ p.mode \in Modes /\ p.tool \in Seq(Atoms)
      /\ p = [buffer |-> p.buffer, inTool |-> p.inTool, mode |-> p.mode, tool |-> p.tool]
  BY ParserFields
<1>2. n \in Nat \ {0}
  BY <1>1, EmptySeq
<1>3. \A q : Result(q, <<>>).parser = q /\ \A e : Result(q, e).parser = q
  BY DEF Result
<1>4. ASSUME NEW q \in Parsers, NEW m \in Markers
      PROVE  /\ From(q, Place(q, m) + 1) \in Parsers /\ (Has(q, m) => From(q, Place(q, m)) \in Parsers)
             /\ UpTo(q, m) \in Seq(Atoms)
  <2>1. Place(q, m) \in Nat /\ Place(q, m) <= Len(q.buffer) /\ (Has(q, m) => Place(q, m) # 0)
        /\ q.buffer \in Seq(Atoms) /\ Len(q.buffer) \in Nat
    BY PlaceOf, ParserFields
  <2>2. UpTo(q, m) \in Seq(Atoms)
    <3>1. CASE Place(q, m) = 0
      BY <2>1, <3>1, SubSeqEmpty DEF UpTo
    <3>2. CASE Place(q, m) # 0
      BY <2>1, <3>2, SubText DEF UpTo
    <3> QED BY <3>1, <3>2
  <2>3. Place(q, m) + 1 \in Nat \ {0} /\ (Has(q, m) => Place(q, m) \in Nat \ {0})
    BY <2>1
  <2>4. From(q, Place(q, m) + 1) \in Parsers
    BY <2>3, FromFields
  <2>5. Has(q, m) => From(q, Place(q, m)) \in Parsers
    BY <2>3, FromFields
  <2> QED BY <2>2, <2>4, <2>5
<1>5. ASSUME NEW q \in Parsers
      PROVE  OutsideTool(q).parser \in Parsers
  <2>1. EndOf(q.mode) \in Markers /\ q.buffer \in Seq(Atoms)
    BY ParserFields
  <2>2. CASE Has(q, EndOf(q.mode))
    BY <1>3, <1>4, <2>1, <2>2 DEF OutsideTool, TextBefore
  <2>3. CASE ~Has(q, EndOf(q.mode))
    <3>1. [q EXCEPT !.buffer = <<>>] \in Parsers
      <4> DEFINE nil == <<>>
      <4>1. nil \in Seq(Atoms)
        OBVIOUS
      <4> SUFFICES [q EXCEPT !.buffer = nil] \in Parsers
        OBVIOUS
      <4> HIDE DEF nil
      <4> QED BY <4>1 DEF Parsers
    <3> QED BY <1>3, <2>3, <3>1 DEF OutsideTool, Rest
  <2> QED BY <2>2, <2>3
<1>6. CASE p.inTool /\ Has(p, end)
  <2> DEFINE body == p.tool \o UpTo(p, end)
             after == From(p, Place(p, end) + 1)
  <2>1. body \in Seq(Atoms) /\ after \in Parsers
    BY <1>1, <1>4 DEF Markers
  <2>2. Step(p).parser = [after EXCEPT !.inTool = FALSE, !.tool = body]
    BY <1>3, <1>6 DEF Step, EndTool
  <2> HIDE DEF body, after
  <2> QED BY <2>1, <2>2 DEF Parsers
<1>7. CASE p.inTool /\ ~Has(p, end)
  <2> DEFINE tool == p.tool \o p.buffer
             nil == <<>>
  <2>1. tool \in Seq(Atoms) /\ nil \in Seq(Atoms)
    BY <1>1
  <2>2. Step(p).parser = [p EXCEPT !.tool = tool, !.buffer = nil]
    BY <1>3, <1>7 DEF Step, GrowTool
  <2> HIDE DEF tool, nil
  <2> QED BY <1>1, <2>1, <2>2 DEF Parsers
<1>8. CASE ~p.inTool /\ Has(p, "<tool_call>")
  <2>1. CASE p.buffer[1] = "<tool_call>"
    <3> DEFINE after == From(p, 2)
               nil == <<>>
    <3>1. after \in Parsers /\ nil \in Seq(Atoms)
      BY FromFields
    <3>2. Step(p).parser = [after EXCEPT !.inTool = TRUE, !.tool = nil]
      BY <1>3, <1>8, <2>1 DEF Step, EnterTool
    <3> HIDE DEF after, nil
    <3> QED BY <3>1, <3>2 DEF Parsers
  <2>2. CASE p.buffer[1] # "<tool_call>"
    BY <1>3, <1>4, <1>8, <2>2 DEF Step, TextBefore, Markers
  <2> QED BY <2>1, <2>2
<1>9. CASE ~p.inTool /\ ~Has(p, "<tool_call>")
  <2>1. Turned(p) \in Parsers
    <3>1. Turns(p) \in Nat
      <4> DEFINE T == {k \in 0..n : k = n \/ p.buffer[k + 1] # EndOf(IF k % 2 = 0 THEN p.mode ELSE Other(p.mode))}
      <4>1. n \in T /\ T \subseteq Nat
        BY <1>2
      <4>2. Turns(p) = Min(T)
        BY DEF Turns
      <4> HIDE DEF T
      <4> QED BY <4>1, <4>2, MinOfNat
    <3> DEFINE after == From(p, Turns(p) + 1)
               mode == IF Turns(p) % 2 = 0 THEN after.mode ELSE Other(after.mode)
    <3>2. after \in Parsers /\ mode \in Modes
      <4>1. Turns(p) + 1 \in Nat \ {0}
        BY <3>1
      <4>2. after \in Parsers
        BY <4>1, FromFields
      <4> HIDE DEF after
      <4> QED BY <4>2, ParserFields
    <3>3. Turned(p) = [after EXCEPT !.mode = mode]
      BY DEF Turned
    <3> HIDE DEF after, mode
    <3> QED BY <3>2, <3>3 DEF Parsers
  <2> QED BY <1>5, <1>9, <2>1 DEF Step
<1> QED BY <1>1, <1>6, <1>7, <1>8, <1>9

\* Plain text has no marker.
LEMMA NoMarker ==
  ASSUME NEW p \in Parsers, p.buffer \in Plain, NEW m \in Markers
  PROVE  ~Has(p, m)
BY PlaceOf, PlainText

\* Of plain text and a marker behind it.
LEMMA MarkerLast ==
  ASSUME NEW p \in Parsers, NEW held \in Plain, NEW m \in Markers, p.buffer = Append(held, m)
  PROVE  /\ Has(p, m)
         /\ \A k \in Markers \ {m} : ~Has(p, k)
         /\ UpTo(p, m) = held
         /\ From(p, Place(p, m) + 1).buffer = <<>>
         /\ From(p, Place(p, m)).buffer = <<m>>
         /\ p.buffer # <<>> /\ p.buffer[1] = IF held = <<>> THEN m ELSE held[1]
         /\ (held # <<>> => held[1] \in Atoms \ Markers)
         /\ Place(p, m) = Len(held) + 1
<1>1. held \in Seq(Atoms) /\ (\A i \in 1..Len(held) : held[i] \in Atoms \ Markers) /\ Len(held) \in Nat
  BY PlainText
<1>2. m \in Atoms
  BY DEF Atoms
<1> DEFINE b == p.buffer
<1>3. /\ b \in Seq(Atoms) /\ b # <<>> /\ Len(b) = Len(held) + 1 /\ b[Len(held) + 1] = m
      /\ \A i \in 1..Len(held) : b[i] = held[i]
  BY <1>1, <1>2, AppendProperties
<1>4. \A i \in 1..Len(b) : i \in 1..Len(held) \/ i = Len(held) + 1
  BY <1>1, <1>3
<1>5. Has(p, m) /\ \A k \in Markers \ {m} : ~Has(p, k)
  BY <1>1, <1>3, <1>4, PlaceOf, SMTT(40)
<1>6. Place(p, m) = Len(held) + 1
  <2>1. Place(p, m) \in 1..Len(b) /\ b[Place(p, m)] = m
    BY <1>5, PlaceOf
  <2> QED BY <1>1, <1>3, <1>4, <2>1
<1>7. UpTo(p, m) = held
  <2>1. SubSeq(b, 1, Len(held)) = held
    <3>1. SubSeq(b, 1, Len(held)) \in Seq(Atoms) /\ Len(SubSeq(b, 1, Len(held))) = Len(held)
          /\ \A i \in 1..Len(held) : SubSeq(b, 1, Len(held))[i] = b[i]
      <4> HIDE DEF b
      <4>1. \A i \in 1..Len(held) : b[i] \in Atoms
        BY <1>1, <1>3
      <4> QED BY <1>1, <1>3, <4>1
    <3> DEFINE s == SubSeq(b, 1, Len(held))
    <3>2. s \in Seq(Atoms) /\ Len(s) = Len(held) /\ \A i \in 1..Len(s) : s[i] = held[i]
      BY <1>3, <3>1
    <3> HIDE DEF s
    <3>3. s = held
      BY <1>1, <3>2, SeqEqual
    <3> QED BY <3>3 DEF s
  <2>2. Place(p, m) - 1 = Len(held)
    BY <1>1, <1>6
  <2> QED BY <2>1, <2>2 DEF UpTo
<1>8. From(p, Place(p, m) + 1).buffer = <<>>
  <2> DEFINE i == Place(p, m) + 1
  <2>1. i \in Nat \ {0} /\ Len(b) < i /\ i \in Int /\ Len(b) \in Int
    BY <1>1, <1>3, <1>6
  <2> HIDE DEF i
  <2>2. From(p, i).buffer = SubSeq(b, i, Len(b))
    BY <2>1, FromFields
  <2> QED BY <2>1, <2>2, SubSeqEmpty DEF i
<1>9. From(p, Place(p, m)).buffer = <<m>>
  <2> DEFINE i == Place(p, m)
             s == SubSeq(b, i, Len(b))
  <2>1. i \in Nat \ {0} /\ i = Len(b) /\ b[i] = m
    BY <1>1, <1>3, <1>6
  <2>2. From(p, i).buffer = s
    <3> HIDE DEF i
    <3> QED BY <2>1, FromFields
  <2>3. s \in Seq(Atoms) /\ Len(s) = 1 /\ s[1] = m
    <3> HIDE DEF i, b
    <3> QED BY <1>2, <1>3, <2>1
  <2>4. s = <<m>>
    <3> HIDE DEF s
    <3> QED BY <2>3
  <2> QED BY <2>2, <2>4
<1> QED BY <1>1, <1>3, <1>5, <1>6, <1>7, <1>8, <1>9

\* The loop passes over nothing unless the end of the mode is at the front.
LEMMA TurnsNone ==
  ASSUME NEW p \in Parsers, p.buffer # <<>>, p.buffer[1] # EndOf(p.mode)
  PROVE  Turned(p) = p
<1> DEFINE T == {k \in 0..Len(p.buffer) : k = Len(p.buffer) \/ p.buffer[k + 1] # EndOf(IF k % 2 = 0 THEN p.mode ELSE Other(p.mode))}
<1>1. p.buffer \in Seq(Atoms) /\ Len(p.buffer) \in Nat \ {0}
      /\ p = [buffer |-> p.buffer, inTool |-> p.inTool, mode |-> p.mode, tool |-> p.tool]
  BY ParserFields, EmptySeq
<1>2. 0 \in T /\ T \subseteq Nat
  BY <1>1
<1>3. Turns(p) = 0
  <2>1. Turns(p) = Min(T)
    BY DEF Turns
  <2>2. Min(T) \in Nat /\ Min(T) <= 0
    <3> HIDE DEF T
    <3> QED BY <1>2, MinOfNat
  <2> HIDE DEF T
  <2> QED BY <2>1, <2>2
<1> DEFINE q == From(p, 1)
<1>4. q.buffer = p.buffer /\ q.mode = p.mode /\ q.inTool = p.inTool /\ q.tool = p.tool /\ q \in Parsers
  <2>1. SubSeq(p.buffer, 1, Len(p.buffer)) = p.buffer
    BY <1>1, SubSeqFull
  <2>2. 1 \in Nat \ {0}
    OBVIOUS
  <2>3. /\ From(p, 1) \in Parsers /\ From(p, 1).buffer = SubSeq(p.buffer, 1, Len(p.buffer))
        /\ From(p, 1).inTool = p.inTool /\ From(p, 1).mode = p.mode /\ From(p, 1).tool = p.tool
    BY <2>2, FromFields
  <2> QED BY <2>1, <2>3
<1> HIDE DEF q
<1>5. q = [buffer |-> q.buffer, inTool |-> q.inTool, mode |-> q.mode, tool |-> q.tool]
  BY <1>4, ParserFields
<1>6. q = p
  BY <1>1, <1>4, <1>5
<1>7. Turned(p) = [q EXCEPT !.mode = q.mode]
  BY <1>3 DEF Turned, q
<1> QED BY <1>1, <1>6, <1>7

\* The end of the mode alone at the front: the loop passes over it.
LEMMA TurnsOnce ==
  ASSUME NEW p \in Parsers, p.buffer # <<>>, p.buffer[1] = EndOf(p.mode),
         Len(p.buffer) > 1 => p.buffer[2] # EndOf(Other(p.mode))
  PROVE  /\ Turned(p) \in Parsers
         /\ Turned(p).buffer = SubSeq(p.buffer, 2, Len(p.buffer))
         /\ Turned(p).mode = Other(p.mode) /\ Turned(p).inTool = p.inTool
<1> DEFINE Stops(k) == k = Len(p.buffer) \/ p.buffer[k + 1] # EndOf(IF k % 2 = 0 THEN p.mode ELSE Other(p.mode))
           T == {k \in 0..Len(p.buffer) : Stops(k)}
<1>1. p.buffer \in Seq(Atoms) /\ Len(p.buffer) \in Nat \ {0}
  BY ParserFields, EmptySeq
<1>2. 1 \in T /\ T \subseteq Nat /\ 0 \notin T
  <2>1. 0 % 2 = 0 /\ 1 % 2 # 0 /\ 1 + 1 = 2 /\ 0 + 1 = 1
    OBVIOUS
  <2>2. 1 \in T
    <3>1. 1 \in 0..Len(p.buffer)
      BY <1>1
    <3>2. Stops(1)
      <4>1. CASE Len(p.buffer) = 1
        BY <4>1
      <4>2. CASE Len(p.buffer) > 1
        <5>1. p.buffer[1 + 1] # EndOf(Other(p.mode))
          BY <2>1, <4>2
        <5>2. (IF 1 % 2 = 0 THEN p.mode ELSE Other(p.mode)) = Other(p.mode)
          BY <2>1
        <5>3. p.buffer[1 + 1] # EndOf(IF 1 % 2 = 0 THEN p.mode ELSE Other(p.mode))
          BY <5>1, <5>2
        <5> QED BY <5>3
      <4>3. Len(p.buffer) = 1 \/ Len(p.buffer) > 1
        <5> DEFINE n == Len(p.buffer)
        <5>1. n \in Nat \ {0}
          BY <1>1
        <5> HIDE DEF n
        <5>2. n = 1 \/ n > 1
          BY ONLY <5>1
        <5> QED BY <5>2 DEF n
      <4> HIDE DEF Stops
      <4> QED BY <4>1, <4>2, <4>3
    <3> HIDE DEF Stops
    <3> QED BY <3>1, <3>2
  <2>3. 0 \notin T
    BY <1>1, <2>1
  <2>4. T \subseteq Nat
    BY <1>1
  <2> HIDE DEF T
  <2> QED BY <2>2, <2>3, <2>4
<1>3. Turns(p) = 1
  <2>1. Turns(p) = Min(T)
    BY DEF Turns
  <2>2. Min(T) \in Nat /\ Min(T) <= 1 /\ Min(T) # 0
    <3> HIDE DEF T
    <3> QED BY <1>2, MinOfNat
  <2> QED BY <2>1, <2>2
<1> DEFINE q == From(p, 2)
           mode == Other(q.mode)
<1>4. q.buffer = SubSeq(p.buffer, 2, Len(p.buffer)) /\ q.mode = p.mode /\ q.inTool = p.inTool /\ q \in Parsers
  BY FromFields
<1>5. Turned(p) = [q EXCEPT !.mode = mode]
  BY <1>3 DEF Turned
<1> HIDE DEF q
<1>6. mode \in Modes
  BY <1>4, ParserFields
<1>7. mode = Other(p.mode)
  BY <1>4
<1> HIDE DEF mode
<1>8. [q EXCEPT !.mode = mode] \in Parsers /\ [q EXCEPT !.mode = mode].buffer = q.buffer
      /\ [q EXCEPT !.mode = mode].mode = mode /\ [q EXCEPT !.mode = mode].inTool = q.inTool
  BY <1>4, <1>6 DEF Parsers
<1> QED BY <1>4, <1>5, <1>7, <1>8

\* With nothing to end the mode, all of the buffer is sent.
LEMMA RestFields ==
  ASSUME NEW p \in Parsers, ~Has(p, EndOf(p.mode))
  PROVE  /\ OutsideTool(p).event = Tagged(p.mode, p.buffer)
         /\ OutsideTool(p).parser.buffer = <<>> /\ OutsideTool(p).parser.mode = p.mode
         /\ OutsideTool(p).parser.inTool = p.inTool
<1> DEFINE nil == <<>>
<1>1. OutsideTool(p).event = Tagged(p.mode, p.buffer) /\ OutsideTool(p).parser = [p EXCEPT !.buffer = nil]
  BY DEF OutsideTool, Rest, Result
<1> HIDE DEF nil
<1>2. [p EXCEPT !.buffer = nil].buffer = nil /\ [p EXCEPT !.buffer = nil].mode = p.mode
      /\ [p EXCEPT !.buffer = nil].inTool = p.inTool
  BY DEF Parsers
<1> QED BY <1>1, <1>2 DEF nil

\* Inside a tool block without its end the buffer is part of the call.
LEMMA StepGrows ==
  ASSUME NEW p \in Parsers, p.inTool, ~Has(p, "</tool_call>")
  PROVE  /\ Step(p).event = <<>>
         /\ Step(p).parser.buffer = <<>> /\ Step(p).parser.inTool
         /\ Step(p).parser.mode = p.mode /\ Step(p).parser.tool = p.tool \o p.buffer
<1> DEFINE nil == <<>>
           tool == p.tool \o p.buffer
           n == [p EXCEPT !.tool = tool, !.buffer = nil]
<1>1. Step(p).event = <<>> /\ Step(p).parser = n
  BY DEF Step, GrowTool, Result
<1> HIDE DEF nil, tool
<1>2. n.buffer = nil /\ n.inTool /\ n.mode = p.mode /\ n.tool = tool
  BY DEF Parsers
<1> QED BY <1>1, <1>2 DEF nil, tool

\* The end of a tool block, and the plain text before it.
LEMMA StepEndsTool ==
  ASSUME NEW p \in Parsers, p.inTool, NEW held \in Plain, p.buffer = Append(held, "</tool_call>")
  PROVE  /\ Step(p).event = CallEvent(p.tool \o held)
         /\ Step(p).parser.buffer = <<>> /\ ~Step(p).parser.inTool
         /\ Step(p).parser.mode = p.mode
<1> DEFINE end == "</tool_call>"
           body == p.tool \o UpTo(p, end)
           after == From(p, Place(p, end) + 1)
           n == [after EXCEPT !.inTool = FALSE, !.tool = body]
<1>1. end \in Markers /\ p.tool \in Seq(Atoms) /\ held \in Seq(Atoms)
  BY ParserFields, PlainText DEF Markers
<1>2. Has(p, end) /\ UpTo(p, end) = held /\ after.buffer = <<>> /\ Place(p, end) = Len(held) + 1
  BY <1>1, MarkerLast
<1>3. after \in Parsers /\ after.mode = p.mode
  <2>1. Place(p, end) + 1 \in Nat \ {0}
    BY <1>1, <1>2
  <2> QED BY <2>1, FromFields
<1>4. Step(p).event = CallEvent(body) /\ Step(p).parser = n
  BY <1>2 DEF Step, EndTool, Result
<1>5. body = p.tool \o held
  BY <1>2
<1> HIDE DEF body, after
<1>6. n.buffer = after.buffer /\ ~n.inTool /\ n.mode = after.mode
  BY <1>3 DEF Parsers
<1> QED BY <1>2, <1>3, <1>4, <1>5, <1>6

\* A sequence that lacks bytes is plain, ill-formed, and ill-formed before a marker.
LEMMA PendingIsOpen ==
  ASSUME NEW p \in Pendings
  PROVE  /\ p \in Plain /\ p \in Seq(Atoms)
         /\ p # <<>> => /\ ~WellFormed(p)
                        /\ \A m \in Markers : ~WellFormed(Append(p, m))
<1>1. p \in Seq(Atoms) /\ Len(p) \in Nat /\ DOMAIN p = 1..Len(p) /\ (\A i \in 1..Len(p) : p[i] \in Atoms)
  BY DEF Pendings
<1>2. p = <<>> \/ (p[1] = "lead" /\ Len(p) < SeqLen /\ \A i \in 1..Len(p) : p[i] \notin Markers)
  BY DEF Pendings
<1>3. SeqLen \in 2..4
  BY StreamAssumption
<1>4. p \in Plain
  <2>1. \A i \in 1..Len(p) : p[i] \in Atoms \ Markers
    BY <1>1, <1>2
  <2>2. p = [i \in 1..Len(p) |-> p[i]]
    BY <1>1
  <2> QED BY <1>1, <2>1, <2>2 DEF Plain
<1>5. ASSUME p # <<>>, WellFormed(p)
      PROVE  FALSE
  <2>1. 1 \in DOMAIN p /\ p[1] = "lead"
    BY <1>1, <1>2, <1>5
  <2>2. 1 + SeqLen - 1 <= Len(p)
    BY <1>5, <2>1, WellFormedDef
  <2> QED BY <1>1, <1>2, <1>3, <1>5, <2>2
<1>6. ASSUME NEW m \in Markers, p # <<>>, WellFormed(Append(p, m))
      PROVE  FALSE
  <2> DEFINE b == Append(p, m)
  <2>1. /\ Len(b) = Len(p) + 1 /\ DOMAIN b = 1..Len(b) /\ b[Len(p) + 1] = m /\ \A i \in 1..Len(p) : b[i] = p[i]
    <3>1. m \in Atoms
      BY DEF Atoms
    <3> QED BY <1>1, <3>1, AppendProperties
  <2>2. WellFormed(b) /\ Len(p) >= 1
    BY <1>1, <1>6
  <2> HIDE DEF b
  <2>3. 1 \in DOMAIN b /\ b[1] = "lead"
    BY <1>1, <1>2, <1>6, <2>1, <2>2
  <2>4. \A j \in 2 .. SeqLen : b[j] = "cont"
    <3>1. \A j \in 1 + 1 .. 1 + SeqLen - 1 : b[j] = "cont"
      BY <2>2, <2>3, WellFormedDef
    <3> QED BY <1>3, <3>1
  <2>5. Len(p) + 1 \in 2 .. SeqLen
    BY <1>1, <1>2, <1>3, <1>6, <2>2
  <2> QED BY <2>1, <2>4, <2>5 DEF Markers
<1> QED BY <1>1, <1>4, <1>5, <1>6

\* What a scan lets through of plain text is plain.
LEMMA ScanOfPlain ==
  ASSUME NEW s \in Plain
  PROVE  Scan[s].complete \in Plain
<1> DEFINE S == {u \in Plain : Scan[u].complete \in Plain}
<1>1. <<>> \in S
  <2>1. <<>> \in Plain
    BY DEF Plain
  <2>2. Scan[<<>>].complete = <<>>
    BY ScanDef
  <2> QED BY <2>1, <2>2
<1>2. ASSUME NEW u \in Plain, NEW x \in Atoms \ Markers, u \in S
      PROVE  Append(u, x) \in S
  <2> DEFINE c == Scan[u].complete
             p == Scan[u].pending
             more == Append(p, x)
             n == Scan[Append(u, x)]
  <2>1. u \in Seq(Atoms) /\ x \in Atoms /\ Append(u, x) \in Plain
    BY PlainText DEF Plain
  <2>2. n = ScanAtom(Scan[u], x) /\ Scan[u] \in Scans /\ p \in Pendings
    BY <2>1, ScanDef, ScanPending
  <2>3. p \in Plain /\ c \in Plain
    BY <1>2, <2>2, PendingIsOpen
  <2> HIDE DEF p, c
  <2>4. more \in Plain
    BY <2>3 DEF Plain
  <2> HIDE DEF more
  <2>5. c \o more \in Plain
    BY <2>3, <2>4 DEF Plain
  <2>6. n.complete = c \/ n.complete = c \o more
    <3> HIDE DEF n
    <3> QED BY <2>1, <2>2, ScanAtomCases DEF c, p, more
  <2> QED BY <2>1, <2>3, <2>5, <2>6
<1>3. \A u \in Seq(Atoms \ Markers), x \in Atoms \ Markers : u \in S => Append(u, x) \in S
  <2> HIDE DEF S
  <2> QED BY <1>2 DEF Plain
<1> HIDE DEF S
<1>4. Plain \subseteq S
  BY <1>1, <1>3, SeqSet DEF Plain
<1> QED BY <1>4 DEF S

\* What one more token lets through: plain text, or what was held and a marker.
LEMMA ChunkShape ==
  ASSUME NEW p \in Pendings, NEW t \in Tokens
  PROVE  /\ t \in Seq(Atoms) /\ p \o t \in Seq(Atoms) /\ t # <<>>
         /\ \/ t \in Plain /\ p \o t \in Plain /\ Scan[p \o t].complete \in Plain
            \/ \E m \in Markers : /\ t = <<m>> /\ p \o t = Append(p, m)
                                  /\ Scan[p \o t].complete = Append(p, m) /\ Scan[p \o t].pending = <<>>
<1>1. p \in Plain /\ p \in Seq(Atoms)
  BY PendingIsOpen
<1>2. t # <<>> /\ (t \in Plain \/ \E m \in Markers : t = <<m>>)
  BY StreamAssumption DEF Plain
<1>3. CASE t \in Plain
  <2>1. t \in Seq(Atoms) /\ p \o t \in Plain
    BY <1>1, <1>3, PlainText DEF Plain
  <2> QED BY <1>1, <1>2, <1>3, <2>1, ScanOfPlain
<1>4. CASE \E m \in Markers : t = <<m>>
  <2>1. PICK m \in Markers : t = <<m>>
    BY <1>4
  <2>2. m \in Atoms
    BY DEF Atoms
  <2> DEFINE more == Append(p, m)
  <2>3. t \in Seq(Atoms) /\ p \o t = more /\ more \in Seq(Atoms)
    BY <1>1, <2>1, <2>2, AppendIsConcat
  <2>4. Scan[more] = ScanAtom(Scan[p], m) /\ Scan[p] \in Scans /\ Scan[p].complete = <<>> /\ Scan[p].pending = p
    BY <1>1, <2>2, ScanDef, ScanPending
  <2>5. Ends(p, m) /\ m # "cont"
    BY DEF Ends, Markers
  <2>6. Scan[more].complete = <<>> \o more /\ Scan[more].pending = <<>>
    BY <2>2, <2>4, <2>5, ScanAtomCases
  <2>7. <<>> \o more = more
    BY <2>3
  <2> QED BY <1>2, <2>1, <2>3, <2>6, <2>7
<1> QED BY <1>2, <1>3, <1>4

\* The parser is where the reader is, but for what is in its buffer.
Agree(p, r) == p.inTool = r.inTool /\ p.mode = r.mode /\ (r.inTool => p.tool = r.tool)

\* The step of a parser that has read s, with its buffer, says what a reader says.
Keeps(p, s) ==
  /\ Step(p).parser.buffer = <<>>
  /\ Agree(Step(p).parser, Reader[s \o p.buffer])
  /\ Step(p).event \in Seq(Events)
  /\ Reader[s \o p.buffer].sent = Reader[s].sent \o Step(p).event

\* In a tool block the parser says what a reader says, wherever the text was cut.
LEMMA KeepsInTool ==
  ASSUME NEW p \in Parsers, NEW s \in Seq(Atoms), Agree(p, Reader[s]), p.inTool,
         p.buffer # <<>>,
         p.buffer \in Plain \/ \E held \in Plain, m \in Markers : p.buffer = Append(held, m)
  PROVE  Keeps(p, s) /\ Dumps(Step(p).event)
<1> DEFINE r == Reader[s]
           b == p.buffer
           n == Reader[s \o b]
<1>1. /\ r \in Readers /\ r.sent \in Seq(Events) /\ r.sent \o <<>> = r.sent /\ p.tool \in Seq(Atoms)
      /\ r.inTool /\ p.mode = r.mode /\ p.tool = r.tool /\ r.tool \in Seq(Atoms)
  BY ReaderDef, ReaderFields, ParserFields DEF Agree
<1>2. Dumps(<<>>) /\ <<>> \in Seq(Events)
  BY DEF Dumps, WellFormed
<1>3. CASE b \in Plain
  <2>1. n.inTool = r.inTool /\ n.mode = r.mode /\ n.tool = r.tool \o b /\ n.sent = r.sent
    BY <1>1, <1>3, ReadsPlain
  <2>2. /\ Step(p).event = <<>> /\ Step(p).parser.buffer = <<>> /\ Step(p).parser.inTool
        /\ Step(p).parser.mode = p.mode /\ Step(p).parser.tool = p.tool \o p.buffer
    <3>1. ~Has(p, "</tool_call>")
      BY <1>3, NoMarker DEF Markers
    <3> QED BY <3>1, StepGrows
  <2>3. Step(p).parser.inTool = n.inTool
    <3>1. Step(p).parser \in Parsers
      BY StepType
    <3>2. Step(p).parser.inTool \in BOOLEAN
      BY <3>1, ParserFields
    <3>3. r.inTool \in BOOLEAN
      BY <1>1, ReaderFields
    <3> QED BY <1>1, <2>1, <2>2, <3>2, <3>3
  <2> HIDE DEF r, n
  <2> QED BY <1>1, <1>2, <2>1, <2>2, <2>3 DEF Keeps, Agree, r, n
<1>4. CASE \E held \in Plain, m \in Markers : b = Append(held, m)
  <2>1. PICK held \in Plain, m \in Markers : b = Append(held, m)
    BY <1>4
  <2> DEFINE h == Reader[s \o held]
  <2>2. /\ held \in Seq(Atoms) /\ m \in Atoms /\ s \o held \in Seq(Atoms)
        /\ s \o b = Append(s \o held, m)
    <3>1. held \in Seq(Atoms) /\ m \in Atoms
      BY PlainText DEF Atoms
    <3> QED BY <2>1, <3>1, ConcatAppend
  <2>3. /\ h.inTool = r.inTool /\ h.mode = r.mode /\ h.tool = r.tool \o held /\ h.sent = r.sent
    BY <1>1, ReadsPlain
  <2>4. n = Said(h, m) /\ h \in Readers /\ n \in Readers
    <3>1. Reader[Append(s \o held, m)] = Said(h, m) /\ h \in Readers
      BY <2>2, ReaderDef
    <3>2. Said(h, m) \in Readers
      <4> HIDE DEF h
      <4> QED BY <2>2, <3>1, SaidCases
    <3> QED BY <2>2, <3>1, <3>2
  <2>5. Step(p).parser \in Parsers
    BY StepType
  <2>6. Step(p).parser.inTool \in BOOLEAN /\ n.inTool \in BOOLEAN
    BY <2>4, <2>5, ParserFields, ReaderFields
  <2>7. CASE m = "</tool_call>"
    <3>1. ~n.inTool /\ n.mode = h.mode /\ n.sent = h.sent \o CallEvent(h.tool)
      <4>1. h.inTool
        BY <1>1, <2>3
      <4> HIDE DEF n, h
      <4> QED BY <2>2, <2>4, <2>7, <4>1, SaidCases
    <3>2. /\ Step(p).event = CallEvent(p.tool \o held)
          /\ Step(p).parser.buffer = <<>> /\ ~Step(p).parser.inTool
          /\ Step(p).parser.mode = p.mode
      BY <2>1, <2>7, StepEndsTool
    <3>3. p.tool \o held \in Seq(Atoms)
      BY <1>1, <2>2
    <3>4. CallEvent(p.tool \o held) \in Seq(Events) /\ Dumps(CallEvent(p.tool \o held))
      BY <3>3, CallText
    <3>5. n.sent = r.sent \o Step(p).event
      BY <1>1, <2>3, <3>1, <3>2
    <3> HIDE DEF r, n, h
    <3> QED BY <1>1, <2>3, <2>6, <3>1, <3>2, <3>4, <3>5 DEF Keeps, Agree, r, n
  <2>8. CASE m # "</tool_call>"
    <3>1. n.inTool /\ n.mode = h.mode /\ n.tool = Append(h.tool, m) /\ n.sent = h.sent
      <4>1. h.inTool
        BY <1>1, <2>3
      <4> HIDE DEF n, h
      <4> QED BY <2>2, <2>4, <2>8, <4>1, SaidCases
    <3>2. /\ Step(p).event = <<>> /\ Step(p).parser.buffer = <<>> /\ Step(p).parser.inTool
          /\ Step(p).parser.mode = p.mode /\ Step(p).parser.tool = p.tool \o p.buffer
      <4>1. ~Has(p, "</tool_call>")
        BY <2>1, <2>8, MarkerLast DEF Markers
      <4> QED BY <4>1, StepGrows
    <3>3. p.tool \o p.buffer = Append(r.tool \o held, m)
      <4> DEFINE tool == r.tool
      <4>1. tool \in Seq(Atoms) /\ held \in Seq(Atoms) /\ m \in Atoms
        BY <1>1, <2>2
      <4> HIDE DEF tool
      <4>2. tool \o Append(held, m) = Append(tool \o held, m)
        BY ONLY <4>1, ConcatAppend
      <4> QED BY <1>1, <2>1, <4>2 DEF tool
    <3>4. n.tool = Step(p).parser.tool
      BY <2>3, <3>1, <3>2, <3>3
    <3> HIDE DEF r, n, h
    <3> QED BY <1>1, <1>2, <2>3, <2>6, <3>1, <3>2, <3>4 DEF Keeps, Agree, r, n
  <2> QED BY <2>7, <2>8
<1> QED BY <1>3, <1>4

\* Outside tool blocks plain text is sent as what the mode is.
LEMMA StepSendsPlain ==
  ASSUME NEW p \in Parsers, ~p.inTool, p.buffer \in Plain, p.buffer # <<>>
  PROVE  /\ Step(p).event = Tagged(p.mode, p.buffer) /\ Step(p).event \in Seq(Events)
         /\ Dumps(Step(p).event) <=> WellFormed(p.buffer)
         /\ Step(p).parser.buffer = <<>> /\ ~Step(p).parser.inTool /\ Step(p).parser.mode = p.mode
<1>1. /\ p.buffer \in Seq(Atoms) /\ EndOf(p.mode) \in Markers /\ p.inTool \in BOOLEAN
      /\ p.mode \in {"content", "reasoning", "call"}
  BY ParserFields
<1>2. ~Has(p, EndOf(p.mode)) /\ ~Has(p, "<tool_call>")
  BY <1>1, NoMarker DEF Markers
<1>3. p.buffer[1] # EndOf(p.mode)
  <2>1. 1 \in 1..Len(p.buffer)
    BY <1>1, EmptySeq
  <2> QED BY <1>1, <2>1, PlainText
<1>4. Step(p) = OutsideTool(p)
  <2>1. Turned(p) = p
    BY <1>3, TurnsNone
  <2> QED BY <1>1, <1>2, <2>1 DEF Step
<1> QED BY <1>1, <1>2, <1>4, RestFields, TaggedText, DumpsText

\* A marker alone, outside tool blocks, says what it says to a reader.
LEMMA KeepsMarker ==
  ASSUME NEW p \in Parsers, NEW s \in Seq(Atoms), Agree(p, Reader[s]), ~p.inTool,
         NEW m \in Markers, p.buffer = <<m>>
  PROVE  Keeps(p, s) /\ Dumps(Step(p).event)
<1> DEFINE r == Reader[s]
           n == Reader[s \o p.buffer]
<1>1. /\ r \in Readers /\ r.sent \in Seq(Events) /\ r.sent \o <<>> = r.sent
      /\ ~r.inTool /\ p.mode = r.mode /\ m \in Atoms
  BY ReaderDef, ReaderFields DEF Agree, Atoms
<1>2. s \o p.buffer = Append(s, m) /\ Dumps(<<>>) /\ <<>> \in Seq(Events) /\ <<>> \in Seq(Atoms)
  <2>1. s \o <<m>> = Append(s, m)
    BY <1>1, AppendIsConcat
  <2>2. Dumps(<<>>)
    BY DEF Dumps, WellFormed
  <2> QED BY <2>1, <2>2
<1>3. n = Said(r, m) /\ n \in Readers
  <2>1. Reader[Append(s, m)] = Said(r, m)
    BY <1>1, ReaderDef
  <2>2. r \in Readers /\ m \in Atoms
    BY <1>1
  <2> HIDE DEF r
  <2>3. Said(r, m) \in Readers
    BY <2>2, SaidCases
  <2> QED BY <1>2, <2>1, <2>3
<1>4. /\ p.buffer # <<>> /\ p.buffer[1] = m /\ Len(p.buffer) = 1 /\ p.inTool = FALSE
      /\ p.mode \in {"content", "reasoning", "call"} /\ p.buffer \in Seq(Atoms)
      /\ EndOf(p.mode) \in Markers \ {"<tool_call>", "</tool_call>"} /\ Other(p.mode) \in Modes
  <2>1. p.buffer # <<>> /\ p.buffer[1] = m /\ Len(p.buffer) = 1
    OBVIOUS
  <2>2. p.inTool \in BOOLEAN /\ p.mode \in {"content", "reasoning", "call"} /\ p.buffer \in Seq(Atoms)
        /\ EndOf(p.mode) \in Markers \ {"<tool_call>", "</tool_call>"} /\ Other(p.mode) \in Modes
    BY ParserFields
  <2>3. p.inTool = FALSE
    BY <2>2
  <2> QED BY <2>1, <2>2, <2>3
<1>5. Step(p).parser \in Parsers
  BY <1>4, StepType
<1>6. Step(p).parser.inTool \in BOOLEAN /\ n.inTool \in BOOLEAN
  BY <1>3, <1>5, ParserFields, ReaderFields
<1>7. \A k \in Markers : Has(p, k) <=> k = m
  <2>1. \A i \in 1..Len(p.buffer) : p.buffer[i] = m
    BY <1>4
  <2>2. 1 \in 1..Len(p.buffer)
    BY <1>4
  <2> QED BY <2>1, <2>2, PlaceOf
<1>8. CASE m = "<tool_call>"
  <2>1. n.inTool /\ n.mode = r.mode /\ n.tool = <<>> /\ n.sent = r.sent
    <3>1. r \in Readers /\ m \in Atoms /\ ~r.inTool /\ n = Said(r, m)
      BY <1>1, <1>3
    <3> HIDE DEF n, r
    <3>2. /\ Said(r, m).inTool /\ Said(r, m).mode = r.mode /\ Said(r, m).tool = <<>>
          /\ Said(r, m).sent = r.sent
      <4>1. ~r.inTool /\ m = "<tool_call>" =>
              /\ Said(r, m).inTool /\ Said(r, m).mode = r.mode /\ Said(r, m).tool = <<>>
              /\ Said(r, m).sent = r.sent
        BY ONLY <3>1, SaidCases
      <4> QED BY <1>8, <3>1, <4>1
    <3> QED BY <3>1, <3>2, Zenon
  <2> DEFINE after == From(p, 2)
             nil == <<>>
             q == [after EXCEPT !.inTool = TRUE, !.tool = nil]
  <2>2. after \in Parsers /\ after.buffer = <<>> /\ after.mode = p.mode
    <3>1. 2 \in Nat \ {0}
      OBVIOUS
    <3>2. SubSeq(p.buffer, 2, Len(p.buffer)) = <<>>
      BY <1>4, SubSeqEmpty
    <3> QED BY <3>1, <3>2, FromFields
  <2>3. Step(p).event = <<>> /\ Step(p).parser = q
    <3>1. Has(p, "<tool_call>")
      BY <1>7, <1>8
    <3> QED BY <1>4, <1>8, <3>1 DEF Step, EnterTool, Result
  <2> HIDE DEF after, nil
  <2>4. q.buffer = after.buffer /\ q.inTool /\ q.mode = after.mode /\ q.tool = nil
    BY <2>2 DEF Parsers
  <2> HIDE DEF n, r
  <2> QED BY <1>1, <1>2, <1>6, <2>1, <2>2, <2>3, <2>4 DEF Keeps, Agree, n, r, nil
<1>9. CASE m # "<tool_call>" /\ m = EndOf(p.mode)
  <2>1. ~n.inTool /\ n.mode = Other(r.mode) /\ n.sent = r.sent
    <3> HIDE DEF n, r
    <3> QED BY <1>1, <1>3, <1>9, SaidCases
  <2> DEFINE q == Turned(p)
  <2>2. q \in Parsers /\ q.buffer = <<>> /\ q.mode = Other(p.mode) /\ q.inTool = p.inTool
    <3>1. SubSeq(p.buffer, 2, Len(p.buffer)) = <<>>
      BY <1>4, SubSeqEmpty
    <3> QED BY <1>4, <1>9, <3>1, TurnsOnce
  <2>3. Step(p) = OutsideTool(q)
    <3>1. ~Has(p, "<tool_call>")
      BY <1>7, <1>9 DEF Markers
    <3> QED BY <1>4, <3>1 DEF Step
  <2> HIDE DEF q
  <2>4. ~Has(q, EndOf(q.mode))
    <3>1. EndOf(q.mode) \in Markers /\ <<>> \in Plain
      BY <2>2, ParserFields DEF Plain
    <3> QED BY <2>2, <3>1, NoMarker
  <2>5. /\ Step(p).event = Tagged(q.mode, q.buffer)
        /\ Step(p).parser.buffer = <<>> /\ Step(p).parser.mode = q.mode
        /\ Step(p).parser.inTool = q.inTool
    BY <2>2, <2>3, <2>4, RestFields
  <2>6. Step(p).event = <<>>
    <3>1. q.mode \in {"content", "reasoning", "call"} /\ q.buffer = <<>> /\ <<>> \in Seq(Atoms)
      BY <1>2, <2>2, ParserFields
    <3>2. Tagged(q.mode, <<>>) = <<>>
      BY <3>1, TaggedText
    <3> QED BY <2>5, <3>1, <3>2
  <2> HIDE DEF n, r
  <2> QED BY <1>1, <1>2, <1>4, <1>6, <2>1, <2>2, <2>5, <2>6 DEF Keeps, Agree, n, r
<1>10. CASE m # "<tool_call>" /\ m # EndOf(p.mode)
  <2>1. ~n.inTool /\ n.mode = r.mode /\ n.sent = Append(r.sent, <<r.mode, m>>)
    <3>1. r \in Readers /\ m \in Atoms /\ ~r.inTool /\ n = Said(r, m) /\ m # EndOf(r.mode)
      BY <1>1, <1>3, <1>10
    <3> HIDE DEF n, r
    <3> QED BY <1>10, <3>1, SaidCases
  <2>2. Step(p) = OutsideTool(p)
    <3>1. ~Has(p, "<tool_call>")
      BY <1>7, <1>10 DEF Markers
    <3>2. Turned(p) = p
      BY <1>4, <1>10, TurnsNone
    <3> QED BY <1>4, <3>1, <3>2 DEF Step
  <2>3. ~Has(p, EndOf(p.mode))
    BY <1>4, <1>7, <1>10
  <2>4. /\ Step(p).event = Tagged(p.mode, p.buffer)
        /\ Step(p).parser.buffer = <<>> /\ Step(p).parser.mode = p.mode
        /\ Step(p).parser.inTool = p.inTool
    BY <2>2, <2>3, RestFields
  <2>5. Step(p).event \in Seq(Events) /\ Step(p).event = <<<<p.mode, m>>>>
    <3> DEFINE event == Tagged(p.mode, p.buffer)
    <3>1. /\ event \in Seq(Events) /\ Len(event) = Len(p.buffer)
          /\ \A i \in 1..Len(p.buffer) : event[i] = <<p.mode, p.buffer[i]>>
      BY <1>4, TaggedText
    <3> HIDE DEF event
    <3> DEFINE e == <<p.mode, m>>
    <3>2. Len(event) = 1 /\ event[1] = e
      BY <1>4, <3>1
    <3> HIDE DEF e, Events
    <3>3. event = <<e>>
      BY <3>1, <3>2
    <3> QED BY <2>4, <3>1, <3>3 DEF event, e
  <2>6. n.sent = r.sent \o Step(p).event
    <3> DEFINE e == <<r.mode, m>>
               before == r.sent
    <3>1. e \in Events /\ before \in Seq(Events)
      BY <1>1, ReaderFields
    <3> HIDE DEF e, before, Events
    <3>2. Append(before, e) = before \o <<e>>
      BY ONLY <3>1, AppendIsConcat
    <3> QED BY <1>1, <2>1, <2>5, <3>2 DEF e, before
  <2>7. Dumps(Step(p).event)
    <3>1. WellFormed(<<m>>)
      <4> DEFINE w == <<m>>
      <4>1. DOMAIN w = {1} /\ w[1] = m /\ m # "lead" /\ m # "cont"
        BY DEF Markers
      <4> HIDE DEF w
      <4> QED BY <4>1 DEF WellFormed, w
    <3> QED BY <1>4, <2>4, <3>1, DumpsText
  <2> HIDE DEF n, r
  <2> QED BY <1>1, <1>4, <1>6, <2>1, <2>4, <2>5, <2>6, <2>7 DEF Keeps, Agree, n, r
<1> QED BY <1>8, <1>9, <1>10

\* Plain text outside tool blocks says what it says to a reader.
LEMMA KeepsPlain ==
  ASSUME NEW p \in Parsers, NEW s \in Seq(Atoms), Agree(p, Reader[s]), ~p.inTool,
         p.buffer \in Plain, p.buffer # <<>>
  PROVE  Keeps(p, s)
<1> DEFINE r == Reader[s]
           n == Reader[s \o p.buffer]
<1>1. /\ r \in Readers /\ ~r.inTool /\ p.mode = r.mode /\ r.inTool \in BOOLEAN
  BY ReaderDef, ReaderFields DEF Agree
<1>2. n.inTool = r.inTool /\ n.mode = r.mode /\ n.sent = r.sent \o Tagged(r.mode, p.buffer)
  BY <1>1, ReadsPlain
<1>3. /\ Step(p).event = Tagged(p.mode, p.buffer) /\ Step(p).event \in Seq(Events)
      /\ Step(p).parser.buffer = <<>> /\ ~Step(p).parser.inTool /\ Step(p).parser.mode = p.mode
  BY StepSendsPlain
<1>4. Step(p).parser.inTool \in BOOLEAN
  BY StepType, ParserFields
<1> HIDE DEF r, n
<1> QED BY <1>1, <1>2, <1>3, <1>4 DEF Keeps, Agree, r, n

\* A marker behind a sequence that lacks bytes, outside tool blocks: what is to be
\* sent cannot be dumped, and a marker that is not sent with it stays in the buffer.
LEMMA StepSendsOpen ==
  ASSUME NEW p \in Parsers, ~p.inTool, NEW held \in Pendings, held # <<>>, NEW m \in Markers,
         p.buffer = Append(held, m)
  PROVE  /\ ~Dumps(Step(p).event)
         /\ ~Step(p).parser.inTool /\ Step(p).parser.mode = p.mode
         /\ \/ Step(p).parser.buffer = <<>>
            \/ Step(p).parser.buffer = <<m>> /\ m \in {"<tool_call>", EndOf(p.mode)}
<1>1. /\ held \in Plain /\ held \in Seq(Atoms) /\ ~WellFormed(held) /\ ~WellFormed(Append(held, m))
  BY PendingIsOpen
<1>2. /\ p.mode \in {"content", "reasoning", "call"} /\ p.inTool = FALSE /\ p.buffer \in Seq(Atoms)
      /\ EndOf(p.mode) \in Markers \ {"<tool_call>", "</tool_call>"}
  BY ParserFields
<1>3. /\ Has(p, m) /\ (\A k \in Markers \ {m} : ~Has(p, k)) /\ UpTo(p, m) = held
      /\ From(p, Place(p, m)).buffer = <<m>> /\ p.buffer # <<>> /\ p.buffer[1] \in Atoms \ Markers
      /\ Place(p, m) = Len(held) + 1
  BY <1>1, MarkerLast
<1>4. From(p, Place(p, m)).mode = p.mode /\ From(p, Place(p, m)).inTool = p.inTool
  <2>1. Place(p, m) \in Nat \ {0}
    BY <1>1, <1>3
  <2> QED BY <2>1, FromFields
<1>5. ~Dumps(Tagged(p.mode, held)) /\ ~Dumps(Tagged(p.mode, p.buffer))
  BY <1>1, <1>2, DumpsText
<1>6. ASSUME Step(p) = TextBefore(p, m), m \in {"<tool_call>", EndOf(p.mode)}
      PROVE  /\ ~Dumps(Step(p).event) /\ ~Step(p).parser.inTool /\ Step(p).parser.mode = p.mode
             /\ Step(p).parser.buffer = <<m>> /\ m \in {"<tool_call>", EndOf(p.mode)}
  BY <1>2, <1>3, <1>4, <1>5, <1>6 DEF TextBefore, Result
<1>7. CASE m = "<tool_call>"
  <2>1. Step(p) = TextBefore(p, m)
    BY <1>2, <1>3, <1>7 DEF Step, Markers
  <2> QED BY <1>6, <1>7, <2>1
<1>8. CASE m # "<tool_call>"
  <2>1. ~Has(p, "<tool_call>") /\ Turned(p) = p
    BY <1>2, <1>3, <1>8, TurnsNone DEF Markers
  <2>2. Step(p) = OutsideTool(p)
    BY <1>2, <2>1 DEF Step
  <2>3. CASE m = EndOf(p.mode)
    BY <1>3, <1>6, <2>2, <2>3 DEF OutsideTool
  <2>4. CASE m # EndOf(p.mode)
    <3>1. ~Has(p, EndOf(p.mode))
      BY <1>2, <1>3, <2>4
    <3>2. /\ OutsideTool(p).event = Tagged(p.mode, p.buffer)
          /\ OutsideTool(p).parser.buffer = <<>> /\ OutsideTool(p).parser.mode = p.mode
          /\ OutsideTool(p).parser.inTool = p.inTool
      BY <3>1, RestFields
    <3> QED BY <1>2, <1>5, <2>2, <3>2
  <2> QED BY <2>3, <2>4
<1> QED BY <1>7, <1>8

\* The marker that stayed, before what the stream had held and the marker again:
\* a tool block is entered, or the mode ends and what is sent cannot be dumped.
LEMMA StepStuck ==
  ASSUME NEW p \in Parsers, ~p.inTool, NEW held \in Pendings, held # <<>>, NEW m \in Markers,
         m \in {"<tool_call>", EndOf(p.mode)}, p.buffer = <<m>> \o Append(held, m)
  PROVE  Step(p).event = <<>> \/ ~Dumps(Step(p).event)
<1> DEFINE rest == Append(held, m)
           b == p.buffer
<1>1. /\ held \in Plain /\ held \in Seq(Atoms) /\ ~WellFormed(rest) /\ m \in Atoms
      /\ (\A i \in 1..Len(held) : held[i] \in Atoms \ Markers) /\ Len(held) \in Nat \ {0}
  BY PendingIsOpen, PlainText, EmptySeq DEF Atoms
<1>2. /\ rest \in Seq(Atoms) /\ Len(rest) = Len(held) + 1 /\ rest[Len(held) + 1] = m
      /\ \A i \in 1..Len(held) : rest[i] = held[i]
  BY <1>1, AppendProperties
<1> HIDE DEF rest
<1>3. /\ b \in Seq(Atoms) /\ Len(b) = Len(rest) + 1 /\ b[1] = m /\ \A i \in 1..Len(rest) : b[i + 1] = rest[i]
  <2>1. b = <<m>> \o rest /\ <<m>> \in Seq(Atoms) /\ Len(<<m>>) = 1 /\ <<m>>[1] = m
    BY <1>1 DEF rest
  <2> DEFINE one == <<m>>
  <2>2. one \in Seq(Atoms) /\ Len(one) = 1 /\ one[1] = m /\ b = one \o rest
    BY <2>1
  <2> HIDE DEF b, one
  <2>3. /\ one \o rest \in Seq(Atoms) /\ Len(one \o rest) = Len(one) + Len(rest)
        /\ \A i \in 1..Len(one) + Len(rest) :
             (one \o rest)[i] = IF i <= Len(one) THEN one[i] ELSE rest[i - Len(one)]
    BY <1>2, <2>2, ConcatProperties
  <2>4. Len(rest) \in Nat /\ b[1] = m
    BY <1>1, <1>2, <2>2, <2>3
  <2>5. \A i \in 1..Len(rest) : b[i + 1] = rest[i]
    <3>1. ASSUME NEW i \in 1..Len(rest) PROVE b[i + 1] = rest[i]
      <4>1. i + 1 \in 1..Len(one) + Len(rest) /\ ~(i + 1 <= Len(one)) /\ (i + 1) - Len(one) = i
        BY <2>2, <2>4
      <4>2. b[i + 1] = rest[(i + 1) - Len(one)]
        BY <2>2, <2>3, <4>1
      <4> QED BY <4>1, <4>2
    <3> QED BY <3>1
  <2>6. b \in Seq(Atoms) /\ Len(b) = Len(rest) + 1
    BY <2>2, <2>3, <2>4
  <2> QED BY <2>4, <2>5, <2>6
<1>4. /\ p.mode \in {"content", "reasoning", "call"} /\ p.inTool = FALSE
      /\ EndOf(p.mode) \in Markers \ {"<tool_call>", "</tool_call>"}
      /\ EndOf(Other(p.mode)) \in Markers \ {"<tool_call>", "</tool_call>", EndOf(p.mode)}
  BY ParserFields
<1>5. b # <<>>
  BY <1>2, <1>3
<1>6. CASE m = "<tool_call>"
  <2>1. Has(p, "<tool_call>")
    <3>1. 1 \in 1..Len(p.buffer) /\ p.buffer[1] = "<tool_call>"
      BY <1>1, <1>2, <1>3, <1>6
    <3> QED BY <3>1, PlaceOf DEF Markers
  <2> QED BY <1>3, <1>4, <1>6, <2>1 DEF Step, Result
<1>7. CASE m # "<tool_call>"
  <2>1. m = EndOf(p.mode)
    BY <1>7
  <2>2. \A i \in 1..Len(b) : i = 1 \/ i = Len(held) + 2 \/ (i - 1 \in 1..Len(held) /\ b[i] = held[i - 1])
    <3>1. ASSUME NEW i \in 1..Len(b), i # 1, i # Len(held) + 2
          PROVE  i - 1 \in 1..Len(held) /\ b[i] = held[i - 1]
      <4>1. i - 1 \in 1..Len(held) /\ i - 1 \in 1..Len(rest) /\ (i - 1) + 1 = i
        BY <1>1, <1>2, <1>3, <3>1
      <4> QED BY <1>2, <1>3, <4>1
    <3> QED BY <3>1
  <2>3. ~Has(p, "<tool_call>")
    <3>1. \A i \in 1..Len(b) : b[i] = m \/ b[i] \notin Markers
      <4>1. b[Len(held) + 2] = m
        <5>1. Len(held) + 1 \in 1..Len(rest) /\ (Len(held) + 1) + 1 = Len(held) + 2
          BY <1>1, <1>2
        <5> QED BY <1>2, <1>3, <5>1
      <4> QED BY <1>1, <1>3, <2>2, <4>1
    <3> QED BY <1>7, <3>1, PlaceOf DEF Markers
  <2>4. b[2] \notin Markers
    <3>1. 1 \in 1..Len(rest) /\ 1 \in 1..Len(held) /\ 1 + 1 = 2
      BY <1>1, <1>2
    <3> QED BY <1>1, <1>2, <1>3, <3>1
  <2> DEFINE q == Turned(p)
  <2>5. q \in Parsers /\ q.buffer = SubSeq(b, 2, Len(b)) /\ q.mode = Other(p.mode)
    BY <1>3, <1>4, <1>5, <2>1, <2>4, TurnsOnce
  <2>6. SubSeq(b, 2, Len(b)) = rest
    <3> DEFINE s == SubSeq(b, 2, Len(b))
    <3>1. s \in Seq(Atoms) /\ Len(s) = Len(rest) /\ \A i \in 1..Len(rest) : s[i] = b[i + 1]
      <4> HIDE DEF b
      <4> QED BY <1>1, <1>2, <1>3
    <3>2. \A i \in 1..Len(s) : s[i] = rest[i]
      BY <1>3, <3>1
    <3> HIDE DEF s
    <3>3. s = rest
      BY <1>2, <3>1, <3>2, SeqEqual
    <3> QED BY <3>3 DEF s
  <2>7. Step(p) = OutsideTool(q)
    BY <1>4, <2>3 DEF Step
  <2> HIDE DEF q
  <2>8. ~Has(q, EndOf(q.mode))
    <3>1. q.buffer = Append(held, m) /\ EndOf(q.mode) \in Markers \ {m}
      BY <1>4, <2>1, <2>5, <2>6 DEF rest
    <3> QED BY <1>1, <2>5, <3>1, MarkerLast
  <2>9. Step(p).event = Tagged(q.mode, rest)
    BY <2>5, <2>6, <2>7, <2>8, RestFields
  <2>10. q.mode \in {"content", "reasoning", "call"}
    BY <2>5, ParserFields
  <2> QED BY <1>1, <1>2, <2>9, <2>10, DumpsText
<1> QED BY <1>6, <1>7

-----------------------------------------------------------------------------
(***************************************************************************)
(* A chunk on its way through the parser                                   *)
(***************************************************************************)
Fed(p, c) == [p EXCEPT !.buffer = @ \o c]

\* A stream that is bad: what it holds, and what the parser may have kept of it,
\* never become a chunk again.
Stuck(b, p) ==
  \/ b \in Plain /\ ~WellFormed(b) /\ p.buffer = <<>>
  \/ \E held \in Pendings \ {<<>>}, m \in Markers :
       /\ b = Append(held, m)
       /\ \/ p.buffer = <<>>
          \/ p.buffer = <<m>> /\ m \in {"<tool_call>", EndOf(p.mode)}

\* A parser with more in its buffer.
LEMMA FedFields ==
  ASSUME NEW p \in Parsers, NEW c \in Seq(Atoms)
  PROVE  /\ Fed(p, c) \in Parsers /\ Fed(p, c).buffer = p.buffer \o c
         /\ Fed(p, c).inTool = p.inTool /\ Fed(p, c).mode = p.mode /\ Fed(p, c).tool = p.tool
         /\ p.buffer = <<>> => Fed(p, c).buffer = c
<1> DEFINE b == p.buffer \o c
<1>1. b \in Seq(Atoms) /\ (p.buffer = <<>> => b = c)
  BY ParserFields
<1>2. Fed(p, c) = [p EXCEPT !.buffer = b]
  BY DEF Fed
<1> HIDE DEF b
<1>3. /\ Fed(p, c) \in Parsers /\ Fed(p, c).buffer = b
      /\ Fed(p, c).inTool = p.inTool /\ Fed(p, c).mode = p.mode /\ Fed(p, c).tool = p.tool
  BY <1>1, <1>2 DEF Parsers
<1> QED BY <1>1, <1>3 DEF b

\* What is known of the result n for the chunk c, after the text s, when the stream
\* would hold b if it turns bad.
Outcome(n, s, c, b) ==
  /\ n.parser \in Parsers
  /\ Dumps(n.event) =>
       /\ n.parser.buffer = <<>> /\ Agree(n.parser, Reader[s \o c])
       /\ n.event \in Seq(Events) /\ Reader[s \o c].sent = Reader[s].sent \o n.event
  /\ ~Dumps(n.event) => ~WellFormed(c) /\ ~n.parser.inTool /\ Stuck(b, n.parser)

\* A chunk that can be dumped says what a reader of the text says; one that cannot
\* is ill-formed, and leaves the stream stuck.
LEMMA ChunkKeeps ==
  ASSUME NEW p \in Parsers, NEW s \in Seq(Atoms), p.buffer = <<>>, Agree(p, Reader[s]),
         NEW pending \in Pendings, NEW t \in Tokens, NEW c, c = Scan[pending \o t].complete,
         c # <<>>, NEW n, n = Step(Fed(p, c))
  PROVE  Outcome(n, s, c, pending \o t)
<1> DEFINE q == Fed(p, c)
<1>1. /\ t \in Seq(Atoms) /\ pending \o t \in Seq(Atoms) /\ c \in Seq(Atoms) /\ pending \in Plain
      /\ pending \in Seq(Atoms)
  BY ChunkShape, ScanDef, PendingIsOpen
<1>2. /\ q \in Parsers /\ q.buffer = c /\ q.inTool = p.inTool /\ q.inTool \in BOOLEAN /\ q.mode = p.mode
      /\ Agree(q, Reader[s])
  <2>1. q \in Parsers /\ q.buffer = c /\ q.inTool = p.inTool /\ q.mode = p.mode /\ q.tool = p.tool
    BY <1>1, FedFields
  <2> HIDE DEF q
  <2> QED BY <2>1, ParserFields DEF Agree
<1>3. n = Step(q)
  OBVIOUS
<1> HIDE DEF q
<1>4. n.parser \in Parsers
  BY <1>2, <1>3, StepType
<1> DEFINE Goal == /\ Dumps(n.event) =>
                        /\ n.parser.buffer = <<>> /\ Agree(n.parser, Reader[s \o c])
                        /\ n.event \in Seq(Events) /\ Reader[s \o c].sent = Reader[s].sent \o n.event
                   /\ ~Dumps(n.event) => ~WellFormed(c) /\ ~n.parser.inTool /\ Stuck(pending \o t, n.parser)
<1> SUFFICES Goal
  BY <1>4 DEF Outcome
<1>5. ASSUME Keeps(q, s), Dumps(n.event)
      PROVE  Goal
  BY <1>2, <1>3, <1>5 DEF Keeps
<1>6. CASE t \in Plain /\ pending \o t \in Plain /\ c \in Plain
  <2>1. CASE q.inTool
    <3>1. Keeps(q, s) /\ Dumps(n.event)
      BY <1>2, <1>3, <1>6, <2>1, KeepsInTool
    <3> HIDE DEF Goal
    <3> QED BY <1>5, <3>1
  <2>2. CASE ~q.inTool
    <3>1. Keeps(q, s)
      BY <1>2, <1>6, <2>2, KeepsPlain
    <3>2. (Dumps(n.event) <=> WellFormed(c)) /\ n.parser.buffer = <<>> /\ ~n.parser.inTool
      BY <1>2, <1>3, <1>6, <2>2, StepSendsPlain
    <3>3. CASE Dumps(n.event)
      <4> HIDE DEF Goal
      <4> QED BY <1>5, <3>1, <3>3
    <3>4. CASE ~Dumps(n.event)
      <4>1. ~WellFormed(pending \o t)
        BY <1>1, <3>2, <3>4, WholeIfWellFormed
      <4>2. Stuck(pending \o t, n.parser)
        BY <1>6, <3>2, <4>1 DEF Stuck
      <4> QED BY <3>2, <3>4, <4>2
    <3> HIDE DEF Goal
    <3> QED BY <3>3, <3>4
  <2> HIDE DEF Goal
  <2> QED BY <2>1, <2>2
<1>7. CASE \E m \in Markers : pending \o t = Append(pending, m) /\ c = Append(pending, m)
  <2>1. PICK m \in Markers : pending \o t = Append(pending, m) /\ c = Append(pending, m)
    BY <1>7
  <2>2. CASE q.inTool
    <3>1. Keeps(q, s) /\ Dumps(n.event)
      BY <1>1, <1>2, <1>3, <2>1, <2>2, KeepsInTool
    <3> HIDE DEF Goal
    <3> QED BY <1>5, <3>1
  <2>3. CASE ~q.inTool /\ pending = <<>>
    <3>1. q.buffer = <<m>>
      BY <1>2, <2>1, <2>3
    <3>2. Keeps(q, s) /\ Dumps(n.event)
      BY <1>2, <1>3, <2>3, <3>1, KeepsMarker
    <3> HIDE DEF Goal
    <3> QED BY <1>5, <3>2
  <2>4. CASE ~q.inTool /\ pending # <<>>
    <3>1. /\ ~Dumps(n.event) /\ ~n.parser.inTool /\ n.parser.mode = q.mode
          /\ \/ n.parser.buffer = <<>>
             \/ n.parser.buffer = <<m>> /\ m \in {"<tool_call>", EndOf(q.mode)}
      BY <1>2, <1>3, <2>1, <2>4, StepSendsOpen
    <3>2. ~WellFormed(c)
      BY <2>1, <2>4, PendingIsOpen
    <3>3. Stuck(pending \o t, n.parser)
      BY <2>1, <2>4, <3>1 DEF Stuck
    <3> QED BY <3>1, <3>2, <3>3
  <2> HIDE DEF Goal
  <2> QED BY <2>2, <2>3, <2>4
<1> HIDE DEF Goal
<1> QED BY <1>6, <1>7, ChunkShape

\* What a bad stream holds never reaches the client, not at the end either.
LEMMA StuckSendsNothing ==
  ASSUME NEW p \in Parsers, ~p.inTool, NEW b \in Seq(Atoms), Stuck(b, p)
  PROVE  Step(Fed(p, b)).event = <<>> \/ ~Dumps(Step(Fed(p, b)).event)
<1> DEFINE q == Fed(p, b)
<1>1. /\ q \in Parsers /\ ~q.inTool /\ q.mode = p.mode /\ q.buffer = p.buffer \o b
      /\ (p.buffer = <<>> => q.buffer = b)
  BY FedFields
<1> SUFFICES Step(q).event = <<>> \/ ~Dumps(Step(q).event)
  OBVIOUS
<1> HIDE DEF q
<1>2. CASE b \in Plain /\ ~WellFormed(b) /\ p.buffer = <<>>
  <2>1. b # <<>>
    <3>1. WellFormed(<<>>)
      BY DEF WellFormed
    <3> QED BY <1>2, <3>1
  <2>2. q.buffer \in Plain /\ q.buffer # <<>> /\ ~WellFormed(q.buffer)
    BY <1>1, <1>2, <2>1
  <2> QED BY <1>1, <2>2, StepSendsPlain
<1>3. ASSUME NEW held \in Pendings \ {<<>>}, NEW m \in Markers, b = Append(held, m),
             \/ p.buffer = <<>>
             \/ p.buffer = <<m>> /\ m \in {"<tool_call>", EndOf(p.mode)}
      PROVE  Step(q).event = <<>> \/ ~Dumps(Step(q).event)
  <2>1. CASE p.buffer = <<>>
    <3>1. q.buffer = Append(held, m)
      BY <1>1, <1>3, <2>1
    <3> QED BY <1>1, <1>3, <3>1, StepSendsOpen
  <2>2. CASE p.buffer = <<m>> /\ m \in {"<tool_call>", EndOf(p.mode)}
    <3>1. q.buffer = <<m>> \o Append(held, m) /\ m \in {"<tool_call>", EndOf(q.mode)}
      BY <1>1, <1>3, <2>2
    <3> QED BY <1>1, <1>3, <3>1, StepStuck
  <2> QED BY <1>3, <2>1, <2>2
<1> QED BY <1>2, <1>3 DEF Stuck

\* A sequence that lacks bytes at the end is part of a tool call, or cannot be dumped.
LEMMA PendingSendsNothing ==
  ASSUME NEW p \in Parsers, p.buffer = <<>>, NEW b \in Pendings, b # <<>>
  PROVE  /\ p.inTool => Step(Fed(p, b)).event = <<>>
         /\ ~p.inTool => ~Dumps(Step(Fed(p, b)).event)
<1> DEFINE q == Fed(p, b)
<1>1. b \in Plain /\ b \in Seq(Atoms) /\ ~WellFormed(b)
  BY PendingIsOpen
<1>2. q \in Parsers /\ q.inTool = p.inTool /\ q.buffer = b
  BY <1>1, FedFields
<1> SUFFICES /\ q.inTool => Step(q).event = <<>>
             /\ ~q.inTool => ~Dumps(Step(q).event)
  BY <1>2
<1> HIDE DEF q
<1>3. q.inTool => Step(q).event = <<>>
  <2>1. ~Has(q, "</tool_call>")
    BY <1>1, <1>2, NoMarker DEF Markers
  <2> QED BY <1>2, <2>1, StepGrows
<1>4. ~q.inTool => ~Dumps(Step(q).event)
  BY <1>1, <1>2, StepSendsPlain
<1> QED BY <1>3, <1>4

-----------------------------------------------------------------------------
(***************************************************************************)
(* The inductive invariant                                                 *)
(***************************************************************************)
Typed == TypeOK /\ parser \in Parsers /\ sent \in Seq(Events)

\* A good stream holds the sequence that the text so far ends inside.
HeldIsPending == good /\ phase # "done" => buffer = Scan[text].pending

\* The parser has read what the stream let through, and holds none of it.
ParserIsReader ==
  good /\ ~cancelled /\ kind = "chat" /\ phase \in {"generate", "finalize"} =>
    parser.buffer = <<>> /\ Agree(parser, Reader[Scan[text].complete])

\* A cancel ends the generation, and resets the parser.
CancelIsLast ==
  /\ phase = "generate" => ~cancelled
  /\ cancelled /\ phase = "finalize" => parser.buffer = <<>> /\ ~parser.inTool

\* A stream is bad only of an ill-formed text, and stays so.
BadIsStuck ==
  ~good =>
    /\ ~Valid(text)
    /\ phase \in {"generate", "finalize"} =>
         /\ kind = "text" => ~WellFormed(buffer)
         /\ kind = "chat" => ~parser.inTool /\ Stuck(buffer, parser)

Answered == SentIsSaid /\ NothingHeldBack /\ DoneIsAll /\ WellFormedIsNotCut

IInv == Typed /\ HeldIsPending /\ ParserIsReader /\ CancelIsLast /\ BadIsStuck /\ Answered

\* What a text says, in a request of either kind.
SaidBy(k, b) == IF k = "text" THEN Tagged("content", b) ELSE Reader[b].sent

\* It grows with the text; without a parser it is the text.
LEMMA SaidByDef ==
  ASSUME NEW k, NEW b \in Seq(Atoms)
  PROVE  /\ SaidBy(k, b) \in Seq(Events)
         /\ b = <<>> => SaidBy(k, b) = <<>>
         /\ \A t \in Seq(Atoms) : /\ IsPrefix(SaidBy(k, b), SaidBy(k, b \o t))
                                  /\ SaidBy(k, b \o t) \in Seq(Events)
                                  /\ k = "text" => SaidBy(k, b \o t) = SaidBy(k, b) \o Tagged("content", t)
<1>1. ASSUME NEW u \in Seq(Atoms)
      PROVE  Tagged("content", u) \in Seq(Events) /\ Reader[u].sent \in Seq(Events)
  <2>1. Tagged("content", u) \in Seq(Events)
    BY TaggedText
  <2>2. Reader[u].sent \in Seq(Events)
    BY ReaderDef, ReaderFields
  <2> QED BY <2>1, <2>2
<1>2. b = <<>> => Tagged("content", b) = <<>> /\ Reader[b].sent = <<>>
  BY TaggedText, ReaderDef
<1>3. ASSUME NEW t \in Seq(Atoms)
      PROVE  /\ IsPrefix(SaidBy(k, b), SaidBy(k, b \o t)) /\ SaidBy(k, b \o t) \in Seq(Events)
             /\ k = "text" => SaidBy(k, b \o t) = SaidBy(k, b) \o Tagged("content", t)
  <2>1. b \o t \in Seq(Atoms)
    OBVIOUS
  <2>2. SaidBy(k, b \o t) \in Seq(Events)
    BY <1>1, <2>1 DEF SaidBy
  <2>3. Tagged("content", b \o t) = Tagged("content", b) \o Tagged("content", t)
    BY TaggedText
  <2>4. CASE k = "text"
    <3> DEFINE x == Tagged("content", b)
               y == Tagged("content", t)
    <3>1. x \in Seq(Events) /\ y \in Seq(Events) /\ SaidBy(k, b \o t) = x \o y /\ SaidBy(k, b) = x
      BY <1>1, <2>3, <2>4 DEF SaidBy
    <3> HIDE DEF x, y
    <3>2. IsPrefix(x, x \o y)
      BY <3>1, PrefixOfConcat
    <3> QED BY <2>2, <3>1, <3>2 DEF y
  <2>5. CASE k # "text"
    BY <2>2, <2>5, ReaderGrows DEF SaidBy
  <2> QED BY <2>4, <2>5
<1> QED BY <1>1, <1>2, <1>3 DEF SaidBy

\* The pieces of the invariant that the steps use, and how a next state keeps it.
LEMMA Pieces ==
  /\ SentIsSaid <=> IsPrefix(sent, SaidBy(kind, Scan[text].complete))
  /\ NothingHeldBack <=> (good /\ ~cancelled /\ phase \in {"generate", "finalize", "done"} =>
                            sent = SaidBy(kind, Scan[text].complete))
  /\ DoneIsAll <=> (phase = "done" /\ ~cancelled /\ Valid(text) => sent = SaidBy(kind, text))
BY DEF SentIsSaid, NothingHeldBack, DoneIsAll, ValidText, Valid, Meaning, SaidBy

\* The same of the next state.
LEMMA NextPieces ==
  /\ SentIsSaid' <=> IsPrefix(sent', SaidBy(kind', Scan[text'].complete))
  /\ NothingHeldBack' <=> (good' /\ ~cancelled' /\ phase' \in {"generate", "finalize", "done"} =>
                             sent' = SaidBy(kind', Scan[text'].complete))
  /\ DoneIsAll' <=> (phase' = "done" /\ ~cancelled' /\ Valid(text') => sent' = SaidBy(kind', text'))
BY DEF SentIsSaid, NothingHeldBack, DoneIsAll, ValidText, Valid, Meaning, SaidBy

\* The types, one by one.
LEMMA Types ==
  ASSUME Typed
  PROVE  /\ phase \in {"idle", "generate", "finalize", "done", "cut", "error"}
         /\ kind \in Kinds /\ kind \in {"chat", "text"} /\ MaxText[kind] \in Nat
         /\ text \in Seq(Atoms) /\ Len(text) <= MaxText[kind] /\ buffer \in Seq(Atoms)
         /\ good \in BOOLEAN /\ cancelled \in BOOLEAN /\ parser \in Parsers /\ sent \in Seq(Events)
BY StreamAssumption DEF Typed, TypeOK

\* What is pending has the type of what a good stream holds.
LEMMA PendingHead ==
  ASSUME NEW p \in Pendings
  PROVE  p = <<>> \/ (Head(p) = "lead" /\ Len(p) < SeqLen)
BY DEF Pendings

\* A parser has the types of its parts.
LEMMA ParserTypes ==
  ASSUME NEW p \in Parsers
  PROVE  p.buffer \in Seq(Atoms) /\ p.tool \in Seq(Atoms) /\ p.mode \in {"content", "reasoning"} /\ p.inTool \in BOOLEAN
BY DEF Parsers, Modes

\* A reset leaves a parser that agrees with a reader of nothing.
LEMMA ResetFields ==
  ASSUME parser \in Parsers
  PROVE  /\ ResetParser \in Parsers /\ ResetParser.buffer = <<>> /\ ~ResetParser.inTool
         /\ Agree(ResetParser, Reader[<<>>])
         /\ [ResetParser EXCEPT !.tool = <<>>] \in Parsers
         /\ [ResetParser EXCEPT !.tool = <<>>].buffer = <<>> /\ ~[ResetParser EXCEPT !.tool = <<>>].inTool
<1> DEFINE nil == <<>>
           r == [parser EXCEPT !.buffer = nil, !.inTool = FALSE, !.mode = "content"]
           s == [r EXCEPT !.tool = nil]
<1>1. ResetParser = r /\ [ResetParser EXCEPT !.tool = <<>>] = s
  BY DEF ResetParser
<1>2. nil \in Seq(Atoms) /\ "content" \in Modes
  BY DEF Modes
<1> HIDE DEF nil
<1>3. r \in Parsers /\ r.buffer = nil /\ r.inTool = FALSE /\ r.mode = "content"
  BY <1>2 DEF Parsers
<1> HIDE DEF r
<1>4. s \in Parsers /\ s.buffer = r.buffer /\ s.inTool = r.inTool
  BY <1>2, <1>3 DEF Parsers
<1>5. Reader[<<>>].inTool = FALSE /\ Reader[<<>>].mode = "content"
  <2>1. <<>> \in Seq(Atoms)
    OBVIOUS
  <2> QED BY <2>1, ReaderDef, ReaderFields
<1>6. Agree(r, Reader[<<>>])
  BY <1>3, <1>5 DEF Agree
<1> HIDE DEF s
<1> QED BY <1>1, <1>3, <1>4, <1>6 DEF nil

-----------------------------------------------------------------------------
(***************************************************************************)
(* Each step keeps the invariant                                           *)
(***************************************************************************)
\* What the stream lets through when the token t is written to it.
NextChunk(t) == Scan[Scan[text].pending \o t].complete

\* The text one token longer.
LEMMA TokenText ==
  ASSUME IInv, NEW t \in Tokens, Token(t)
  PROVE  /\ phase = "generate" /\ phase' = "generate" /\ kind' = kind
         /\ cancelled = FALSE /\ cancelled' = FALSE
         /\ text' = text \o t /\ text' \in Seq(Atoms) /\ Len(text') <= MaxText[kind] /\ t \in Seq(Atoms)
         /\ Scan[text].complete \in Seq(Atoms) /\ Scan[text].pending \in Pendings /\ NextChunk(t) \in Seq(Atoms)
         /\ Scan[text'].complete = Scan[text].complete \o NextChunk(t)
         /\ Scan[text'].pending = Scan[Scan[text].pending \o t].pending
         /\ Scan[text'].pending \in Pendings
         /\ Valid(text') => Valid(text) /\ WellFormed(NextChunk(t))
         /\ SaidBy(kind, Scan[text].complete) \in Seq(Events)
         /\ SaidBy(kind, Scan[text'].complete) \in Seq(Events)
         /\ IsPrefix(sent, SaidBy(kind, Scan[text'].complete))
<1>1. /\ phase = "generate" /\ phase' = "generate" /\ kind' = kind /\ cancelled' = cancelled
      /\ text' = text \o t /\ Len(text) + Len(t) <= MaxText[kind]
  BY DEF Token
<1>2. text \in Seq(Atoms) /\ MaxText[kind] \in Nat /\ cancelled \in BOOLEAN /\ sent \in Seq(Events)
  BY Types DEF IInv
<1>3. cancelled = FALSE
  BY <1>1, <1>2 DEF IInv, CancelIsLast
<1>4. t \in Seq(Atoms) /\ Scan[text].pending \in Pendings /\ Scan[text].complete \in Seq(Atoms)
  BY <1>2, ScanPending, ScanDef, ChunkShape
<1>5. text \o t \in Seq(Atoms) /\ Len(text \o t) = Len(text) + Len(t)
  BY <1>2, <1>4
<1>6. /\ Scan[text].pending \o t \in Seq(Atoms)
      /\ Scan[text \o t].complete = Scan[text].complete \o NextChunk(t)
      /\ Scan[text \o t].pending = Scan[Scan[text].pending \o t].pending
  BY <1>2, <1>4, ScanSplit DEF NextChunk
<1>7. NextChunk(t) \in Seq(Atoms) /\ Scan[text \o t].pending \in Pendings
  BY <1>5, <1>6, ScanDef, ScanPending DEF NextChunk
<1>8. Valid(text \o t) => Valid(text) /\ WellFormed(NextChunk(t))
  BY <1>2, <1>4, ValidParts DEF NextChunk
<1> DEFINE before == SaidBy(kind, Scan[text].complete)
           after == SaidBy(kind, Scan[text].complete \o NextChunk(t))
<1>9. before \in Seq(Events) /\ after \in Seq(Events) /\ IsPrefix(before, after)
  BY <1>4, <1>7, SaidByDef
<1>10. IsPrefix(sent, before)
  BY Pieces DEF IInv, Answered
<1>11. IsPrefix(sent, after)
  <2> HIDE DEF before, after
  <2> QED BY <1>2, <1>9, <1>10, PrefixTransitive
<1> QED BY <1>1, <1>3, <1>4, <1>5, <1>6, <1>7, <1>8, <1>9, <1>11

\* A bad stream ignores a token.
LEMMA TokenIgnoredKeeps ==
  ASSUME IInv, NEW t \in Tokens, TokenIgnored(t)
  PROVE  IInv'
<1>1. Token(t) /\ ~good /\ buffer' = buffer /\ good' = good /\ parser' = parser /\ sent' = sent
  BY DEF TokenIgnored
<1>2. /\ phase = "generate" /\ phase' = "generate" /\ kind' = kind /\ cancelled' = FALSE
      /\ text' \in Seq(Atoms) /\ Len(text') <= MaxText[kind] /\ (Valid(text') => Valid(text))
      /\ IsPrefix(sent, SaidBy(kind, Scan[text'].complete))
  BY <1>1, TokenText
<1>3. Typed'
  BY <1>1, <1>2 DEF IInv, Typed, TypeOK
<1>4. HeldIsPending' /\ ParserIsReader' /\ CancelIsLast'
  BY <1>1, <1>2 DEF HeldIsPending, ParserIsReader, CancelIsLast
<1>5. BadIsStuck'
  BY <1>1, <1>2 DEF IInv, BadIsStuck
<1>6. Answered'
  BY <1>1, <1>2, NextPieces DEF Answered, WellFormedIsNotCut
<1> QED BY <1>3, <1>4, <1>5, <1>6 DEF IInv

\* A token completes no sequence.
LEMMA TokenHeldKeeps ==
  ASSUME IInv, NEW t \in Tokens, TokenHeld(t)
  PROVE  IInv'
<1>1. /\ Token(t) /\ good /\ Scan[buffer \o t].complete = <<>> /\ buffer' = Scan[buffer \o t].pending
      /\ good' = good /\ parser' = parser /\ sent' = sent
  BY DEF TokenHeld
<1>2. /\ phase = "generate" /\ phase' = "generate" /\ kind' = kind /\ cancelled = FALSE /\ cancelled' = FALSE
      /\ text' \in Seq(Atoms) /\ Len(text') <= MaxText[kind]
      /\ Scan[text].complete \in Seq(Atoms)
      /\ Scan[text'].complete = Scan[text].complete \o NextChunk(t)
      /\ Scan[text'].pending = Scan[Scan[text].pending \o t].pending /\ Scan[text'].pending \in Pendings
      /\ IsPrefix(sent, SaidBy(kind, Scan[text'].complete))
  BY <1>1, TokenText
<1>3. buffer = Scan[text].pending
  BY <1>1, <1>2 DEF IInv, HeldIsPending
<1>4. Scan[text'].complete = Scan[text].complete
  <2>1. NextChunk(t) = <<>>
    BY <1>1, <1>3 DEF NextChunk
  <2> QED BY <1>2, <2>1
<1>5. buffer' = Scan[text'].pending
  BY <1>1, <1>2, <1>3
<1>6. Typed'
  <2>1. buffer' \in Seq(Atoms) /\ (buffer' = <<>> \/ (Head(buffer') = "lead" /\ Len(buffer') < SeqLen))
    BY <1>2, <1>5, PendingHead, PendingsDef
  <2> QED BY <1>1, <1>2, <2>1 DEF IInv, Typed, TypeOK
<1>7. HeldIsPending' /\ ParserIsReader' /\ CancelIsLast' /\ BadIsStuck'
  BY <1>1, <1>2, <1>4, <1>5 DEF IInv, HeldIsPending, ParserIsReader, CancelIsLast, BadIsStuck
<1>8. Answered'
  BY <1>1, <1>2, <1>4, Pieces, NextPieces DEF IInv, Answered, WellFormedIsNotCut
<1> QED BY <1>6, <1>7, <1>8 DEF IInv

\* A chunk in either kind of stream.
LEMMA ChunkDef ==
  ASSUME NEW c
  PROVE  /\ kind = "chat" => Chunk(c) = Step(Fed(parser, c))
         /\ kind = "text" => Chunk(c).parser = parser /\ Chunk(c).event = Tagged("content", c)
BY DEF Chunk, Parse, Fed, Result

\* What becomes of the chunk that a token lets through.
LEMMA ChunkOfToken ==
  ASSUME IInv, NEW t \in Tokens, Token(t), good, NextChunk(t) # <<>>,
         NEW n, n = Chunk(NextChunk(t))
  PROVE  /\ buffer = Scan[text].pending
         /\ n.parser \in Parsers
         /\ Dumps(n.event) =>
              /\ n.event \in Seq(Events)
              /\ SaidBy(kind, Scan[text'].complete) = SaidBy(kind, Scan[text].complete) \o n.event
              /\ kind = "chat" => n.parser.buffer = <<>> /\ Agree(n.parser, Reader[Scan[text'].complete])
         /\ ~Dumps(n.event) =>
              /\ ~WellFormed(NextChunk(t))
              /\ kind = "text" => ~WellFormed(buffer \o t)
              /\ kind = "chat" => ~n.parser.inTool /\ Stuck(buffer \o t, n.parser)
<1> DEFINE c == NextChunk(t)
           s == Scan[text].complete
<1>1. /\ phase = "generate" /\ kind' = kind /\ cancelled = FALSE
      /\ t \in Seq(Atoms) /\ s \in Seq(Atoms) /\ c \in Seq(Atoms) /\ Scan[text].pending \in Pendings
      /\ Scan[text'].complete = s \o c
  BY TokenText
<1>2. kind \in {"chat", "text"} /\ parser \in Parsers
  BY Types DEF IInv
<1>3. buffer = Scan[text].pending /\ c = Scan[buffer \o t].complete /\ buffer \in Pendings
  BY <1>1 DEF IInv, HeldIsPending, NextChunk
<1>4. buffer \in Seq(Atoms) /\ buffer \o t \in Seq(Atoms)
  BY <1>1, <1>3, PendingsDef
<1>5. CASE kind = "text"
  <2>1. n.parser = parser /\ n.event = Tagged("content", c)
    BY <1>5, ChunkDef
  <2>2. n.event \in Seq(Events) /\ (Dumps(n.event) <=> WellFormed(c))
    BY <1>1, <2>1, TaggedText, DumpsText
  <2>3. SaidBy(kind, s \o c) = SaidBy(kind, s) \o n.event
    <3> HIDE DEF s, c
    <3> QED BY <1>1, <1>5, <2>1, SaidByDef DEF c
  <2>4. ~WellFormed(c) => ~WellFormed(buffer \o t)
    <3> HIDE DEF c
    <3> QED BY <1>3, <1>4, WholeIfWellFormed
  <2> HIDE DEF s
  <2> QED BY <1>1, <1>2, <1>3, <1>5, <2>1, <2>2, <2>3, <2>4 DEF s
<1>6. CASE kind = "chat"
  <2>1. parser.buffer = <<>> /\ Agree(parser, Reader[s])
    BY <1>1, <1>6 DEF IInv, ParserIsReader
  <2>2. n = Step(Fed(parser, c))
    BY <1>6, ChunkDef
  <2> HIDE DEF s
  <2>3. /\ n.parser \in Parsers
        /\ Dumps(n.event) =>
             /\ n.parser.buffer = <<>> /\ Agree(n.parser, Reader[s \o c])
             /\ n.event \in Seq(Events) /\ Reader[s \o c].sent = Reader[s].sent \o n.event
        /\ ~Dumps(n.event) => ~WellFormed(c) /\ ~n.parser.inTool /\ Stuck(buffer \o t, n.parser)
    <3> HIDE DEF c
    <3>1. c # <<>> /\ s \in Seq(Atoms) /\ parser \in Parsers /\ buffer \in Pendings /\ t \in Tokens
          /\ c = Scan[buffer \o t].complete
      BY <1>1, <1>2, <1>3 DEF c
    <3>2. Outcome(n, s, c, buffer \o t)
      BY <2>1, <2>2, <3>1, ChunkKeeps
    <3> QED BY <3>2 DEF Outcome
  <2>4. SaidBy(kind, s \o c) = Reader[s \o c].sent /\ SaidBy(kind, s) = Reader[s].sent
    BY <1>6 DEF SaidBy
  <2> HIDE DEF c
  <2> QED BY <1>1, <1>3, <1>6, <2>3, <2>4 DEF s, c
<1> QED BY <1>2, <1>5, <1>6

\* A token completes a sequence, and the chunk is sent.
LEMMA TokenSentKeeps ==
  ASSUME IInv, NEW t \in Tokens, TokenSent(t)
  PROVE  IInv'
<1> DEFINE chunk == Chunk(Scan[buffer \o t].complete)
<1>1. /\ Token(t) /\ good /\ Scan[buffer \o t].complete # <<>> /\ buffer' = Scan[buffer \o t].pending
      /\ Dumps(chunk.event) /\ parser' = chunk.parser /\ sent' = sent \o chunk.event /\ good' = good
  BY DEF TokenSent
<1>2. /\ phase = "generate" /\ phase' = "generate" /\ kind' = kind /\ cancelled = FALSE /\ cancelled' = FALSE
      /\ text' \in Seq(Atoms) /\ Len(text') <= MaxText[kind]
      /\ Scan[text'].pending = Scan[Scan[text].pending \o t].pending /\ Scan[text'].pending \in Pendings
      /\ SaidBy(kind, Scan[text'].complete) \in Seq(Events)
  BY <1>1, TokenText
<1>3. buffer = Scan[text].pending
  BY <1>1, <1>2 DEF IInv, HeldIsPending
<1>4. chunk = Chunk(NextChunk(t)) /\ NextChunk(t) # <<>>
  BY <1>1, <1>3 DEF NextChunk
<1> HIDE DEF chunk
<1>5. /\ chunk.parser \in Parsers /\ chunk.event \in Seq(Events)
      /\ SaidBy(kind, Scan[text'].complete) = SaidBy(kind, Scan[text].complete) \o chunk.event
      /\ kind = "chat" => chunk.parser.buffer = <<>> /\ Agree(chunk.parser, Reader[Scan[text'].complete])
  BY <1>1, <1>4, ChunkOfToken
<1>6. buffer' = Scan[text'].pending
  BY <1>1, <1>2, <1>3
<1>7. sent = SaidBy(kind, Scan[text].complete) /\ sent' = SaidBy(kind, Scan[text'].complete)
  <2>1. sent = SaidBy(kind, Scan[text].complete)
    BY <1>1, <1>2, Pieces DEF IInv, Answered
  <2> QED BY <1>1, <1>5, <2>1
<1>8. Typed'
  <2>1. buffer' \in Seq(Atoms) /\ (buffer' = <<>> \/ (Head(buffer') = "lead" /\ Len(buffer') < SeqLen))
    BY <1>2, <1>6, PendingHead, PendingsDef
  <2>2. /\ parser' \in Parsers /\ parser'.buffer \in Seq(Atoms) /\ parser'.tool \in Seq(Atoms)
        /\ parser'.mode \in {"content", "reasoning"} /\ parser'.inTool \in BOOLEAN
    BY <1>1, <1>5, ParserTypes
  <2> QED BY <1>1, <1>2, <1>7, <2>1, <2>2 DEF IInv, Typed, TypeOK
<1>9. HeldIsPending' /\ ParserIsReader' /\ CancelIsLast' /\ BadIsStuck'
  BY <1>1, <1>2, <1>5, <1>6 DEF HeldIsPending, ParserIsReader, CancelIsLast, BadIsStuck
<1>10. Answered'
  <2>1. IsPrefix(sent', sent')
    BY DEF IsPrefix
  <2> QED BY <1>1, <1>2, <1>7, <2>1, NextPieces DEF Answered, WellFormedIsNotCut
<1> QED BY <1>8, <1>9, <1>10 DEF IInv

\* A token completes a sequence, and the chunk cannot be dumped.
LEMMA TokenFailsKeeps ==
  ASSUME IInv, NEW t \in Tokens, TokenFails(t)
  PROVE  IInv'
<1> DEFINE chunk == Chunk(Scan[buffer \o t].complete)
<1>1. /\ Token(t) /\ good /\ Scan[buffer \o t].complete # <<>> /\ buffer' = buffer \o t
      /\ ~Dumps(chunk.event) /\ parser' = chunk.parser /\ sent' = sent /\ good' = FALSE
  BY DEF TokenFails
<1>2. /\ phase = "generate" /\ phase' = "generate" /\ kind' = kind /\ cancelled = FALSE /\ cancelled' = FALSE
      /\ text' \in Seq(Atoms) /\ Len(text') <= MaxText[kind] /\ t \in Seq(Atoms)
      /\ Valid(text') => WellFormed(NextChunk(t))
      /\ IsPrefix(sent, SaidBy(kind, Scan[text'].complete))
  BY <1>1, TokenText
<1>3. buffer = Scan[text].pending
  BY <1>1, <1>2 DEF IInv, HeldIsPending
<1>4. chunk = Chunk(NextChunk(t)) /\ NextChunk(t) # <<>>
  BY <1>1, <1>3 DEF NextChunk
<1> HIDE DEF chunk
<1>5. /\ chunk.parser \in Parsers /\ ~WellFormed(NextChunk(t))
      /\ kind = "text" => ~WellFormed(buffer \o t)
      /\ kind = "chat" => ~chunk.parser.inTool /\ Stuck(buffer \o t, chunk.parser)
  BY <1>1, <1>4, ChunkOfToken
<1>6. Typed'
  <2>1. buffer' \in Seq(Atoms)
    BY <1>1, <1>2, Types DEF IInv
  <2>2. /\ parser' \in Parsers /\ parser'.buffer \in Seq(Atoms) /\ parser'.tool \in Seq(Atoms)
        /\ parser'.mode \in {"content", "reasoning"} /\ parser'.inTool \in BOOLEAN
    BY <1>1, <1>5, ParserTypes
  <2> QED BY <1>1, <1>2, <2>1, <2>2 DEF IInv, Typed, TypeOK
<1>7. HeldIsPending' /\ ParserIsReader' /\ CancelIsLast'
  BY <1>1, <1>2 DEF HeldIsPending, ParserIsReader, CancelIsLast
<1>8. BadIsStuck'
  BY <1>1, <1>2, <1>5 DEF BadIsStuck
<1>9. Answered'
  BY <1>1, <1>2, NextPieces DEF Answered, WellFormedIsNotCut
<1> QED BY <1>6, <1>7, <1>8, <1>9 DEF IInv

\* A request begins, whatever the one before it left in the parser.
LEMMA StartKeeps ==
  ASSUME IInv, NEW k \in Kinds, Start(k)
  PROVE  IInv'
<1>1. /\ phase' = "generate" /\ kind' = k /\ text' = <<>> /\ buffer' = <<>> /\ good' = TRUE
      /\ parser' = (IF k = "chat" THEN ResetParser ELSE parser) /\ sent' = <<>> /\ cancelled' = FALSE
  BY DEF Start
<1>2. /\ parser \in Parsers /\ ResetParser \in Parsers /\ ResetParser.buffer = <<>>
      /\ Agree(ResetParser, Reader[<<>>])
  BY Types, ResetFields DEF IInv
<1>3. parser' \in Parsers /\ (k = "chat" => parser' = ResetParser)
  BY <1>1, <1>2
<1>4. Scan[<<>>].complete = <<>> /\ Scan[<<>>].pending = <<>> /\ <<>> \in Seq(Atoms) /\ <<>> \in Seq(Events)
      /\ SaidBy(k, <<>>) = <<>>
  <2>1. <<>> \in Seq(Atoms) /\ <<>> \in Seq(Events)
    OBVIOUS
  <2>2. SaidBy(k, <<>>) = <<>>
    BY <2>1, SaidByDef
  <2> QED BY <2>1, <2>2, ScanDef
<1>5. Typed'
  <2>1. k \in Kinds /\ MaxText[k] \in Nat /\ Len(<<>>) = 0
    BY StreamAssumption
  <2>2. /\ parser'.buffer \in Seq(Atoms) /\ parser'.tool \in Seq(Atoms)
        /\ parser'.mode \in {"content", "reasoning"} /\ parser'.inTool \in BOOLEAN
    BY <1>3, ParserTypes
  <2>3. text' \in Seq(Atoms) /\ Len(text') <= MaxText[kind'] /\ buffer' \in Seq(Atoms) /\ sent' \in Seq(Events)
        /\ buffer' = <<>>
    BY <1>1, <1>4, <2>1
  <2> QED BY <1>1, <1>3, <2>2, <2>3 DEF Typed, TypeOK
<1>6. HeldIsPending' /\ ParserIsReader' /\ CancelIsLast' /\ BadIsStuck'
  BY <1>1, <1>2, <1>3, <1>4 DEF HeldIsPending, ParserIsReader, CancelIsLast, BadIsStuck
<1>7. Answered'
  <2>1. IsPrefix(sent', sent')
    BY DEF IsPrefix
  <2>2. sent' = SaidBy(kind', Scan[text'].complete)
    BY <1>1, <1>4
  <2> QED BY <1>1, <2>1, <2>2, NextPieces DEF Answered, WellFormedIsNotCut
<1> QED BY <1>5, <1>6, <1>7 DEF IInv

\* The generation ends, or the engine fails.
LEMMA EndsKeeps ==
  ASSUME IInv, AnswerEnds \/ EngineFails
  PROVE  IInv'
<1>1. /\ phase = "generate" /\ phase' \in {"finalize", "error"}
      /\ kind' = kind /\ text' = text /\ buffer' = buffer /\ good' = good /\ parser' = parser
      /\ sent' = sent /\ cancelled' = cancelled
  BY DEF AnswerEnds, EngineFails
<1>2. Typed'
  BY <1>1 DEF IInv, Typed, TypeOK
<1>3. HeldIsPending' /\ ParserIsReader' /\ CancelIsLast' /\ BadIsStuck'
  BY <1>1 DEF IInv, HeldIsPending, ParserIsReader, CancelIsLast, BadIsStuck
<1>4. Answered'
  BY <1>1, Pieces, NextPieces DEF IInv, Answered, WellFormedIsNotCut
<1> QED BY <1>2, <1>3, <1>4 DEF IInv

\* A cancel ends the generation and resets the parser.
LEMMA CancelKeeps ==
  ASSUME IInv, AnswerCancelled
  PROVE  IInv'
<1>1. /\ phase = "generate" /\ phase' = "finalize"
      /\ kind' = kind /\ text' = text /\ buffer' = buffer /\ good' = good
      /\ parser' = [ResetParser EXCEPT !.tool = <<>>]
      /\ sent' = sent /\ cancelled' = TRUE
  BY DEF AnswerCancelled
<1>2. parser' \in Parsers /\ parser'.buffer = <<>> /\ ~parser'.inTool
  BY <1>1, Types, ResetFields DEF IInv
<1>3. Typed'
  BY <1>1, <1>2, ParserTypes DEF IInv, Typed, TypeOK
<1>4. HeldIsPending' /\ ParserIsReader' /\ CancelIsLast'
  BY <1>1, <1>2 DEF IInv, HeldIsPending, ParserIsReader, CancelIsLast
<1>5. BadIsStuck'
  <2>1. Stuck(buffer, parser) => Stuck(buffer', parser')
    BY <1>1, <1>2 DEF Stuck
  <2> QED BY <1>1, <1>2, <2>1 DEF IInv, BadIsStuck
<1>6. Answered'
  BY <1>1, Pieces, NextPieces DEF IInv, Answered, WellFormedIsNotCut
<1> QED BY <1>3, <1>4, <1>5, <1>6 DEF IInv

\* A valid text has met no exception, and only its last sequence is held.
LEMMA ValidIsGood ==
  ASSUME IInv, Valid(text), phase = "finalize"
  PROVE  good /\ buffer = Scan[text].pending /\ text = Scan[text].complete \o buffer
BY DEF IInv, BadIsStuck, HeldIsPending, Valid

\* The answer ends where a sequence ends.
LEMMA FinalizeNothingKeeps ==
  ASSUME IInv, FinalizeNothing
  PROVE  IInv'
<1>1. /\ phase = "finalize" /\ buffer = <<>> /\ phase' = "done"
      /\ kind' = kind /\ text' = text /\ buffer' = buffer /\ good' = good /\ parser' = parser
      /\ sent' = sent /\ cancelled' = cancelled
  BY DEF FinalizeNothing
<1>2. Typed'
  BY <1>1 DEF IInv, Typed, TypeOK
<1>3. HeldIsPending' /\ ParserIsReader' /\ CancelIsLast' /\ BadIsStuck'
  BY <1>1 DEF IInv, HeldIsPending, ParserIsReader, CancelIsLast, BadIsStuck
<1>4. Valid(text) => good /\ Scan[text].complete = text
  <2>1. SUFFICES ASSUME Valid(text) PROVE good /\ Scan[text].complete = text
    OBVIOUS
  <2>2. good /\ text = Scan[text].complete \o <<>> /\ Scan[text].complete \in Seq(Atoms)
    BY <1>1, <2>1, ValidIsGood, Types, ScanDef DEF IInv
  <2> QED BY <2>2
<1>5. Answered'
  BY <1>1, <1>4, Pieces, NextPieces DEF IInv, Answered, WellFormedIsNotCut
<1> QED BY <1>2, <1>3, <1>5 DEF IInv

\* What finalize makes of the bytes that are left is never sent.
LEMMA FinalizeSendsNothing ==
  ASSUME IInv, phase = "finalize", buffer # <<>>, NEW n, n = Chunk(buffer)
  PROVE  /\ n.parser \in Parsers
         /\ n.event = <<>> \/ ~Dumps(n.event)
         /\ good /\ ~cancelled /\ Dumps(n.event) => kind = "chat" /\ parser.inTool
<1>1. /\ kind \in {"chat", "text"} /\ parser \in Parsers /\ buffer \in Seq(Atoms) /\ text \in Seq(Atoms)
      /\ good \in BOOLEAN /\ cancelled \in BOOLEAN
  BY Types DEF IInv
<1>2. good => buffer \in Pendings /\ ~WellFormed(buffer)
  BY <1>1, ScanPending, PendingIsOpen DEF IInv, HeldIsPending
<1>3. CASE kind = "text"
  <2>1. n.parser = parser /\ n.event = Tagged("content", buffer)
    BY <1>3, ChunkDef
  <2>2. ~WellFormed(buffer)
    BY <1>2, <1>3 DEF IInv, BadIsStuck
  <2> QED BY <1>1, <2>1, <2>2, DumpsText
<1>4. CASE kind = "chat"
  <2>1. n = Step(Fed(parser, buffer))
    BY <1>4, ChunkDef
  <2>2. n.parser \in Parsers
    <3>1. Fed(parser, buffer) \in Parsers /\ Fed(parser, buffer).buffer = parser.buffer \o buffer
      BY <1>1, FedFields
    <3>2. parser.buffer \o buffer # <<>>
      <4>1. parser.buffer \in Seq(Atoms)
        BY <1>1, ParserFields
      <4> DEFINE x == parser.buffer
      <4> HIDE DEF x
      <4>2. x \in Seq(Atoms)
        BY <4>1 DEF x
      <4>3. x \o buffer # <<>>
        BY <1>1, <4>2, ConcatEqualIffEmpty
      <4> QED BY <4>3 DEF x
    <3> QED BY <2>1, <3>1, <3>2, StepType
  <2>3. CASE good
    <3>1. parser.buffer = <<>> /\ (cancelled => ~parser.inTool)
      BY <1>4, <2>3 DEF IInv, ParserIsReader, CancelIsLast
    <3>2. (parser.inTool => n.event = <<>>) /\ (~parser.inTool => ~Dumps(n.event))
      BY <1>1, <1>2, <2>1, <2>3, <3>1, PendingSendsNothing
    <3> QED BY <1>4, <2>2, <3>1, <3>2
  <2>4. CASE ~good
    <3>1. ~parser.inTool /\ Stuck(buffer, parser)
      BY <1>4, <2>4 DEF IInv, BadIsStuck
    <3> QED BY <1>1, <2>1, <2>2, <2>4, <3>1, StuckSendsNothing
  <2> QED BY <2>3, <2>4
<1> QED BY <1>1, <1>3, <1>4

\* The answer ends inside a sequence, or the stream is bad.
LEMMA FinalizeRestKeeps ==
  ASSUME IInv, FinalizeRest
  PROVE  IInv'
<1> DEFINE chunk == Chunk(buffer)
<1>1. /\ phase = "finalize" /\ buffer # <<>> /\ parser' = chunk.parser
      /\ kind' = kind /\ text' = text /\ good' = good /\ cancelled' = cancelled
      /\ Dumps(chunk.event) => phase' = "done" /\ sent' = sent \o chunk.event /\ buffer' = <<>>
      /\ ~Dumps(chunk.event) => phase' = "cut" /\ sent' = sent /\ buffer' = buffer
  BY DEF FinalizeRest
<1>2. /\ chunk.parser \in Parsers
      /\ chunk.event = <<>> \/ ~Dumps(chunk.event)
      /\ good /\ ~cancelled /\ Dumps(chunk.event) => kind = "chat" /\ parser.inTool
  <2> HIDE DEF chunk
  <2> QED BY <1>1, FinalizeSendsNothing DEF chunk
<1> HIDE DEF chunk
<1>3. /\ text \in Seq(Atoms) /\ sent \in Seq(Events) /\ sent \o <<>> = sent /\ buffer \in Seq(Atoms)
      /\ <<>> \in Seq(Atoms)
  BY Types DEF IInv
<1>4. sent' = sent /\ (buffer' = buffer \/ buffer' = <<>>) /\ phase' \in {"done", "cut"}
      /\ (phase' = "done" => Dumps(chunk.event) /\ buffer' = <<>>) /\ (phase' = "cut" => buffer' = buffer)
  BY <1>1, <1>2, <1>3
<1>5. Typed'
  <2>1. /\ parser' \in Parsers /\ parser'.buffer \in Seq(Atoms) /\ parser'.tool \in Seq(Atoms)
        /\ parser'.mode \in {"content", "reasoning"} /\ parser'.inTool \in BOOLEAN
    BY <1>1, <1>2, ParserTypes
  <2>2. buffer' \in Seq(Atoms) /\ (good' => buffer' = <<>> \/ (Head(buffer') = "lead" /\ Len(buffer') < SeqLen))
    BY <1>1, <1>3, <1>4 DEF IInv, Typed, TypeOK
  <2> QED BY <1>1, <1>4, <2>1, <2>2 DEF IInv, Typed, TypeOK
<1>6. HeldIsPending' /\ ParserIsReader' /\ CancelIsLast' /\ BadIsStuck'
  BY <1>1, <1>4 DEF IInv, HeldIsPending, ParserIsReader, CancelIsLast, BadIsStuck
<1>7. WellFormedIsNotCut'
  <2>1. ASSUME WellFormed(text) PROVE phase' # "cut"
    <3>1. Valid(text) /\ Scan[text].pending = <<>>
      BY <1>3, <2>1, ValidIfWellFormed, WholeIfWellFormed
    <3> QED BY <1>1, <3>1, ValidIsGood
  <2> QED BY <1>1, <2>1 DEF WellFormedIsNotCut
<1>8. ASSUME phase' = "done", ~cancelled, Valid(text)
      PROVE  sent = SaidBy(kind, text)
  <2> DEFINE c == Scan[text].complete
  <2>1. good /\ buffer = Scan[text].pending /\ text = c \o buffer
    BY <1>1, <1>8, ValidIsGood
  <2>2. kind = "chat" /\ parser.inTool
    BY <1>2, <1>4, <1>8, <2>1
  <2>3. Agree(parser, Reader[c])
    BY <1>1, <1>8, <2>1, <2>2 DEF IInv, ParserIsReader
  <2>4. c \in Seq(Atoms) /\ buffer \in Plain /\ Reader[c].inTool
    BY <1>3, <2>1, <2>2, <2>3, ScanDef, ScanPending, PendingIsOpen DEF Agree
  <2>5. sent = SaidBy(kind, c)
    BY <1>1, <1>8, <2>1, Pieces DEF IInv, Answered
  <2> HIDE DEF c
  <2>6. Reader[c \o buffer].sent = Reader[c].sent
    BY <2>4, ReadsPlain
  <2> QED BY <2>1, <2>2, <2>5, <2>6 DEF SaidBy
<1>9. Answered'
  BY <1>1, <1>4, <1>7, <1>8, Pieces, NextPieces DEF IInv, Answered
<1> QED BY <1>5, <1>6, <1>9 DEF IInv

\* The first state: no request yet.
LEMMA InitInvariant == Init => IInv
<1> SUFFICES ASSUME Init PROVE IInv
  OBVIOUS
<1> DEFINE nil == <<>>
<1>1. /\ phase = "idle" /\ kind \in Kinds /\ text = nil /\ buffer = nil /\ good = TRUE
      /\ parser = [buffer |-> nil, inTool |-> FALSE, mode |-> "content", tool |-> nil]
      /\ sent = nil /\ cancelled = FALSE
  BY DEF Init
<1>2. nil \in Seq(Atoms) /\ nil \in Seq(Events) /\ Len(nil) = 0 /\ "content" \in Modes
  BY DEF Modes
<1>3. Scan[nil].complete = nil /\ Scan[nil].pending = nil
  BY ScanDef
<1>4. SaidBy(kind, nil) = nil
  BY <1>2, SaidByDef
<1>5. IsPrefix(nil, nil)
  BY DEF IsPrefix
<1>6. buffer = <<>>
  BY <1>1
<1> HIDE DEF nil
<1>7. parser \in Parsers /\ parser.buffer \in Seq(Atoms) /\ parser.tool \in Seq(Atoms)
      /\ parser.mode \in {"content", "reasoning"} /\ parser.inTool \in BOOLEAN
  BY <1>1, <1>2 DEF Parsers
<1>8. Typed
  <2>1. MaxText[kind] \in Nat
    BY <1>1, StreamAssumption
  <2>2. Len(text) <= MaxText[kind]
    BY <1>1, <1>2, <2>1
  <2> QED BY <1>1, <1>2, <1>6, <1>7, <2>2 DEF Typed, TypeOK
<1>9. HeldIsPending /\ ParserIsReader /\ CancelIsLast /\ BadIsStuck
  BY <1>1, <1>3 DEF HeldIsPending, ParserIsReader, CancelIsLast, BadIsStuck
<1>10. Answered
  BY <1>1, <1>3, <1>4, <1>5, Pieces DEF Answered, WellFormedIsNotCut
<1> QED BY <1>8, <1>9, <1>10 DEF IInv

\* Each step keeps the inductive invariant, whatever the tokens are.
LEMMA NextInvariant == IInv /\ [Next]_vars => IInv'
<1> SUFFICES ASSUME IInv, [Next]_vars PROVE IInv'
  OBVIOUS
<1>1. CASE \E k \in Kinds : Start(k)
  BY <1>1, StartKeeps
<1>2. CASE \E t \in Tokens : TokenIgnored(t) \/ TokenHeld(t) \/ TokenSent(t) \/ TokenFails(t)
  BY <1>2, TokenIgnoredKeeps, TokenHeldKeeps, TokenSentKeeps, TokenFailsKeeps
<1>3. CASE AnswerEnds \/ EngineFails
  BY <1>3, EndsKeeps
<1>4. CASE AnswerCancelled
  BY <1>4, CancelKeeps
<1>5. CASE FinalizeNothing
  BY <1>5, FinalizeNothingKeeps
<1>6. CASE FinalizeRest
  BY <1>6, FinalizeRestKeeps
<1>7. CASE UNCHANGED vars
  <2>1. /\ phase' = phase /\ kind' = kind /\ text' = text /\ buffer' = buffer /\ good' = good
        /\ parser' = parser /\ sent' = sent /\ cancelled' = cancelled
    BY <1>7 DEF vars
  <2>2. Typed'
    BY <2>1 DEF IInv, Typed, TypeOK
  <2>3. HeldIsPending' /\ ParserIsReader' /\ CancelIsLast' /\ BadIsStuck'
    BY <2>1 DEF IInv, HeldIsPending, ParserIsReader, CancelIsLast, BadIsStuck
  <2>4. Answered'
    BY <2>1, Pieces, NextPieces DEF IInv, Answered, WellFormedIsNotCut
  <2> QED BY <2>2, <2>3, <2>4 DEF IInv
<1> QED BY <1>1, <1>2, <1>3, <1>4, <1>5, <1>6, <1>7 DEF Next

-----------------------------------------------------------------------------
(***************************************************************************)
(* Theorems                                                                *)
(***************************************************************************)
\* The inductive invariant holds: a good stream holds the sequence its text ends
\* inside, the parser is where a reader of what was let through would be, and a bad
\* stream can send nothing more (flush_complete_utf8_sequences, parse_stream_content).
THEOREM StreamInvariant == Spec => []IInv
BY InitInvariant, NextInvariant, PTL DEF Spec

\* Each variable has its type, and a good stream holds back no whole sequence.
THEOREM StreamTypes == Spec => []TypeOK
<1>1. IInv => TypeOK
  BY DEF IInv, Typed
<1> QED BY <1>1, StreamInvariant, PTL

\* No client receives what its answer does not say: through the parser that the
\* requests share, cancels, exceptions and whatever the request before left in it.
THEOREM OnlyWhatIsSaid == Spec => []SentIsSaid
<1>1. IInv => SentIsSaid
  BY DEF IInv, Answered
<1> QED BY <1>1, StreamInvariant, PTL

\* Wherever the text is cut into tokens and chunks, the client of a good stream has
\* after each flush all that the whole sequences so far say.
THEOREM NothingIsHeldBack == Spec => []NothingHeldBack
<1>1. IInv => NothingHeldBack
  BY DEF IInv, Answered
<1> QED BY <1>1, StreamInvariant, PTL

\* An answer that is done and was not cancelled is complete, if its text is valid.
THEOREM DoneAnswersAreComplete == Spec => []DoneIsAll
<1>1. IInv => DoneIsAll
  BY DEF IInv, Answered
<1> QED BY <1>1, StreamInvariant, PTL

\* No exception of dump() ends the answer to which it would be in well-formed UTF-8.
THEOREM WellFormedAnswersEnd == Spec => []WellFormedIsNotCut
<1>1. IInv => WellFormedIsNotCut
  BY DEF IInv, Answered
<1> QED BY <1>1, StreamInvariant, PTL

=============================================================================
