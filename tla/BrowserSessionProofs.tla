------------------------ MODULE BrowserSessionProofs ------------------------
(***************************************************************************)
(* Proofs about BrowserSession and the pipe under it: the framing of both  *)
(* byte streams, the sessions of the target, and the silence of a          *)
(* connection that was closed.                                             *)
(***************************************************************************)
EXTENDS BrowserSession, Induction, SequenceTheorems

\* A name for \o, where a proof does not look inside.
Joined(a, b) == a \o b

-----------------------------------------------------------------------------
(* The reader's scan.                                                      *)

ScanState(B) == [line : Seq(B), found : Seq(Seq(B))]

LEMMA ScanByteType ==
  ASSUME NEW B, NEW s \in ScanState(B), NEW b \in B
  PROVE  ScanByte(s, b) \in ScanState(B)
<1>1. s.line \in Seq(B) /\ s.found \in Seq(Seq(B)) /\ s = [line |-> s.line, found |-> s.found]
  BY DEF ScanState
<1>2. Append(s.line, b) \in Seq(B) /\ Append(s.found, s.line) \in Seq(Seq(B)) /\ <<>> \in Seq(B)
  BY <1>1
<1>3. QED BY <1>1, <1>2 DEF ScanByte, ScanState

\* A scan has a state after each byte, which the next byte leads on.
LEMMA ScanSteps ==
  ASSUME NEW B, NEW c \in Seq(B), NEW b \in Seq(B)
  PROVE  /\ Scan(c, b) \in [0..Len(b) -> ScanState(B)]
         /\ Scan(c, b)[0] = [line |-> c, found |-> <<>>]
         /\ \A i \in 1..Len(b) : Scan(c, b)[i] = ScanByte(Scan(c, b)[i - 1], b[i])
<1> DEFINE N == Len(b)
           base == [line |-> c, found |-> <<>>]
           X == ScanState(B)
           step == [p \in (1..N) \X X |-> ScanByte(p[2], b[p[1]])]
           IsScan(f) == f = [i \in 0..N |-> IF i = 0 THEN base
                                            ELSE ScanByte(f[i - 1], b[i])]
<1>1. N \in Nat /\ base \in X /\ <<>> \in Seq(Seq(B))
  BY DEF ScanState
<1>2. step \in Steps(N, X)
  <2> SUFFICES ASSUME NEW p \in (1..N) \X X PROVE ScanByte(p[2], b[p[1]]) \in X
    BY DEF Steps
  <2>1. p[2] \in X /\ b[p[1]] \in B
    OBVIOUS
  <2> HIDE DEF X
  <2>2. QED BY <2>1, ScanByteType DEF X
<1>3. PICK f \in [0..N -> X] : f[0] = base /\ \A i \in 1..N : f[i] = step[<<i, f[i - 1]>>]
  <2>1. N \in Nat /\ base \in X
    BY <1>1
  <2> HIDE DEF N, base, X, step
  <2>2. PICK f : Recursive(f, N, X, base, step)
    BY <2>1, <1>2, Recursion
  <2>3. QED BY <2>2 DEF Recursive
<1>4. \A i \in 1..N : f[i - 1] \in X /\ f[i] = ScanByte(f[i - 1], b[i])
  <2> TAKE i \in 1..N
  <2>1. i - 1 \in 0..N /\ f[i - 1] \in X
    BY <1>1, <1>3
  <2> HIDE DEF X
  <2>2. step[<<i, f[i - 1]>>] = ScanByte(f[i - 1], b[i])
    BY <2>1
  <2>3. QED BY <1>3, <2>1, <2>2
<1>5. IsScan(f)
  <2> HIDE DEF X, base
  <2>1. \A i \in 0..N : f[i] = IF i = 0 THEN base ELSE ScanByte(f[i - 1], b[i])
    BY <1>1, <1>3, <1>4
  <2>2. QED BY <2>1, <1>3
<1>6. IsScan(Scan(c, b))
  <2>1. Scan(c, b) = CHOOSE g : IsScan(g)
    BY DEF Scan
  <2> HIDE DEF IsScan
  <2>2. QED BY <2>1, <1>5
<1> DEFINE g == Scan(c, b)
<1>7. g = f
  <2> DEFINE P == {i \in 0..N : g[i] = f[i]}
  <2> HIDE DEF g, base, X
  <2>1. 0 \in P
    BY <1>6, <1>3, <1>1 DEF g
  <2>2. ASSUME NEW i \in 1..N, i - 1 \in P PROVE i \in P
    <3>1. g[i] = ScanByte(g[i - 1], b[i])
      BY <1>6, <1>1, SMTT(30) DEF g
    <3>2. QED BY <3>1, <2>2, <1>4
  <2>3. 0..N \subseteq P
    <3> HIDE DEF P
    <3> QED BY <2>1, <2>2, <1>1, BoundedInduction
  <2>4. DOMAIN g = 0..N /\ g = [i \in 0..N |-> g[i]]
    BY <1>6 DEF g
  <2>5. f = [i \in 0..N |-> f[i]]
    BY <1>3
  <2>6. QED BY <2>3, <2>4, <2>5
<1>8. QED BY <1>1, <1>3, <1>4, <1>7

\* A scan goes on the same way whatever was found before.
Found(p, s) == [line |-> s.line, found |-> p \o s.found]

LEMMA ScanByteFound ==
  ASSUME NEW B, NEW s \in ScanState(B), NEW p \in Seq(Seq(B)), NEW b \in B
  PROVE  ScanByte(Found(p, s), b) = Found(p, ScanByte(s, b))
<1>1. s.line \in Seq(B) /\ s.found \in Seq(Seq(B)) /\ p \o s.found \in Seq(Seq(B))
      /\ s = [line |-> s.line, found |-> s.found]
  BY DEF ScanState
<1>2. Append(p \o s.found, s.line) = p \o Append(s.found, s.line)
  <2>1. p \o s.found \in Seq(Seq(B)) /\ <<s.line>> \in Seq(Seq(B))
    BY <1>1
  <2>2. \A x \in Seq(Seq(B)) : Append(x, s.line) = x \o <<s.line>>
    BY <1>1
  <2>3. (p \o s.found) \o <<s.line>> = p \o (s.found \o <<s.line>>)
    BY <1>1, <2>1, ConcatAssociative
  <2>4. QED BY <1>1, <2>1, <2>2, <2>3
<1>3. CASE b = NUL
  BY <1>1, <1>2, <1>3 DEF ScanByte, Found
<1>4. CASE b # NUL
  <2>1. ScanByte(Found(p, s), b) = [line |-> Append(s.line, b), found |-> p \o s.found]
    BY <1>4 DEF ScanByte, Found
  <2>2. ScanByte(s, b) = [line |-> Append(s.line, b), found |-> s.found]
    BY <1>4, <1>1 DEF ScanByte
  <2>3. QED BY <2>1, <2>2 DEF Found
<1>5. QED BY <1>3, <1>4

LEMMA ScanTypes ==
  ASSUME NEW B, NEW c \in Seq(B), NEW b \in Seq(B)
  PROVE  Pieces(c, b) \in Seq(Seq(B)) /\ Remainder(c, b) \in Seq(B)
<1>1. Scan(c, b)[Len(b)] \in ScanState(B)
  <2>1. Len(b) \in 0..Len(b)
    OBVIOUS
  <2>2. QED BY <2>1, ScanSteps
<1>2. QED BY <1>1 DEF Pieces, Remainder, ScanState

LEMMA ScanNothing ==
  ASSUME NEW B, NEW c \in Seq(B)
  PROVE  Pieces(c, <<>>) = <<>> /\ Remainder(c, <<>>) = c
<1>1. <<>> \in Seq(B) /\ Len(<<>>) = 0
  OBVIOUS
<1>2. Scan(c, <<>>)[0] = [line |-> c, found |-> <<>>]
  BY <1>1, ScanSteps
<1>3. QED BY <1>1, <1>2 DEF Pieces, Remainder

\* The scan of two chunks one after the other is the scan of both at once:
\* where ReadBytes cuts the stream makes no difference.
THEOREM ScanOfChunks ==
  ASSUME NEW B, NEW c \in Seq(B), NEW a \in Seq(B), NEW b \in Seq(B)
  PROVE  /\ Pieces(c, Joined(a, b)) = Joined(Pieces(c, a), Pieces(Remainder(c, a), b))
         /\ Remainder(c, Joined(a, b)) = Remainder(Remainder(c, a), b)
<1> DEFINE M == Len(a)
           N == Len(b)
           d == Remainder(c, a)
           p == Pieces(c, a)
           e == a \o b
           F == Scan(c, e)
           G == Scan(c, a)
           H == Scan(d, b)
<1>1. /\ M \in Nat /\ N \in Nat /\ e \in Seq(B) /\ Len(e) = M + N
      /\ \A i \in 1..M : e[i] = a[i] /\ i \in 1..(M + N)
      /\ \A i \in 1..N : e[M + i] = b[i] /\ M + i \in 1..(M + N)
  <2>1. a \o b \in Seq(B) /\ Len(a \o b) = M + N /\ M \in Nat /\ N \in Nat
    OBVIOUS
  <2>2. \A i \in 1..(M + N) : (a \o b)[i] = IF i <= M THEN a[i] ELSE b[i - M]
    BY ConcatProperties
  <2>3. \A i \in 1..N : M + i \in 1..(M + N) /\ ~(M + i <= M) /\ (M + i) - M = i
    BY <2>1
  <2>4. \A i \in 1..M : i \in 1..(M + N) /\ i <= M
    BY <2>1
  <2>5. QED BY <2>1, <2>2, <2>3, <2>4
<1>2. d \in Seq(B) /\ p \in Seq(Seq(B))
  BY ScanTypes
<1> HIDE DEF d, p, e, F, G, H, M, N
<1>3. /\ F \in [0..(M + N) -> ScanState(B)] /\ F[0] = [line |-> c, found |-> <<>>]
      /\ \A i \in 1..(M + N) : F[i] = ScanByte(F[i - 1], e[i])
  <2>1. F \in [0..Len(e) -> ScanState(B)] /\ F[0] = [line |-> c, found |-> <<>>]
        /\ \A i \in 1..Len(e) : F[i] = ScanByte(F[i - 1], e[i])
    <3>1. c \in Seq(B) /\ e \in Seq(B)
      BY <1>1
    <3>2. QED BY ONLY <3>1, ScanSteps, Zenon DEF F
  <2>2. QED BY <1>1, <2>1
<1>4. /\ G \in [0..M -> ScanState(B)] /\ G[0] = [line |-> c, found |-> <<>>]
      /\ \A i \in 1..M : G[i] = ScanByte(G[i - 1], a[i])
  BY ScanSteps DEF G, M
<1>5. /\ H \in [0..N -> ScanState(B)] /\ H[0] = [line |-> d, found |-> <<>>]
      /\ \A i \in 1..N : H[i] = ScanByte(H[i - 1], b[i])
  BY <1>2, ScanSteps DEF H, N
<1>6. F[M] = G[M]
  <2> DEFINE P == {i \in 0..M : F[i] = G[i]}
  <2>1. 0 \in P
    BY <1>1, <1>3, <1>4
  <2>2. ASSUME NEW i \in 1..M, i - 1 \in P PROVE i \in P
    <3>1. F[i] = ScanByte(F[i - 1], e[i]) /\ e[i] = a[i]
      BY <1>1, <1>3
    <3>2. QED BY <3>1, <1>4, <2>2
  <2>3. 0..M \subseteq P
    <3> HIDE DEF P
    <3> QED BY <2>1, <2>2, <1>1, BoundedInduction
  <2>4. QED BY <2>3, <1>1
<1>7. G[M] = [line |-> d, found |-> p]
  <2>1. G[M].line = d /\ G[M].found = p
    BY DEF G, M, d, p, Pieces, Remainder
  <2>2. G[M] \in ScanState(B) /\ G[M].line = d /\ G[M].found = p
    BY <1>1, <1>4, <2>1
  <2>3. QED BY <2>2 DEF ScanState
<1>8. F[M + N] = Found(p, H[N])
  <2> DEFINE P == {i \in 0..N : F[M + i] = Found(p, H[i])}
  <2>1. 0 \in P
    <3>1. F[M + 0] = [line |-> d, found |-> p]
      BY <1>1, <1>6, <1>7
    <3>2. p \o <<>> = p
      BY <1>2
    <3>3. Found(p, H[0]) = [line |-> d, found |-> p]
      BY <3>2, <1>5 DEF Found
    <3>4. QED BY <3>1, <3>3, <1>1
  <2>2. ASSUME NEW i \in 1..N, i - 1 \in P PROVE i \in P
    <3>1. i - 1 \in 0..N /\ (M + i) - 1 = M + (i - 1)
      BY <1>1
    <3>2. /\ M + i \in 1..(M + N) /\ (M + i) - 1 = M + (i - 1)
          /\ e[M + i] = b[i] /\ H[i - 1] \in ScanState(B) /\ b[i] \in B
      <4>1. b[i] \in B
        BY ElementOfSeq DEF N
      <4>2. H[i - 1] \in ScanState(B)
        BY <3>1, <1>5
      <4>3. QED BY <1>1, <3>1, <4>1, <4>2
    <3>3. F[M + i] = ScanByte(F[M + (i - 1)], b[i])
      BY <3>2, <1>3
    <3>4. F[M + (i - 1)] = Found(p, H[i - 1])
      BY <2>2
    <3>5. ScanByte(Found(p, H[i - 1]), b[i]) = Found(p, ScanByte(H[i - 1], b[i]))
      BY <3>2, <1>2, ScanByteFound
    <3>6. QED BY <3>3, <3>4, <3>5, <1>5
  <2>3. 0..N \subseteq P
    <3> HIDE DEF P
    <3> QED BY <2>1, <2>2, <1>1, BoundedInduction
  <2>4. QED BY <2>3, <1>1
<1>9. /\ F[Len(e)].line = H[N].line /\ F[Len(e)].found = p \o H[N].found
  BY <1>1, <1>8, SMTT(30) DEF Found
<1>10. QED BY <1>9 DEF Joined, Pieces, Remainder, F, H, N, d, p, e

-----------------------------------------------------------------------------
(* The bytes of messages.                                                  *)

LEMMA EncodeType ==
  ASSUME NEW B, NUL \in B, NEW m \in Seq(B)
  PROVE  Encode(m) \in Seq(B) /\ Encode(m) # <<>>
BY AppendProperties DEF Encode

LEMMA ThenType ==
  ASSUME NEW B, NUL \in B, NEW bytes \in Seq(B), NEW m \in Seq(B)
  PROVE  Then(bytes, m) \in Seq(B)
BY EncodeType DEF Then

LEMMA ThenOfConcat ==
  ASSUME NEW B, NUL \in B, NEW a \in Seq(B), NEW b \in Seq(B), NEW m \in Seq(B)
  PROVE  Then(Joined(a, b), m) = Joined(a, Then(b, m))
<1>1. Encode(m) \in Seq(B)
  BY EncodeType
<1>2. QED BY <1>1, ConcatAssociative DEF Then, Joined

LEMMA StreamSteps ==
  ASSUME NEW B, NUL \in B, NEW ms \in Seq(Seq(B))
  PROVE  \E f \in [0..Len(ms) -> Seq(B)] :
           /\ f[0] = <<>> /\ Stream(ms) = f[Len(ms)]
           /\ \A i \in 1..Len(ms) : f[i] = Then(f[i - 1], ms[i])
<1> DEFINE N == Len(ms)
           X == Seq(B)
           step == [p \in (1..N) \X X |-> Then(p[2], ms[p[1]])]
           IsBytes(f) == f = [i \in 0..N |-> IF i = 0 THEN <<>>
                                             ELSE Then(f[i - 1], ms[i])]
<1>1. N \in Nat /\ <<>> \in X
  OBVIOUS
<1>2. \A i \in 1..N : ms[i] \in X
  BY ElementOfSeq
<1>3. step \in Steps(N, X)
  <2> SUFFICES ASSUME NEW p \in (1..N) \X X PROVE Then(p[2], ms[p[1]]) \in X
    BY DEF Steps
  <2>1. p[2] \in X /\ ms[p[1]] \in X
    BY <1>2
  <2>2. QED BY <2>1, ThenType
<1>4. PICK f : Recursive(f, N, X, <<>>, step)
  <2>1. N \in Nat /\ <<>> \in X
    BY <1>1
  <2> HIDE DEF N, X, step
  <2>2. QED BY <2>1, <1>3, Recursion
<1>5. f \in [0..N -> X] /\ f[0] = <<>>
  BY <1>4 DEF Recursive
<1>6. \A i \in 1..N : f[i] = Then(f[i - 1], ms[i])
  <2> TAKE i \in 1..N
  <2>1. i - 1 \in 0..N
    BY <1>1
  <2>2. f[i] = step[<<i, f[i - 1]>>]
    BY <1>4 DEF Recursive
  <2> HIDE DEF X
  <2>3. f[i - 1] \in X
    BY <2>1, <1>5
  <2>4. QED BY <2>2, <2>3
<1>7. IsBytes(f)
  <2> HIDE DEF X
  <2>1. \A i \in 0..N : f[i] = IF i = 0 THEN <<>> ELSE Then(f[i - 1], ms[i])
    BY <1>1, <1>5, <1>6
  <2>2. QED BY <2>1, <1>5
<1> DEFINE g == CHOOSE h : IsBytes(h)
<1>8. IsBytes(g) /\ Stream(ms) = g[N]
  <2>1. Stream(ms) = g[N]
    BY DEF Stream
  <2> HIDE DEF IsBytes
  <2>2. QED BY <2>1, <1>7
<1> HIDE DEF g
<1>9. \A i \in 0..N : g[i] = f[i]
  <2> DEFINE P == {i \in 0..N : g[i] = f[i]}
  <2> HIDE DEF X
  <2>1. 0 \in P
    BY <1>8, <1>5, <1>1
  <2>2. ASSUME NEW i \in 1..N, i - 1 \in P PROVE i \in P
    <3>1. i \in 0..N /\ i # 0
      BY <1>1
    <3>2. g[i] = Then(g[i - 1], ms[i])
      BY <1>8, <3>1
    <3>3. QED BY <3>2, <2>2, <1>6
  <2>3. 0..N \subseteq P
    <3> HIDE DEF P
    <3> QED BY <2>1, <2>2, <1>1, BoundedInduction
  <2>4. QED BY <2>3
<1>10. Stream(ms) = f[N]
  BY <1>8, <1>9, <1>1
<1>11. QED BY <1>5, <1>6, <1>10

LEMMA StreamType ==
  ASSUME NEW B, NUL \in B, NEW ms \in Seq(Seq(B))
  PROVE  Stream(ms) \in Seq(B)
<1>1. PICK f \in [0..Len(ms) -> Seq(B)] : Stream(ms) = f[Len(ms)]
  BY StreamSteps
<1>2. Len(ms) \in 0..Len(ms)
  OBVIOUS
<1>3. QED BY <1>1, <1>2

\* The bytes of messages are those of the first ones, then those of the rest.
THEOREM StreamOfConcat ==
  ASSUME NEW B, NUL \in B, NEW s \in Seq(Seq(B)), NEW t \in Seq(Seq(B))
  PROVE  Stream(s \o t) = Stream(s) \o Stream(t)
<1> DEFINE M == Len(s)
           N == Len(t)
           u == s \o t
<1>1. /\ M \in Nat /\ N \in Nat /\ u \in Seq(Seq(B)) /\ Len(u) = M + N
      /\ \A i \in 1..M : u[i] = s[i] /\ i \in 1..(M + N)
      /\ \A i \in 1..N : u[M + i] = t[i] /\ M + i \in 1..(M + N)
  <2>1. u \in Seq(Seq(B)) /\ Len(u) = M + N /\ M \in Nat /\ N \in Nat
    OBVIOUS
  <2>2. \A i \in 1..(M + N) : u[i] = IF i <= M THEN s[i] ELSE t[i - M]
    BY ConcatProperties
  <2>3. \A i \in 1..N : M + i \in 1..(M + N) /\ ~(M + i <= M) /\ (M + i) - M = i
    BY <2>1
  <2>4. \A i \in 1..M : i \in 1..(M + N) /\ i <= M
    BY <2>1
  <2>5. QED BY <2>1, <2>2, <2>3, <2>4
<1>2. PICK F \in [0..Len(u) -> Seq(B)] :
           /\ F[0] = <<>> /\ Stream(u) = F[Len(u)]
           /\ \A i \in 1..Len(u) : F[i] = Then(F[i - 1], u[i])
  <2>1. u \in Seq(Seq(B))
    BY <1>1
  <2> HIDE DEF u
  <2>2. QED BY <2>1, StreamSteps
<1>3. PICK G \in [0..M -> Seq(B)] :
           /\ G[0] = <<>> /\ Stream(s) = G[M]
           /\ \A i \in 1..M : G[i] = Then(G[i - 1], s[i])
  BY StreamSteps
<1>4. PICK H \in [0..N -> Seq(B)] :
           /\ H[0] = <<>> /\ Stream(t) = H[N]
           /\ \A i \in 1..N : H[i] = Then(H[i - 1], t[i])
  BY StreamSteps
<1>5. F[M] = G[M]
  <2> DEFINE P == {i \in 0..M : F[i] = G[i]}
  <2>1. 0 \in P
    BY <1>1, <1>2, <1>3
  <2>2. ASSUME NEW i \in 1..M, i - 1 \in P PROVE i \in P
    <3>1. F[i] = Then(F[i - 1], u[i]) /\ u[i] = s[i]
      BY <1>1, <1>2
    <3>2. QED BY <3>1, <1>3, <2>2
  <2>3. 0..M \subseteq P
    <3> HIDE DEF P
    <3> QED BY <2>1, <2>2, <1>1, BoundedInduction
  <2>4. QED BY <2>3, <1>1
<1>6. G[M] \in Seq(B)
  <2>1. M \in 0..M
    BY <1>1
  <2>2. QED BY ONLY <2>1, <1>3
<1>7. F[M + N] = Joined(G[M], H[N])
  <2> DEFINE P == {i \in 0..N : F[M + i] = Joined(G[M], H[i])}
  <2>1. 0 \in P
    <3>1. G[M] \o <<>> = G[M] /\ M + 0 = M /\ 0 \in 0..N
      BY <1>1, <1>6
    <3>2. QED BY <3>1, <1>4, <1>5 DEF Joined
  <2>2. ASSUME NEW i \in 1..N, i - 1 \in P PROVE i \in P
    <3>1. M + i \in 1..Len(u) /\ (M + i) - 1 = M + (i - 1) /\ u[M + i] = t[i]
          /\ i - 1 \in 0..N
      BY <1>1
    <3>2. F[M + i] = Then(F[M + (i - 1)], t[i])
      BY <3>1, <1>2
    <3>3. H[i - 1] \in Seq(B)
      BY ONLY <3>1, <1>4
    <3>4. t[i] \in Seq(B)
      BY ElementOfSeq
    <3>5. F[M + i] = Then(Joined(G[M], H[i - 1]), t[i])
      BY <2>2, <3>2
    <3>6. Then(Joined(G[M], H[i - 1]), t[i]) = Joined(G[M], Then(H[i - 1], t[i]))
      BY <3>3, <3>4, <1>6, ThenOfConcat
    <3>7. H[i] = Then(H[i - 1], t[i])
      BY <1>4
    <3>8. QED BY <3>5, <3>6, <3>7
  <2>3. 0..N \subseteq P
    <3> HIDE DEF P
    <3> QED BY <2>1, <2>2, <1>1, BoundedInduction
  <2>4. N \in 0..N
    BY <1>1
  <2>5. QED BY <2>3, <2>4
<1>8. QED BY <1>1, <1>2, <1>3, <1>4, <1>7 DEF Joined

\* The writer takes the first message of what there is to write.
LEMMA StreamOfHead ==
  ASSUME NEW B, NUL \in B, NEW ms \in Seq(Seq(B)), ms # <<>>
  PROVE  Stream(ms) = Encode(Head(ms)) \o Stream(Tail(ms))
<1>1. /\ <<Head(ms)>> \in Seq(Seq(B)) /\ Tail(ms) \in Seq(Seq(B))
      /\ Head(ms) \in Seq(B) /\ ms = <<Head(ms)>> \o Tail(ms)
  OBVIOUS
<1> DEFINE one == <<Head(ms)>>
<1>2. Stream(one) = Encode(Head(ms))
  <2>1. PICK f \in [0..Len(one) -> Seq(B)] :
           /\ f[0] = <<>> /\ Stream(one) = f[Len(one)]
           /\ \A i \in 1..Len(one) : f[i] = Then(f[i - 1], one[i])
    BY <1>1, StreamSteps
  <2>2. Len(one) = 1 /\ one[1] = Head(ms) /\ 1 \in 1..Len(one) /\ 1 - 1 = 0
    OBVIOUS
  <2>3. f[1] = Then(<<>>, Head(ms))
    BY <2>1, <2>2
  <2>4. <<>> \o Encode(Head(ms)) = Encode(Head(ms))
    BY <1>1, EncodeType
  <2>5. QED BY <2>1, <2>2, <2>3, <2>4 DEF Then
<1>3. QED BY <1>1, <1>2, StreamOfConcat

-----------------------------------------------------------------------------
(* What the stages of the pipe hold.                                       *)

Answers == {Answer(r) : r \in Request}
Events == {Event(name, i) : name \in {"attached", "detached"}, i \in Nat}
Item == Request \cup {Blank} \cup Answers \cup Events
Byte == Item \cup {NUL}

LEMMA TextType ==
  ASSUME NEW x \in Item
  PROVE  Text(x) \in Seq(Byte)
<1>1. x \in Byte
  BY DEF Byte
<1>2. <<x, x>> \in Seq(Byte) /\ <<>> \in Seq(Byte)
  BY <1>1
<1>3. QED BY <1>2 DEF Text

LEMMA ItemsType ==
  /\ \A r \in Request : Answer(r) \in Item
  /\ \A i \in Nat : Event("attached", i) \in Item /\ Event("detached", i) \in Item
BY DEF Item, Answers, Events

\* What the reader has taken off the wire is what was sent, up to the wire,
\* and gave the messages dispatched and the line.
ReaderInv ==
  /\ wire \in Seq(Byte) /\ sent \in Seq(Byte)
  /\ \E read \in Seq(Byte) :
       /\ sent = read \o wire
       /\ posted = Pieces(<<>>, read) /\ line = Remainder(<<>>, read)

\* What is written begins what there was to write; while the stream is up,
\* the rest is under way.
WriterInv ==
  /\ writerQ \in Seq(Seq(Byte)) /\ toWriter \in Seq(Seq(Byte))
  /\ writing \in Seq(Byte) /\ out \in Seq(Byte)
  /\ \E rest \in Seq(Byte) :
       /\ Stream(toWriter) = out \o rest
       /\ ~shut /\ ~clientClosed => rest = writing \o Stream(writerQ)

CountersType == made \in Nat /\ listening \in Nat /\ attached \in Nat \cup {Nobody}

LEMMA InitReader == ASSUME Init PROVE ReaderInv
<1>1. wire = <<>> /\ sent = <<>> /\ posted = <<>> /\ line = <<>> /\ <<>> \in Seq(Byte)
      /\ sent = <<>> \o wire
  BY DEF Init, PipeInit
<1>2. Pieces(<<>>, <<>>) = <<>> /\ Remainder(<<>>, <<>>) = <<>>
  BY <1>1, ScanNothing
<1>3. QED BY <1>1, <1>2 DEF ReaderInv

LEMMA ClientWritesReader ==
  ASSUME ReaderInv, NEW m \in Seq(Byte), ClientWrites(m)
  PROVE  ReaderInv'
<1>1. Encode(m) \in Seq(Byte)
  BY EncodeType DEF Byte
<1>2. PICK read \in Seq(Byte) :
        /\ sent = read \o wire
        /\ posted = Pieces(<<>>, read) /\ line = Remainder(<<>>, read)
  BY DEF ReaderInv
<1>3. wire' = wire \o Encode(m) /\ sent' = sent \o Encode(m) /\ posted' = posted /\ line' = line
  BY DEF ClientWrites
<1>4. (read \o wire) \o Encode(m) = read \o (wire \o Encode(m))
  BY <1>1, ConcatAssociative, SMTT(30) DEF ReaderInv
<1>5. wire' \in Seq(Byte) /\ sent' \in Seq(Byte)
  BY <1>1, <1>3, ConcatProperties DEF ReaderInv
<1>6. sent' = read \o wire'
  BY <1>2, <1>3, <1>4
<1>7. QED BY <1>2, <1>3, <1>5, <1>6 DEF ReaderInv

LEMMA ReadReader ==
  ASSUME ReaderInv, NEW n, Read(n)
  PROVE  ReaderInv'
<1> DEFINE bytes == SubSeq(wire, 1, n)
           left == SubSeq(wire, n + 1, Len(wire))
           found == Pieces(line, bytes)
<1>1. wire \in Seq(Byte) /\ sent \in Seq(Byte) /\ n \in 1..Len(wire)
  BY DEF ReaderInv, Read
<1>2. bytes \in Seq(Byte) /\ left \in Seq(Byte)
  BY <1>1
<1>3. bytes \o left = wire
  BY <1>1
<1>4. wire' = left /\ line' = Remainder(line, bytes) /\ posted' = posted \o found /\ sent' = sent
  BY DEF Read
<1>5. PICK read \in Seq(Byte) :
        /\ sent = read \o wire
        /\ posted = Pieces(<<>>, read) /\ line = Remainder(<<>>, read)
  BY DEF ReaderInv
<1> HIDE DEF bytes, left, found
<1>6. read \o bytes \in Seq(Byte)
  BY <1>2, ConcatProperties
<1>7. <<>> \in Seq(Byte)
  OBVIOUS
<1>8. posted' = Pieces(<<>>, read \o bytes) /\ line' = Remainder(<<>>, read \o bytes)
  <2>1. /\ Pieces(<<>>, Joined(read, bytes))
             = Joined(Pieces(<<>>, read), Pieces(Remainder(<<>>, read), bytes))
        /\ Remainder(<<>>, Joined(read, bytes)) = Remainder(Remainder(<<>>, read), bytes)
    <3> SUFFICES ASSUME NEW c \in Seq(Byte), NEW a \in Seq(Byte), NEW b \in Seq(Byte)
          PROVE /\ Pieces(c, Joined(a, b)) = Joined(Pieces(c, a), Pieces(Remainder(c, a), b))
                /\ Remainder(c, Joined(a, b)) = Remainder(Remainder(c, a), b)
      BY <1>2, <1>7
    <3>1. QED BY ScanOfChunks
  <2>2. QED BY <2>1, <1>4, <1>5 DEF found, Joined
<1>9. sent' = (read \o bytes) \o wire'
  <2>1. (read \o bytes) \o left = read \o (bytes \o left)
    BY <1>2, ConcatAssociative
  <2>2. QED BY <2>1, <1>3, <1>4, <1>5
<1>10. wire' \in Seq(Byte) /\ sent' \in Seq(Byte)
  BY <1>1, <1>2, <1>4
<1>11. QED BY <1>6, <1>8, <1>9, <1>10 DEF ReaderInv

LEMMA NULType == NUL \in Byte
BY DEF Byte

LEMMA InitWriter == ASSUME Init PROVE WriterInv
<1>1. writerQ = <<>> /\ toWriter = <<>> /\ writing = <<>> /\ out = <<>>
  BY DEF Init, PipeInit
<1>2. <<>> \in Seq(Byte) /\ <<>> \in Seq(Seq(Byte))
  OBVIOUS
<1>3. Stream(<<>>) \in Seq(Byte)
  BY <1>2, NULType, StreamType
<1>4. Stream(<<>>) = <<>> \o Stream(<<>>)
  BY <1>3
<1>5. QED BY <1>1, <1>2, <1>3, <1>4 DEF WriterInv

\* What the main thread sends comes at the end of what there is to write.
LEMMA SendWriter ==
  ASSUME WriterInv, NEW ms \in Seq(Seq(Byte)), SendMessages(ms),
         UNCHANGED <<writing, out, shut, clientClosed>>
  PROVE  WriterInv'
<1>1. CASE ~client
  BY <1>1 DEF SendMessages, WriterInv
<1>2. CASE client
  <2>1. writerQ' = writerQ \o ms /\ toWriter' = toWriter \o ms
    BY <1>2 DEF SendMessages
  <2>2. /\ writerQ \in Seq(Seq(Byte)) /\ toWriter \in Seq(Seq(Byte))
        /\ writing \in Seq(Byte) /\ out \in Seq(Byte)
    BY DEF WriterInv
  <2>3. writerQ' \in Seq(Seq(Byte)) /\ toWriter' \in Seq(Seq(Byte))
    BY <2>1, <2>2
  <2>4. Stream(ms) \in Seq(Byte) /\ Stream(writerQ) \in Seq(Byte)
    BY <2>2, NULType, StreamType
  <2>5. Stream(toWriter') = Stream(toWriter) \o Stream(ms)
    BY <2>1, <2>2, NULType, StreamOfConcat
  <2>6. Stream(writerQ') = Stream(writerQ) \o Stream(ms)
    BY <2>1, <2>2, NULType, StreamOfConcat
  <2>7. PICK rest \in Seq(Byte) :
          /\ Stream(toWriter) = out \o rest
          /\ ~shut /\ ~clientClosed => rest = writing \o Stream(writerQ)
    BY DEF WriterInv
  <2> DEFINE next == rest \o Stream(ms)
  <2>8. next \in Seq(Byte) /\ (out \o rest) \o Stream(ms) = out \o next
    <3>1. out \in Seq(Byte)
      BY <2>2
    <3>2. (out \o rest) \o Stream(ms) = out \o next
      BY <3>1, <2>4, ConcatAssociative
    <3>3. next \in Seq(Byte)
      BY <2>4
    <3>4. QED BY <3>2, <3>3
  <2>9. (writing \o Stream(writerQ)) \o Stream(ms) = writing \o (Stream(writerQ) \o Stream(ms))
    BY <2>2, <2>4, ConcatAssociative, SMTT(30)
  <2>10. ~shut /\ ~clientClosed => next = writing \o Stream(writerQ')
    BY <2>6, <2>7, <2>9
  <2>11. Stream(toWriter') = out \o next
    BY <2>5, <2>7, <2>8
  <2> HIDE DEF next
  <2>12. QED BY <2>2, <2>3, <2>8, <2>10, <2>11 DEF WriterInv
<1>3. QED BY <1>1, <1>2

LEMMA TakeWriter == ASSUME WriterInv, WriterTake PROVE WriterInv'
<1>1. /\ writerQ \in Seq(Seq(Byte)) /\ toWriter \in Seq(Seq(Byte))
      /\ out \in Seq(Byte) /\ writing = <<>> /\ writerQ # <<>>
  BY DEF WriterInv, WriterTake
<1>2. writing' = Encode(Head(writerQ)) /\ writerQ' = Tail(writerQ)
      /\ UNCHANGED <<out, toWriter, shut, clientClosed>>
  BY DEF WriterTake
<1>3. writerQ' \in Seq(Seq(Byte)) /\ Head(writerQ) \in Seq(Byte)
  BY <1>1, <1>2
<1>4. writing' \in Seq(Byte)
  BY <1>2, <1>3, EncodeType, NULType
<1>5. Stream(writerQ) = writing' \o Stream(writerQ')
  BY <1>1, <1>2, StreamOfHead, NULType
<1>6. Stream(writerQ) \in Seq(Byte)
  BY <1>1, NULType, StreamType
<1>7. writing \o Stream(writerQ) = writing' \o Stream(writerQ')
  BY <1>1, <1>5, <1>6
<1>8. QED BY <1>1, <1>2, <1>3, <1>4, <1>7 DEF WriterInv

LEMMA WriteWriter == ASSUME WriterInv, NEW n, Write(n) PROVE WriterInv'
<1> DEFINE packet == SubSeq(writing, 1, n)
           left == SubSeq(writing, n + 1, Len(writing))
<1>1. /\ writerQ \in Seq(Seq(Byte)) /\ toWriter \in Seq(Seq(Byte))
      /\ out \in Seq(Byte) /\ writing \in Seq(Byte)
  BY DEF WriterInv
<1>2. n \in 1..Len(writing) /\ ~shut /\ ~clientClosed
  BY <1>1, PipeAssumption DEF Write
<1>3. packet \in Seq(Byte) /\ left \in Seq(Byte)
  BY <1>1, <1>2
<1>4. packet \o left = writing
  BY <1>1, <1>2
<1>5. out' = out \o packet /\ writing' = left /\ UNCHANGED <<shut, clientClosed, writerQ, toWriter>>
  BY DEF Write
<1> HIDE DEF packet, left
<1>6. PICK rest \in Seq(Byte) :
        Stream(toWriter) = out \o rest /\ rest = writing \o Stream(writerQ)
  BY <1>2 DEF WriterInv
<1>7. Stream(writerQ) \in Seq(Byte)
  BY <1>1, NULType, StreamType
<1> DEFINE next == left \o Stream(writerQ)
<1>8. next \in Seq(Byte)
  BY <1>3, <1>7
<1>9. rest = packet \o next
  <2>1. (packet \o left) \o Stream(writerQ) = packet \o next
    BY <1>3, <1>7, ConcatAssociative
  <2>2. QED BY <2>1, <1>4, <1>6
<1>10. next = writing' \o Stream(writerQ')
  BY <1>5
<1> HIDE DEF next
<1>11. out \in Seq(Byte)
  BY <1>1
<1>12. (out \o packet) \o next = out \o (packet \o next)
  BY <1>3, <1>8, <1>11, ConcatAssociative, SMTT(30)
<1>13. out' \in Seq(Byte) /\ writing' \in Seq(Byte)
  BY <1>3, <1>5, <1>11
<1>14. Stream(toWriter') = out' \o next
  BY <1>5, <1>6, <1>9, <1>12
<1>15. QED BY <1>1, <1>5, <1>8, <1>10, <1>13, <1>14 DEF WriterInv

\* A stream that is down stays as it is.
LEMMA EndWriter ==
  ASSUME WriterInv, UNCHANGED <<writerQ, toWriter, out>>, shut' \/ clientClosed',
         writing' = writing \/ writing' = <<>>
  PROVE  WriterInv'
<1>1. writing \in Seq(Byte) /\ <<>> \in Seq(Byte)
  BY DEF WriterInv
<1>2. writing' \in Seq(Byte)
  BY <1>1
<1>3. QED BY <1>2 DEF WriterInv

-----------------------------------------------------------------------------
(* Every step of the session.                                              *)

PipeInv == CountersType /\ ReaderInv /\ WriterInv

LEMMA PostWriter ==
  ASSUME WriterInv, NEW items \in Seq(Item), Post(items),
         UNCHANGED <<writing, out, shut, clientClosed>>
  PROVE  WriterInv'
<1> DEFINE ms == [i \in DOMAIN items |-> Text(items[i])]
<1>1. CASE pipeStopped
  BY <1>1 DEF Post, WriterInv
<1>2. CASE ~pipeStopped
  <2>1. \A i \in 1..Len(items) : Text(items[i]) \in Seq(Byte)
    BY TextType
  <2>2. ms \in Seq(Seq(Byte))
    <3> DEFINE N == Len(items)
               S == Seq(Byte)
    <3>1. DOMAIN items = 1..N /\ N \in Nat
      OBVIOUS
    <3> HIDE DEF N, S
    <3>2. ms \in [1..N -> S]
      BY <3>1, <2>1 DEF N, S
    <3>3. QED BY <3>1, <3>2, SeqDef DEF S
  <2>3. SendMessages(ms)
    BY <1>2 DEF Post
  <2>4. QED BY <2>2, <2>3, SendWriter
<1>3. QED BY <1>1, <1>2

LEMMA SameReader ==
  ASSUME ReaderInv, UNCHANGED <<wire, sent, posted, line>> PROVE ReaderInv'
BY DEF ReaderInv

LEMMA SameWriter ==
  ASSUME WriterInv, UNCHANGED <<writerQ, toWriter, writing, out, shut, clientClosed>>
  PROVE  WriterInv'
BY DEF WriterInv

\* Most steps of the main thread only post.
LEMMA PostKeeps ==
  ASSUME ReaderInv, WriterInv, NEW items \in Seq(Item), Post(items), UNCHANGED pipeRest
  PROVE  ReaderInv' /\ WriterInv'
<1>1. UNCHANGED <<wire, sent, posted, line>> /\ UNCHANGED <<writing, out, shut, clientClosed>>
  BY DEF pipeRest
<1>2. QED BY <1>1, SameReader, PostWriter

LEMMA SamePipe ==
  ASSUME ReaderInv, WriterInv, UNCHANGED pipeVars
  PROVE  ReaderInv' /\ WriterInv'
<1>1. UNCHANGED <<wire, sent, posted, line>>
      /\ UNCHANGED <<writerQ, toWriter, writing, out, shut, clientClosed>>
  BY DEF pipeVars
<1>2. QED BY <1>1, SameReader, SameWriter

LEMMA FewItems ==
  /\ <<>> \in Seq(Item)
  /\ \A r \in Request : <<Answer(r)>> \in Seq(Item)
  /\ \A r \in Request, i \in Nat : <<Event("attached", i), Answer(r)>> \in Seq(Item)
  /\ \A i \in Nat : <<Event("detached", i)>> \in Seq(Item)
BY ItemsType

LEMMA PipeInvInit == ASSUME Init PROVE PipeInv
<1>1. CountersType
  BY DEF Init, CountersType
<1>2. QED BY <1>1, InitReader, InitWriter DEF PipeInv

LEMMA PipeInvNext == ASSUME PipeInv, [Next]_vars PROVE PipeInv'
<1> USE DEF PipeInv
<1> DEFINE SameCounters == UNCHANGED <<made, listening, attached>>
<1>1. SameCounters => CountersType'
  BY DEF CountersType
<1>2. ASSUME NEW r \in Request, ClientSends(r) PROVE PipeInv'
  <2>1. ClientWrites(Text(r)) /\ SameCounters
    BY <1>2 DEF ClientSends
  <2>2. Text(r) \in Seq(Byte)
    BY TextType DEF Item
  <2>3. UNCHANGED <<writerQ, toWriter, writing, out, shut, clientClosed>>
    BY <2>1 DEF ClientWrites
  <2>4. QED BY <2>1, <2>2, <2>3, <1>1, ClientWritesReader, SameWriter
<1>3. ASSUME NEW r \in Request, FinishCall(r) PROVE PipeInv'
  <2>1. Post(<<Answer(r)>>) /\ UNCHANGED pipeRest /\ SameCounters
    BY <1>3 DEF FinishCall
  <2>2. QED BY <2>1, <1>1, PostKeeps, FewItems
<1>4. ASSUME NEW r \in Request, FinishEnable(r) PROVE PipeInv'
  <2> DEFINE items == IF target = "live" THEN <<Event("attached", made + 1), Answer(r)>>
                                         ELSE <<Answer(r)>>
  <2>1. /\ Post(items) /\ UNCHANGED pipeRest
        /\ made' \in {made, made + 1} /\ listening' = listening + 1
        /\ attached' \in {attached, made + 1}
    BY <1>4 DEF FinishEnable
  <2>2. CountersType'
    BY <2>1 DEF CountersType
  <2>3. items \in Seq(Item)
    BY FewItems DEF CountersType
  <2> HIDE DEF items
  <2>4. QED BY <2>1, <2>2, <2>3, PostKeeps
<1>5. ASSUME NEW r \in Request, EnableFails(r) PROVE PipeInv'
  <2>1. Post(<<Answer(r)>>) /\ UNCHANGED pipeRest /\ SameCounters
    BY <1>5 DEF EnableFails
  <2>2. QED BY <2>1, <1>1, PostKeeps, FewItems
<1>6. ASSUME ClientSendsBlank PROVE PipeInv'
  <2>1. ClientWrites(Text(Blank)) /\ SameCounters
    BY <1>6 DEF ClientSendsBlank, jsVars
  <2>2. Text(Blank) \in Seq(Byte)
    BY TextType DEF Item
  <2>3. UNCHANGED <<writerQ, toWriter, writing, out, shut, clientClosed>>
    BY <2>1 DEF ClientWrites
  <2>4. QED BY <2>1, <2>2, <2>3, <1>1, ClientWritesReader, SameWriter
<1>7. ASSUME ClientLeaves PROVE PipeInv'
  <2>1. /\ SameCounters /\ UNCHANGED <<wire, sent, posted, line>>
        /\ UNCHANGED <<writerQ, toWriter, out, writing>> /\ clientClosed'
    BY <1>7 DEF ClientLeaves, ClientCloses, jsVars
  <2>2. QED BY <2>1, <1>1, SameReader, EndWriter
<1>8. ASSUME RunMain PROVE PipeInv'
  <2>1. UNCHANGED pipeRest /\ SameCounters
    BY <1>8 DEF RunMain
  <2>2. PICK items \in Seq(Item) : Post(items)
    <3>1. Post(<<>>) \/ \E r \in Request : Post(<<Answer(r)>>)
      BY <1>8 DEF RunMain, Drop, Dispatch, Request
    <3>2. QED BY <3>1, FewItems
  <2>3. QED BY <2>1, <2>2, <1>1, PostKeeps
<1>9. ASSUME TargetCreated PROVE PipeInv'
  <2> DEFINE new == [k \in 1..listening |-> made + k]
             items == [k \in 1..listening |-> Event("attached", new[k])]
  <2>1. /\ Post(IF accepting THEN items ELSE <<>>) /\ UNCHANGED pipeRest
        /\ made' = made + listening /\ listening' = listening
        /\ attached' = IF listening > 0 THEN made + listening ELSE attached
    BY <1>9 DEF TargetCreated
  <2>2. CountersType'
    BY <2>1 DEF CountersType
  <2>3. items \in Seq(Item)
    <3>1. \A k \in 1..listening : Event("attached", new[k]) \in Item
      BY ItemsType DEF CountersType
    <3>2. listening \in Nat
      BY DEF CountersType
    <3>3. items \in [1..listening -> Item]
      BY <3>1
    <3>4. QED BY <3>2, <3>3, SeqDef
  <2> HIDE DEF items
  <2>4. QED BY <2>1, <2>2, <2>3, FewItems, PostKeeps
<1>10. ASSUME TargetDestroyed PROVE PipeInv'
  <2>1. PICK items \in Seq(Item) : Post(items)
    <3>1. Post(<<>>) \/ (attached # Nobody /\ Post(<<Event("detached", attached)>>))
      BY <1>10 DEF TargetDestroyed
    <3>2. attached # Nobody => <<Event("detached", attached)>> \in Seq(Item)
      BY FewItems DEF CountersType
    <3>3. QED BY <3>1, <3>2, FewItems
  <2>2. /\ UNCHANGED pipeRest /\ UNCHANGED <<made, listening>>
        /\ attached' \in {attached, Nobody}
    BY <1>10 DEF TargetDestroyed
  <2>3. CountersType'
    BY <2>2 DEF CountersType
  <2>4. QED BY <2>1, <2>2, <2>3, PostKeeps
<1>11. ASSUME NEW g, Gate(g) PROVE PipeInv'
  <2>1. UNCHANGED pipeVars /\ SameCounters
    BY <1>11 DEF Gate
  <2>2. QED BY <2>1, <1>1, SamePipe
<1>12. ASSUME NEW c \in Caller, CloseBegin(c) PROVE PipeInv'
  <2>1. /\ listening' = (IF listening = 0 THEN 0 ELSE listening - 1)
        /\ attached' = Nobody /\ made' = made
        /\ UNCHANGED <<wire, sent, posted, line>>
        /\ UNCHANGED <<writerQ, toWriter, out, writing>> /\ shut'
    BY <1>12 DEF CloseBegin, StopBegin
  <2>2. CountersType'
    BY <2>1 DEF CountersType
  <2>3. QED BY <2>1, <2>2, SameReader, EndWriter
<1>13. ASSUME NEW c \in Caller, CloseAgain(c) PROVE PipeInv'
  <2>1. UNCHANGED pipeVars /\ SameCounters
    BY <1>13 DEF CloseAgain
  <2>2. QED BY <2>1, <1>1, SamePipe
<1>14. ASSUME CloseEnd PROVE PipeInv'
  <2>1. /\ SameCounters /\ UNCHANGED <<wire, sent, posted, line>>
        /\ UNCHANGED <<writerQ, toWriter, writing, out, shut, clientClosed>>
    BY <1>14 DEF CloseEnd, StopWriter
  <2>2. QED BY <2>1, <1>1, SameReader, SameWriter
<1>15. ASSUME Reader \/ Writer \/ StopReader, UNCHANGED jsVars PROVE PipeInv'
  <2>1. SameCounters
    BY <1>15 DEF jsVars
  <2>2. CASE \E n \in 1..BufSize : Read(n)
    <3>1. PICK n \in 1..BufSize : Read(n)
      BY <2>2
    <3>2. UNCHANGED <<writerQ, toWriter, writing, out, shut, clientClosed>>
      BY <3>1 DEF Read
    <3>3. QED BY <3>1, <3>2, <2>1, <1>1, ReadReader, SameWriter
  <2>3. CASE ReadEnd \/ ReaderExit \/ StopReader
    <3>1. /\ UNCHANGED <<wire, sent, posted, line>>
          /\ UNCHANGED <<writerQ, toWriter, writing, out, shut, clientClosed>>
      BY <2>3 DEF ReadEnd, ReaderExit, StopReader
    <3>2. QED BY <3>1, <2>1, <1>1, SameReader, SameWriter
  <2>4. CASE WriterTake
    <3>1. UNCHANGED <<wire, sent, posted, line>>
      BY <2>4 DEF WriterTake
    <3>2. QED BY <3>1, <2>1, <2>4, <1>1, SameReader, TakeWriter
  <2>5. CASE WriteFails
    <3>1. /\ UNCHANGED <<wire, sent, posted, line>>
          /\ UNCHANGED <<writerQ, toWriter, out>> /\ writing' = <<>>
          /\ (shut' \/ clientClosed')
      BY <2>5 DEF WriteFails
    <3>2. QED BY <3>1, <2>1, <1>1, SameReader, EndWriter
  <2>6. CASE \E n \in 1..PacketSize : Write(n)
    <3>1. PICK n \in 1..PacketSize : Write(n)
      BY <2>6
    <3>2. UNCHANGED <<wire, sent, posted, line>>
      BY <3>1 DEF Write
    <3>3. QED BY <3>1, <3>2, <2>1, <1>1, SameReader, WriteWriter
  <2>7. QED BY <1>15, <2>2, <2>3, <2>4, <2>5, <2>6 DEF Reader, Writer
<1>16. CASE UNCHANGED vars
  <2>1. UNCHANGED pipeVars /\ SameCounters
    BY <1>16 DEF vars, jsVars
  <2>2. QED BY <2>1, <1>1, SamePipe
<1>17. QED
  BY <1>2, <1>3, <1>4, <1>5, <1>6, <1>7, <1>8, <1>9, <1>10, <1>11, <1>12, <1>13, <1>14,
     <1>15, <1>16 DEF Next

LEMMA FramingHolds == ASSUME PipeInv PROVE Framing
<1>1. PICK read \in Seq(Byte) :
        /\ sent = read \o wire
        /\ posted = Pieces(<<>>, read) /\ line = Remainder(<<>>, read)
  BY DEF PipeInv, ReaderInv
<1>2. SubSeq(sent, 1, Len(sent) - Len(wire)) = read
  <2>1. wire \in Seq(Byte)
    BY DEF PipeInv, ReaderInv
  <2>2. SubSeq(read \o wire, 1, Len(read \o wire) - Len(wire)) = read
    BY <2>1
  <2>3. QED BY <2>2, <1>1
<1>3. IsPrefix(out, Stream(toWriter))
  <2>1. PICK rest \in Seq(Byte) : Stream(toWriter) = out \o rest
    BY DEF PipeInv, WriterInv
  <2>2. out \in Seq(Byte)
    BY DEF PipeInv, WriterInv
  <2>3. /\ Len(out) <= Len(out \o rest)
        /\ SubSeq(out, 1, Len(out)) = SubSeq(out \o rest, 1, Len(out))
    BY <2>2
  <2>4. QED BY <2>1, <2>3 DEF IsPrefix
<1>4. QED BY <1>1, <1>2, <1>3 DEF Framing

\* However the reads and writes cut the two byte streams, for every size of
\* the reader's buffer and of a packet and every set of requests: the messages
\* dispatched are those of the bytes read, and the client reads a prefix of
\* the messages that were sent (ReaderLoop and WriteBytes).
THEOREM FramingTheorem == Spec => []Framing
<1>1. Init => PipeInv
  BY PipeInvInit
<1>2. PipeInv /\ [Next]_vars => PipeInv'
  BY PipeInvNext
<1>3. PipeInv => Framing
  BY FramingHolds
<1>4. QED BY <1>1, <1>2, <1>3, PTL DEF Spec

-----------------------------------------------------------------------------
(* The silence of a connection that was closed.                            *)

CallState == {"unsent", "sent", "closing", "enabling", "running", "answered",
              "dropped", "quitting"}

\* The pipe has let go of its client before the connection has of the pipe.
ClosedInv == call \in [Request -> CallState] /\ (~accepting => ~client)

LEMMA ClosedPosts ==
  ASSUME ~client, NEW items, Post(items) PROVE toWriter' = toWriter
BY DEF Post, SendMessages

Silent == /\ toWriter' = toWriter
          /\ \A r \in Request : call[r] = "sent" => call'[r] \in {"sent", "dropped"}

LEMMA EndedCall ==
  ASSUME call \in [Request -> CallState], NEW c \in Caller, Closing(c), NEW how \in {"quitting", "dropped"},
         Ended(c, how)
  PROVE  /\ call' \in [Request -> CallState]
         /\ \A r \in Request : call[r] = "sent" => call'[r] = "sent"
BY DEF Ended, Closing, CallState, Caller

LEMMA CallStep ==
  ASSUME ClosedInv, UNCHANGED <<client, accepting>>, ~accepting => toWriter' = toWriter,
         NEW r, NEW to \in CallState, call' = [call EXCEPT ![r] = to],
         ~client /\ call[r] = "sent" => to = "dropped"
  PROVE  ClosedInv' /\ (~accepting => Silent)
<1>1. call' \in [Request -> CallState]
  BY DEF ClosedInv
<1>2. ASSUME NEW q \in Request, ~client, call[q] = "sent"
      PROVE  call'[q] \in {"sent", "dropped"}
  BY <1>2 DEF ClosedInv
<1>3. QED BY <1>1, <1>2 DEF ClosedInv, Silent

LEMMA ClosedInvNext ==
  ASSUME ClosedInv, [Next]_vars
  PROVE  ClosedInv' /\ (~accepting => Silent)
<1>1. ASSUME NEW r \in Request, ClientSends(r)
      PROVE  ClosedInv' /\ (~accepting => Silent)
  <2>1. /\ call' = [call EXCEPT ![r] = "sent"] /\ call[r] = "unsent"
        /\ UNCHANGED <<client, accepting, toWriter>>
    BY <1>1 DEF ClientSends, ClientWrites
  <2>2. QED BY <2>1, CallStep DEF CallState
<1>2. ASSUME NEW r \in Request, FinishCall(r)
      PROVE  ClosedInv' /\ (~accepting => Silent)
  <2>1. /\ call[r] = "running" /\ UNCHANGED <<client, accepting>>
        /\ call' = [call EXCEPT ![r] = IF client THEN "answered" ELSE "dropped"]
        /\ Post(<<Answer(r)>>)
    BY <1>2 DEF FinishCall, pipeRest
  <2>2. ~accepting => toWriter' = toWriter
    BY <2>1, ClosedPosts DEF ClosedInv
  <2>3. QED BY <2>1, <2>2, CallStep DEF CallState
<1>3. ASSUME NEW r \in Request, FinishEnable(r)
      PROVE  ClosedInv' /\ (~accepting => Silent)
  <2> DEFINE items == IF target = "live" THEN <<Event("attached", made + 1), Answer(r)>>
                                         ELSE <<Answer(r)>>
  <2>1. /\ call[r] = "enabling" /\ UNCHANGED <<client, accepting>>
        /\ call' = [call EXCEPT ![r] = IF client THEN "answered" ELSE "dropped"]
        /\ Post(items)
    BY <1>3 DEF FinishEnable, pipeRest
  <2> HIDE DEF items
  <2>2. ~accepting => toWriter' = toWriter
    BY <2>1, ClosedPosts DEF ClosedInv
  <2>3. QED BY <2>1, <2>2, CallStep DEF CallState
<1>4. ASSUME NEW r \in Request, EnableFails(r)
      PROVE  ClosedInv' /\ (~accepting => Silent)
  <2>1. /\ call[r] = "enabling" /\ UNCHANGED <<client, accepting>>
        /\ call' = [call EXCEPT ![r] = IF client THEN "answered" ELSE "dropped"]
        /\ Post(<<Answer(r)>>)
    BY <1>4 DEF EnableFails, pipeRest
  <2>2. ~accepting => toWriter' = toWriter
    BY <2>1, ClosedPosts DEF ClosedInv
  <2>3. QED BY <2>1, <2>2, CallStep DEF CallState
<1>5. ASSUME ClientSendsBlank \/ ClientLeaves
      PROVE  ClosedInv' /\ (~accepting => Silent)
  BY <1>5 DEF ClientSendsBlank, ClientLeaves, ClientWrites, ClientCloses, jsVars,
              ClosedInv, Silent
<1>6. ASSUME RunMain PROVE ClosedInv' /\ (~accepting => Silent)
  <2>1. UNCHANGED <<client, accepting>>
    BY <1>6 DEF RunMain, pipeRest
  <2>2. PICK items : Post(items)
    BY <1>6 DEF RunMain, Drop, Dispatch
  <2>3. ~accepting => toWriter' = toWriter
    BY <2>2, ClosedPosts DEF ClosedInv
  <2>4. \/ UNCHANGED call
        \/ \E r : Drop(r) \/ (client /\ Dispatch(r))
    BY <1>6 DEF RunMain
  <2>5. ASSUME NEW r, Drop(r) PROVE ClosedInv' /\ (~accepting => Silent)
    <3>1. call' = [call EXCEPT ![r] = "dropped"]
      BY <2>5 DEF Drop
    <3>2. QED BY <3>1, <2>1, <2>3, CallStep DEF CallState
  <2>6. ASSUME NEW r, client, Dispatch(r) PROVE ClosedInv' /\ (~accepting => Silent)
    <3>1. PICK to \in CallState : call' = [call EXCEPT ![r] = to]
      BY <2>6 DEF Dispatch, CallState
    <3>2. QED BY <3>1, <2>1, <2>3, <2>6, CallStep
  <2>7. CASE UNCHANGED call
    BY <2>7, <2>1, <2>3 DEF ClosedInv, Silent
  <2>8. QED BY <2>4, <2>5, <2>6, <2>7
<1>7. ASSUME TargetCreated PROVE ClosedInv' /\ (~accepting => Silent)
  <2>1. PICK items : Post(items)
    BY <1>7 DEF TargetCreated
  <2>2. UNCHANGED <<call, client, accepting>>
    BY <1>7 DEF TargetCreated, pipeRest
  <2>3. QED BY <2>1, <2>2, ClosedPosts DEF ClosedInv, Silent
<1>8. ASSUME TargetDestroyed PROVE ClosedInv' /\ (~accepting => Silent)
  <2>1. PICK items : Post(items)
    BY <1>8 DEF TargetDestroyed
  <2>2. UNCHANGED <<call, client, accepting>>
    BY <1>8 DEF TargetDestroyed, pipeRest
  <2>3. QED BY <2>1, <2>2, ClosedPosts DEF ClosedInv, Silent
<1>9. ASSUME NEW g, Gate(g) PROVE ClosedInv' /\ (~accepting => Silent)
  BY <1>9 DEF Gate, pipeVars, ClosedInv, Silent
<1>10. ASSUME NEW c \in Caller, CloseBegin(c) PROVE ClosedInv' /\ (~accepting => Silent)
  <2>1. Closing(c) /\ Ended(c, "quitting") /\ accepting /\ ~client'
    BY <1>10 DEF CloseBegin, StopBegin
  <2>2. QED BY <2>1, EndedCall DEF ClosedInv
<1>11. ASSUME NEW c \in Caller, CloseAgain(c) PROVE ClosedInv' /\ (~accepting => Silent)
  <2>1. Closing(c) /\ Ended(c, "dropped") /\ UNCHANGED <<accepting, client, toWriter>>
    BY <1>11 DEF CloseAgain, pipeVars
  <2>2. QED BY <2>1, EndedCall DEF ClosedInv, Silent
<1>12. ASSUME CloseEnd PROVE ClosedInv' /\ (~accepting => Silent)
  BY <1>12 DEF CloseEnd, StopWriter, ClosedInv, Silent
<1>13. ASSUME Reader \/ Writer \/ StopReader, UNCHANGED jsVars
       PROVE  ClosedInv' /\ (~accepting => Silent)
  <2>1. UNCHANGED <<client, toWriter>>
    BY <1>13 DEF Reader, Writer, Read, ReadEnd, ReaderExit, WriterTake, Write, WriteFails,
                 StopReader
  <2>2. QED BY <1>13, <2>1 DEF jsVars, ClosedInv, Silent
<1>14. CASE UNCHANGED vars
  BY <1>14 DEF vars, pipeVars, jsVars, ClosedInv, Silent
<1>15. QED
  BY <1>1, <1>2, <1>3, <1>4, <1>5, <1>6, <1>7, <1>8, <1>9, <1>10, <1>11, <1>12, <1>13, <1>14
     DEF Next

\* Once the connection is disposed no request starts and nothing more is
\* given to the writer, whatever runs while pipe.stop() waits for its threads
\* (the onclose callback of Juggler.js).
THEOREM SilentOnceClosedTheorem == Spec => SilentOnceClosed
<1>1. Init => ClosedInv
  BY DEF Init, PipeInit, ClosedInv, CallState
<1>2. ClosedInv /\ [Next]_vars => ClosedInv' /\ (~accepting => Silent)
  BY ClosedInvNext
<1>3. (~accepting => Silent) =>
        [~accepting => /\ toWriter' = toWriter
                       /\ \A r \in Request : call[r] = "sent" =>
                            call'[r] \in {"sent", "dropped"}]_vars
  BY DEF Silent
<1>4. QED BY <1>1, <1>2, <1>3, PTL DEF Spec, SilentOnceClosed

-----------------------------------------------------------------------------
(* The sessions of the target.                                             *)

\* What a Browser.enable that has not come to its end finds.
EnableInv ==
  /\ call \in [Request -> CallState] /\ CountersType
  /\ \A r \in Request : call[r] = "enabling" => r \in EnableRequest /\ ~enabled
  /\ ~enabled => listening = 0 /\ attached = Nobody
  /\ listening <= 1
  /\ listening = 0 => attached = Nobody
  /\ sessions = {attached} \ {Nobody}
  /\ sessions # {} => target = "live"

LEMMA EnableInvInit == ASSUME Init PROVE EnableInv
BY DEF Init, EnableInv, CountersType, CallState

\* With one Browser.enable, the listeners are registered once.
LEMMA EnableInvNext ==
  ASSUME EnableInv, NEW e, EnableRequest = {e}, [Next]_vars
  PROVE  EnableInv'
<1> USE DEF EnableInv, CountersType
<1> DEFINE Rest == UNCHANGED <<enabled, listening, target, sessions, attached, made>>
<1>1. ASSUME Rest, NEW r, NEW to \in CallState, call' = [call EXCEPT ![r] = to],
             to = "enabling" => r \in EnableRequest /\ ~enabled
      PROVE  EnableInv'
  BY <1>1
<1>2. ASSUME Rest, UNCHANGED call PROVE EnableInv'
  BY <1>2
<1>3. ASSUME NEW r \in Request, ClientSends(r) PROVE EnableInv'
  <2>1. Rest /\ call' = [call EXCEPT ![r] = "sent"]
    BY <1>3 DEF ClientSends
  <2>2. QED BY <2>1, <1>1 DEF CallState
<1>4. ASSUME NEW r \in Request, FinishCall(r) PROVE EnableInv'
  <2>1. Rest /\ call' = [call EXCEPT ![r] = IF client THEN "answered" ELSE "dropped"]
    BY <1>4 DEF FinishCall
  <2>2. QED BY <2>1, <1>1 DEF CallState
<1>5. ASSUME NEW r \in Request, FinishEnable(r) PROVE EnableInv'
  <2>1. /\ call[r] = "enabling" /\ enabled' /\ listening' = listening + 1 /\ target' = target
        /\ made' = (IF target = "live" THEN made + 1 ELSE made)
        /\ sessions' = (IF target = "live" THEN sessions \cup {made + 1} ELSE sessions)
        /\ attached' = (IF target = "live" THEN made + 1 ELSE attached)
    BY <1>5 DEF FinishEnable
  <2>2. call' = [call EXCEPT ![r] = IF client THEN "answered" ELSE "dropped"]
    BY <1>5 DEF FinishEnable
  <2>3. r = e /\ ~enabled /\ listening = 0 /\ attached = Nobody /\ sessions = {}
    BY <2>1
  <2>4. call' \in [Request -> CallState] /\ \A q \in Request : call'[q] # "enabling"
    BY <2>2, <2>3 DEF CallState
  <2>5. CASE target = "live"
    BY <2>1, <2>3, <2>4, <2>5, SessionAssumption
  <2>6. CASE target # "live"
    BY <2>1, <2>3, <2>4, <2>6
  <2>7. QED BY <2>5, <2>6
<1>6. ASSUME NEW r \in Request, EnableFails(r) PROVE EnableInv'
  <2>1. /\ call[r] = "enabling" /\ enabled'
        /\ UNCHANGED <<listening, target, sessions, attached, made>>
        /\ call' = [call EXCEPT ![r] = IF client THEN "answered" ELSE "dropped"]
    BY <1>6 DEF EnableFails
  <2>2. r = e /\ call' \in [Request -> CallState] /\ \A q \in Request : call'[q] # "enabling"
    BY <2>1 DEF CallState
  <2>3. QED BY <2>1, <2>2
<1>7. ASSUME ClientSendsBlank \/ ClientLeaves PROVE EnableInv'
  BY <1>7, <1>2 DEF ClientSendsBlank, ClientLeaves, jsVars
<1>8. ASSUME RunMain PROVE EnableInv'
  <2>1. Rest
    BY <1>8 DEF RunMain
  <2>2. UNCHANGED call \/ \E r : Drop(r) \/ Dispatch(r)
    BY <1>8 DEF RunMain
  <2>3. ASSUME NEW r, Drop(r) PROVE EnableInv'
    <3>1. call' = [call EXCEPT ![r] = "dropped"]
      BY <2>3 DEF Drop
    <3>2. QED BY <3>1, <2>1, <1>1 DEF CallState
  <2>4. ASSUME NEW r, Dispatch(r) PROVE EnableInv'
    <3>1. PICK to \in CallState : /\ call' = [call EXCEPT ![r] = to]
                                  /\ to = "enabling" => r \in EnableRequest /\ ~enabled
      BY <2>4 DEF Dispatch, CallState
    <3>2. QED BY <3>1, <2>1, <1>1
  <2>5. QED BY <2>1, <2>2, <2>3, <2>4, <1>2
<1>9. ASSUME TargetCreated PROVE EnableInv'
  <2> DEFINE new == [k \in 1..listening |-> made + k]
  <2>1. /\ target = "none" /\ target' = "live" /\ made' = made + listening
        /\ sessions' = sessions \cup ToSet(new)
        /\ attached' = (IF listening > 0 THEN made + listening ELSE attached)
        /\ UNCHANGED <<call, enabled, listening>>
    BY <1>9 DEF TargetCreated
  <2>2. sessions = {} /\ attached = Nobody
    BY <2>1
  <2>3. ToSet(new) = {made + k : k \in 1..listening}
    BY DEF ToSet
  <2>4. CASE listening = 0
    BY <2>1, <2>2, <2>3, <2>4
  <2>5. CASE listening = 1
    <3>1. sessions' = {made + 1}
      BY <2>1, <2>2, <2>3, <2>5
    <3>2. QED BY <2>1, <2>5, <3>1, SessionAssumption
  <2>6. QED BY <2>4, <2>5
<1>10. ASSUME TargetDestroyed PROVE EnableInv'
  <2> DEFINE hears == listening > 0 /\ attached # Nobody
  <2>1. /\ target' = "gone" /\ UNCHANGED <<call, enabled, listening, made>>
        /\ sessions' = (IF hears THEN sessions \ {attached} ELSE sessions)
        /\ attached' = (IF hears THEN Nobody ELSE attached)
    BY <1>10 DEF TargetDestroyed
  <2>2. hears <=> attached # Nobody
    OBVIOUS
  <2>3. sessions' = {} /\ attached' = Nobody
    BY <2>1, <2>2
  <2>4. QED BY <2>1, <2>3
<1>11. ASSUME NEW g, Gate(g) PROVE EnableInv'
  BY <1>11, <1>2 DEF Gate
<1>12. ASSUME NEW c \in Caller, NEW how \in {"quitting", "dropped"}, Ended(c, how)
       PROVE  /\ call' \in [Request -> CallState]
              /\ \A r \in Request : call'[r] = "enabling" => call[r] = "enabling"
  BY <1>12 DEF Ended, CallState
<1>13. ASSUME NEW c \in Caller, CloseBegin(c) PROVE EnableInv'
  <2>1. /\ listening' = (IF listening = 0 THEN 0 ELSE listening - 1)
        /\ sessions' = {} /\ attached' = Nobody /\ UNCHANGED <<enabled, target, made>>
        /\ Ended(c, "quitting")
    BY <1>13 DEF CloseBegin
  <2>2. listening' = 0
    BY <2>1
  <2>3. QED BY <2>1, <2>2, <1>12
<1>14. ASSUME NEW c \in Caller, CloseAgain(c) PROVE EnableInv'
  <2>1. Ended(c, "dropped") /\ Rest
    BY <1>14 DEF CloseAgain
  <2>2. QED BY <2>1, <1>12
<1>15. ASSUME CloseEnd PROVE EnableInv'
  BY <1>15, <1>2 DEF CloseEnd
<1>16. ASSUME UNCHANGED jsVars PROVE EnableInv'
  BY <1>16, <1>2 DEF jsVars
<1>17. QED
  BY <1>3, <1>4, <1>5, <1>6, <1>7, <1>8, <1>9, <1>10, <1>11, <1>13, <1>14, <1>15, <1>16
     DEF Next, vars

\* With one Browser.enable there is a page session exactly while its target is
\* there and observed, for every set of the other requests and however enable,
\* dispose and the target's coming and going interleave (BrowserHandler's
\* _attachedSessions against the Dispatcher's _sessions).
THEOREM NoOrphanSessionTheorem == Spec => []NoOrphanSession
<1>1. CASE Cardinality(EnableRequest) # 1
  <2>1. NoOrphanSession
    BY <1>1 DEF NoOrphanSession
  <2>2. QED BY <2>1, PTL
<1>2. CASE Cardinality(EnableRequest) = 1
  <2>1. PICK e : EnableRequest = {e}
    BY <1>2, SessionAssumption, FS_Singleton
  <2>2. Init => EnableInv
    BY EnableInvInit
  <2>3. EnableInv /\ [Next]_vars => EnableInv'
    BY <2>1, EnableInvNext
  <2>4. EnableInv => NoOrphanSession
    BY DEF EnableInv, NoOrphanSession
  <2>5. QED BY <2>2, <2>3, <2>4, PTL DEF Spec
<1>3. QED BY <1>1, <1>2
=============================================================================
