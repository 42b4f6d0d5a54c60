--------------------------- MODULE SqlTextProofs ---------------------------
(***************************************************************************)
(* What the loops over texts compute, for every text: lex_sql,             *)
(* parse_statement, the CSV reader and append_row_csv.  Induction over the *)
(* pieces read so far, with InductionTo.                                   *)
(***************************************************************************)
EXTENDS SqlParser, Schema, NumberFacts, SequenceTheorems, FiniteSetTheorems, TLAPS

-----------------------------------------------------------------------------
(* Loops. *)

\* f[i]: what a loop of n steps has computed after i of them.
IsLoop(f, n, start, step) ==
  f[0] = start /\ \A i \in 1 .. n : f[i] = step[<<i, f[i - 1]>>]

(* A loop whose steps stay in a set of states has computed something after *)
(* each of its steps.                                                      *)
LEMMA LoopExists ==
  ASSUME NEW n \in Nat, NEW S, NEW start \in S,
         NEW step \in [(1 .. n) \X S -> S]
  PROVE  \E f \in [0 .. n -> S] : IsLoop(f, n, start, step)
<1> DEFINE T == {k \in 0 .. n : \E f \in [0 .. k -> S] :
                   /\ f[0] = start
                   /\ \A i \in 1 .. k : f[i] = step[<<i, f[i - 1]>>]}
<1>1. 0 \in T
  <2> DEFINE g == [i \in 0 .. 0 |-> start]
  <2>1. g \in [0 .. 0 -> S] /\ g[0] = start /\ \A i \in 1 .. 0 : FALSE
    OBVIOUS
  <2> HIDE DEF g
  <2> QED
    BY <2>1
<1>2. ASSUME NEW k \in 1 .. n, k - 1 \in T
      PROVE  k \in T
  <2>1. PICK f \in [0 .. k - 1 -> S] :
          /\ f[0] = start
          /\ \A i \in 1 .. k - 1 : f[i] = step[<<i, f[i - 1]>>]
    BY <1>2
  <2> DEFINE g == [i \in 0 .. k |-> IF i < k THEN f[i] ELSE step[<<k, f[k - 1]>>]]
  <2>2. f[k - 1] \in S /\ <<k, f[k - 1]>> \in (1 .. n) \X S
    BY <2>1
  <2>3. step[<<k, f[k - 1]>>] \in S
    BY <2>2
  <2>4. g \in [0 .. k -> S]
    BY <2>3
  <2>5. ASSUME NEW i \in 1 .. k
        PROVE  g[i] = step[<<i, g[i - 1]>>]
    <3>1. i - 1 \in 0 .. k /\ i - 1 < k /\ g[i - 1] = f[i - 1]
      OBVIOUS
    <3>2. CASE i < k
      <4>1. i \in 1 .. k - 1 /\ g[i] = f[i]
        BY <3>2
      <4> HIDE DEF g
      <4> QED
        BY <2>1, <3>1, <4>1
    <3>3. CASE i = k
      <4>1. g[i] = step[<<k, f[k - 1]>>]
        BY <3>3
      <4> HIDE DEF g
      <4> QED
        BY <3>1, <3>3, <4>1
    <3> QED
      BY <3>2, <3>3
  <2>6. g[0] = start
    BY <2>1
  <2> HIDE DEF g
  <2> QED
    BY <2>4, <2>5, <2>6
<1> HIDE DEF T
<1>3. \A i \in 0 .. n : i \in T
  BY <1>1, <1>2, InductionTo
<1>4. n \in T
  BY <1>3
<1> QED
  BY <1>4 DEF T, IsLoop

(* What InOrder lists. *)

\* f[i]: what InOrder has listed of a set of positions P after i steps.
IsListing(f, n, P) ==
  f = [i \in 0 .. n |-> IF i = 0 THEN <<>>
                        ELSE IF i \in P THEN Append(f[i - 1], i) ELSE f[i - 1]]

\* There is such a listing, of members of P.
LEMMA ListingExists ==
  ASSUME NEW n \in Nat, NEW P
  PROVE  \E f : IsListing(f, n, P) /\ f \in [0 .. n -> Seq(P \cap (1 .. n))]
<1> DEFINE S == Seq(P \cap (1 .. n))
           step == [x \in (1 .. n) \X S |-> IF x[1] \in P THEN Append(x[2], x[1]) ELSE x[2]]
<1>1. <<>> \in S
  OBVIOUS
<1>2. ASSUME NEW i \in 1 .. n, NEW q \in S
      PROVE  (IF i \in P THEN Append(q, i) ELSE q) \in S
  BY <1>2
<1>3. step \in [(1 .. n) \X S -> S]
  <2>1. ASSUME NEW x \in (1 .. n) \X S
        PROVE  (IF x[1] \in P THEN Append(x[2], x[1]) ELSE x[2]) \in S
    <3>1. x[1] \in 1 .. n /\ x[2] \in S
      OBVIOUS
    <3> HIDE DEF S
    <3> QED
      BY <1>2, <3>1
  <2> QED
    BY <2>1
<1>4. ASSUME NEW i \in 1 .. n, NEW q \in S
      PROVE  step[<<i, q>>] = IF i \in P THEN Append(q, i) ELSE q
  OBVIOUS
<1> HIDE DEF S, step
<1>5. PICK f \in [0 .. n -> S] :
        f[0] = <<>> /\ \A i \in 1 .. n : f[i] = step[<<i, f[i - 1]>>]
  <2>1. \E f \in [0 .. n -> S] : IsLoop(f, n, <<>>, step)
    BY <1>1, <1>3, LoopExists
  <2> QED
    BY <2>1 DEF IsLoop
<1>6. \A i \in 1 .. n : f[i] = IF i \in P THEN Append(f[i - 1], i) ELSE f[i - 1]
  <2>1. \A i \in 1 .. n : f[i - 1] \in S
    BY <1>5
  <2> QED
    BY <1>4, <1>5, <2>1
<1>7. ASSUME NEW i \in 0 .. n
      PROVE  f[i] = IF i = 0 THEN <<>>
                    ELSE IF i \in P THEN Append(f[i - 1], i) ELSE f[i - 1]
  <2>1. i = 0 \/ (i \in 1 .. n /\ i # 0)
    OBVIOUS
  <2> QED
    BY <1>5, <1>6, <2>1, Zenon
<1>8. IsListing(f, n, P)
  BY <1>5, <1>7 DEF IsListing
<1> QED
  BY <1>5, <1>8 DEF S

\* Two listings agree as far as the sets do.
LEMMA ListingsAgree ==
  ASSUME NEW n \in Nat, NEW m \in Nat, n <= m, NEW P, NEW Q,
         \A i \in 1 .. n : i \in P <=> i \in Q,
         NEW f, IsListing(f, n, P), NEW g, IsListing(g, m, Q)
  PROVE  f[n] = g[n]
<1> DEFINE T == {i \in 0 .. n : f[i] = g[i]}
<1>0. /\ \A i \in 0 .. n : f[i] = IF i = 0 THEN <<>>
                                  ELSE IF i \in P THEN Append(f[i - 1], i) ELSE f[i - 1]
      /\ \A i \in 0 .. m : g[i] = IF i = 0 THEN <<>>
                                  ELSE IF i \in Q THEN Append(g[i - 1], i) ELSE g[i - 1]
  BY DEF IsListing
<1>1. 0 \in T
  BY <1>0
<1>2. ASSUME NEW i \in 1 .. n, i - 1 \in T
      PROVE  i \in T
  BY <1>0, <1>2
<1> HIDE DEF T
<1>3. \A i \in 0 .. n : i \in T
  BY <1>1, <1>2, InductionTo
<1> QED
  BY <1>3 DEF T

\* What InOrder returns is the last of a listing, of members of the set.
LEMMA InOrderLists ==
  ASSUME NEW n \in Nat, NEW P
  PROVE  /\ \E f : IsListing(f, n, P) /\ InOrder(n, P) = f[n]
         /\ InOrder(n, P) \in Seq(P \cap (1 .. n))
<1> DEFINE f == CHOOSE g : IsListing(g, n, P)
<1>1. IsListing(f, n, P)
  BY ListingExists
<1>2. InOrder(n, P) = f[n]
  BY DEF InOrder, IsListing
<1> HIDE DEF f
<1>3. PICK g : IsListing(g, n, P) /\ g \in [0 .. n -> Seq(P \cap (1 .. n))]
  BY ListingExists
<1>4. f[n] = g[n]
  BY <1>1, <1>3, ListingsAgree
<1>5. g[n] \in Seq(P \cap (1 .. n))
  BY <1>3
<1> QED
  BY <1>1, <1>2, <1>4, <1>5

\* InOrder by its last position.
LEMMA InOrderNext ==
  ASSUME NEW n \in Nat, NEW P
  PROVE  /\ InOrder(0, P) = <<>>
         /\ InOrder(n + 1, P) = IF n + 1 \in P THEN Append(InOrder(n, P), n + 1)
                                ELSE InOrder(n, P)
<1>1. PICK f : IsListing(f, n, P) /\ InOrder(n, P) = f[n]
  BY InOrderLists
<1>2. n + 1 \in Nat
  OBVIOUS
<1>3. PICK g : IsListing(g, n + 1, P) /\ InOrder(n + 1, P) = g[n + 1]
  BY <1>2, InOrderLists
<1>4. f[n] = g[n]
  BY <1>1, <1>2, <1>3, ListingsAgree
<1>5. g[n + 1] = IF n + 1 \in P THEN Append(g[n], n + 1) ELSE g[n]
  <2>1. n + 1 \in 0 .. n + 1 /\ n + 1 # 0 /\ (n + 1) - 1 = n
    OBVIOUS
  <2>2. g[n + 1] = IF n + 1 = 0 THEN <<>>
                   ELSE IF n + 1 \in P THEN Append(g[(n + 1) - 1], n + 1) ELSE g[(n + 1) - 1]
    BY <1>3, <2>1, Zenon DEF IsListing
  <2> QED
    BY <2>1, <2>2, Zenon
<1>6. PICK h : IsListing(h, 0, P) /\ InOrder(0, P) = h[0]
  BY InOrderLists
<1>7. h[0] = <<>>
  BY <1>6 DEF IsListing
<1> QED
  BY <1>1, <1>3, <1>4, <1>5, <1>6, <1>7

\* InOrder looks at positions up to n only.
LEMMA InOrderSame ==
  ASSUME NEW n \in Nat, NEW P, NEW Q, \A i \in 1 .. n : i \in P <=> i \in Q
  PROVE  InOrder(n, P) = InOrder(n, Q)
<1>1. PICK f : IsListing(f, n, P) /\ InOrder(n, P) = f[n]
  BY InOrderLists
<1>2. PICK g : IsListing(g, n, Q) /\ InOrder(n, Q) = g[n]
  BY InOrderLists
<1> QED
  BY <1>1, <1>2, ListingsAgree

\* Positions past n that are not in the set add nothing.
LEMMA InOrderSkips ==
  ASSUME NEW n \in Nat, NEW m \in Nat, n <= m, NEW P,
         \A i \in n + 1 .. m : i \notin P
  PROVE  InOrder(m, P) = InOrder(n, P)
<1> DEFINE T == {i \in 0 .. m - n : InOrder(n + i, P) = InOrder(n, P)}
<1>1. 0 \in T
  OBVIOUS
<1>2. ASSUME NEW i \in 1 .. m - n, i - 1 \in T
      PROVE  i \in T
  <2>1. n + (i - 1) \in Nat /\ n + (i - 1) + 1 = n + i /\ n + i \in n + 1 .. m
    OBVIOUS
  <2>2. InOrder(n + (i - 1) + 1, P) = InOrder(n + (i - 1), P)
    BY <2>1, InOrderNext
  <2> QED
    BY <1>2, <2>1, <2>2
<1>3. m - n \in Nat
  OBVIOUS
<1> HIDE DEF T
<1>4. \A i \in 0 .. m - n : i \in T
  BY <1>1, <1>2, <1>3, InductionTo
<1>5. m - n \in T /\ n + (m - n) = m
  BY <1>3, <1>4
<1> QED
  BY <1>5 DEF T

-----------------------------------------------------------------------------
(* Sequences. *)

\* Induction over a sequence by its last element, with a set as the predicate.
LEMMA InductionByLast ==
  ASSUME NEW S, NEW T, <<>> \in T,
         \A s \in Seq(S), e \in S : s \in T => Append(s, e) \in T
  PROVE  \A s \in Seq(S) : s \in T
<1> SUFFICES ASSUME NEW q \in Seq(S)
             PROVE  q \in T
  OBVIOUS
<1> DEFINE U == {n \in 0 .. Len(q) : \A s \in Seq(S) : Len(s) = n => s \in T}
<1>1. Len(q) \in Nat
  OBVIOUS
<1>2. 0 \in U
  <2>1. \A s \in Seq(S) : Len(s) = 0 => s = <<>>
    BY EmptySeq
  <2> QED
    BY <1>1, <2>1
<1>3. ASSUME NEW n \in 1 .. Len(q), n - 1 \in U
      PROVE  n \in U
  <2>1. ASSUME NEW s \in Seq(S), Len(s) = n
        PROVE  s \in T
    <3>1. s # <<>>
      BY <2>1
    <3>2. PICK r \in Seq(S), e \in S : s = Append(r, e)
      BY <3>1, SequenceEmptyOrAppend
    <3>3. Len(r) = n - 1
      BY <2>1, <3>2
    <3>4. r \in T
      BY <1>3, <3>3
    <3> QED
      BY <3>2, <3>4
  <2> QED
    BY <1>1, <2>1
<1> HIDE DEF U
<1>4. \A n \in 0 .. Len(q) : n \in U
  BY <1>1, <1>2, <1>3, InductionTo
<1>5. Len(q) \in U
  BY <1>1, <1>4
<1> QED
  BY <1>5 DEF U

\* f[i]: the first i sequences of q, one after the other.
IsFlattening(f, q, n) ==
  f = [i \in 1 .. n |-> IF i = 1 THEN q[i] ELSE f[i - 1] \o q[i]]

\* The recursive definition in FlattenSeq has a solution.
LEMMA FlatteningExists ==
  ASSUME NEW S, NEW q \in Seq(Seq(S))
  PROVE  \E f : /\ IsFlattening(f, q, Len(q))
                /\ \A i \in 1 .. Len(q) : f[i] \in Seq(S)
<1> DEFINE n == Len(q)
           R == Seq(S)
           step == [x \in (1 .. n) \X R |-> x[2] \o q[x[1]]]
<1>0. n \in Nat /\ \A i \in 1 .. n : q[i] \in R
  OBVIOUS
<1>1. ASSUME NEW i \in 1 .. n, NEW r \in R
      PROVE  r \o q[i] \in R /\ step[<<i, r>>] = r \o q[i]
  <2>1. r \o q[i] \in R
    BY <1>0, ConcatProperties
  <2> HIDE DEF R
  <2>2. <<i, r>> \in (1 .. n) \X R /\ <<i, r>>[1] = i /\ <<i, r>>[2] = r
    OBVIOUS
  <2> QED
    BY <2>1, <2>2
<1>2. step \in [(1 .. n) \X R -> R]
  <2>1. \A x \in (1 .. n) \X R : x[1] \in 1 .. n /\ x[2] \in R
    OBVIOUS
  <2>2. \A x \in (1 .. n) \X R : x[2] \o q[x[1]] \in R
    BY <1>1, <2>1
  <2> QED
    BY <2>2
<1>3. <<>> \in R /\ \A r \in R : <<>> \o r = r
  BY ConcatEmptySeq
<1> HIDE DEF n, R, step
<1>4. PICK f \in [0 .. n -> R] : IsLoop(f, n, <<>>, step)
  BY <1>0, <1>2, <1>3, LoopExists
<1>5. \A i \in 1 .. n : f[i - 1] \in R /\ f[i] \in R
  BY <1>0, <1>4
<1>6. f[0] = <<>> /\ \A i \in 1 .. n : f[i] = f[i - 1] \o q[i]
  BY <1>1, <1>4, <1>5 DEF IsLoop
<1> DEFINE g == [i \in 1 .. n |-> f[i]]
<1>7. ASSUME NEW i \in 1 .. n
      PROVE  g[i] = IF i = 1 THEN q[i] ELSE g[i - 1] \o q[i]
  <2>1. CASE i = 1
    <3>0. 1 \in 1 .. n /\ 1 - 1 = 0
      BY <2>1
    <3>1. f[1] = <<>> \o q[1]
      BY <1>6, <3>0, Zenon
    <3> QED
      BY <1>0, <1>3, <2>1, <3>1
  <2>2. CASE i # 1
    <3>1. i - 1 \in 1 .. n
      BY <1>0, <2>2
    <3>2. g[i] = f[i] /\ g[i - 1] = f[i - 1]
      BY <3>1
    <3> QED
      BY <1>6, <2>2, <3>2
  <2> QED
    BY <2>1, <2>2
<1>8. IsFlattening(g, q, n) /\ \A i \in 1 .. n : g[i] \in R
  <2>1. \A i \in 1 .. n : g[i] \in R
    BY <1>5
  <2>2. g = [i \in 1 .. n |-> g[i]]
    OBVIOUS
  <2> HIDE DEF g
  <2> QED
    BY <1>7, <2>1, <2>2, Zenon DEF IsFlattening
<1> HIDE DEF g
<1> QED
  BY <1>8 DEF n, R

\* Two flattenings agree as far as the sequences do.
LEMMA FlatteningsAgree ==
  ASSUME NEW n \in Nat, NEW m \in Nat, NEW p, NEW q, NEW f, NEW g,
         n <= m, IsFlattening(f, p, n), IsFlattening(g, q, m),
         \A i \in 1 .. n : p[i] = q[i]
  PROVE  \A i \in 1 .. n : f[i] = g[i]
<1> DEFINE T == {i \in 0 .. n : i = 0 \/ f[i] = g[i]}
<1>0. /\ \A i \in 1 .. n : f[i] = IF i = 1 THEN p[i] ELSE f[i - 1] \o p[i]
      /\ \A i \in 1 .. m : g[i] = IF i = 1 THEN q[i] ELSE g[i - 1] \o q[i]
  BY DEF IsFlattening
<1>1. 0 \in T
  OBVIOUS
<1>2. ASSUME NEW i \in 1 .. n, i - 1 \in T
      PROVE  i \in T
  BY <1>0, <1>2
<1> HIDE DEF T
<1>3. \A i \in 0 .. n : i \in T
  BY <1>1, <1>2, InductionTo
<1> QED
  BY <1>3 DEF T

\* FlattenSeq by its last sequence.
LEMMA FlattenByLast ==
  ASSUME NEW S, NEW q \in Seq(Seq(S)), NEW x \in Seq(S)
  PROVE  /\ FlattenSeq(<<>>) = <<>>
         /\ FlattenSeq(q) \in Seq(S)
         /\ FlattenSeq(Append(q, x)) = FlattenSeq(q) \o x
<1> DEFINE r == Append(q, x)
           n == Len(q)
           F(p) == CHOOSE f : IsFlattening(f, p, Len(p))
<1>1. \A p : FlattenSeq(p) = IF Len(p) = 0 THEN p ELSE F(p)[Len(p)]
  BY DEF FlattenSeq, IsFlattening
<1>2. \A p \in Seq(Seq(S)) : IsFlattening(F(p), p, Len(p))
  BY FlatteningExists
<1> HIDE DEF F
<1>3. Len(<<>>) = 0 /\ FlattenSeq(<<>>) = <<>>
  BY <1>1
<1>4. n \in Nat /\ r \in Seq(Seq(S)) /\ Len(r) = n + 1 /\ r[n + 1] = x
      /\ \A i \in 1 .. n : r[i] = q[i]
  OBVIOUS
<1> HIDE DEF r
<1>5. IsFlattening(F(q), q, n) /\ IsFlattening(F(r), r, n + 1)
  BY <1>2, <1>4
<1>6. \A i \in 1 .. n : F(q)[i] = F(r)[i]
  <2> DEFINE m == n + 1
             f == F(q)
             g == F(r)
  <2>1. n \in Nat /\ m \in Nat /\ n <= m /\ \A i \in 1 .. n : q[i] = r[i]
    BY <1>4
  <2>2. IsFlattening(f, q, n) /\ IsFlattening(g, r, m)
    BY <1>5
  <2> HIDE DEF n, m, f, g
  <2>3. \A i \in 1 .. n : f[i] = g[i]
    BY <2>1, <2>2, FlatteningsAgree
  <2> QED
    BY <2>3 DEF f, g
<1>7. FlattenSeq(r) = F(r)[n + 1]
  BY <1>1, <1>4
<1>8. F(r)[n + 1] = IF n + 1 = 1 THEN r[n + 1] ELSE F(r)[(n + 1) - 1] \o r[n + 1]
  <2>1. n + 1 \in 1 .. n + 1
    BY <1>4
  <2> QED
    BY <1>5, <2>1 DEF IsFlattening
<1>9. FlattenSeq(q) \in Seq(S)
  <2>1. CASE n = 0
    <3>1. q = <<>>
      BY <2>1, EmptySeq
    <3>2. <<>> \in Seq(S)
      OBVIOUS
    <3> QED
      BY <1>3, <3>1, <3>2, Zenon
  <2>2. CASE n # 0
    <3>1. PICK f : /\ IsFlattening(f, q, n)
                   /\ \A i \in 1 .. n : f[i] \in Seq(S)
      BY FlatteningExists
    <3>2. F(q)[n] = f[n] /\ n \in 1 .. n
      BY <1>4, <1>5, <2>2, <3>1, FlatteningsAgree
    <3> QED
      BY <1>1, <2>2, <3>1, <3>2
  <2> QED
    BY <2>1, <2>2
<1>10. FlattenSeq(r) = FlattenSeq(q) \o x
  <2>1. CASE n = 0
    <3>1. q = <<>> /\ <<>> \o x = x
      BY <2>1, EmptySeq, ConcatEmptySeq
    <3>2. FlattenSeq(r) = x
      BY <1>4, <1>7, <1>8, <2>1
    <3> QED
      BY <1>3, <3>1, <3>2
  <2>2. CASE n # 0
    <3>1. n \in 1 .. n /\ n + 1 # 1 /\ (n + 1) - 1 = n
      BY <1>4, <2>2
    <3>2. FlattenSeq(q) = F(q)[n]
      BY <1>1, <2>2
    <3> QED
      BY <1>4, <1>6, <1>7, <1>8, <3>1, <3>2
  <2> QED
    BY <2>1, <2>2
<1> QED
  BY <1>3, <1>9, <1>10 DEF r

-----------------------------------------------------------------------------
(* lex_sql. *)

\* The states of lex_sql.
RawTokens == [type : TokenTypes, text : Seq(Pieces)]

Lexers == [mode : {"between", "string", "quote", "error"},
           buffer : Seq(Pieces), tokens : Seq(RawTokens)]

\* Where lex_sql is at the end of a text.
Lexed(text) == Run(LexPiece, LexStart, text)

\* push_token adds a token.
LEMMA PushTypes ==
  ASSUME NEW lexer \in Lexers, NEW type \in TokenTypes, NEW text \in Seq(Pieces)
  PROVE  /\ Push(lexer, type, text) \in Lexers
         /\ Push(lexer, type, text).mode = "between"
<1>1. Token(type, text) \in RawTokens
  BY DEF Token, RawTokens
<1>2. lexer.tokens \in Seq(RawTokens)
  BY DEF Lexers
<1>3. Append(lexer.tokens, Token(type, text)) \in Seq(RawTokens) /\ <<>> \in Seq(Pieces)
  BY <1>1, <1>2
<1> QED
  BY <1>3 DEF Push, Lexers

\* Between two tokens lex_sql goes on from a state of its own.
LEMMA BetweenTypes ==
  ASSUME NEW lexer \in Lexers, NEW piece \in Pieces
  PROVE  Between(lexer, piece) \in Lexers
<1>1. <<piece>> \in Seq(Pieces)
  OBVIOUS
<1>2. /\ Push(lexer, "number", <<piece>>) \in Lexers
      /\ Push(lexer, "identifier", <<piece>>) \in Lexers
      /\ piece \in Symbols => Push(lexer, piece, <<piece>>) \in Lexers
  BY <1>1, PushTypes DEF TokenTypes
<1>3. \A m \in {"string", "error"} : [lexer EXCEPT !.mode = m] \in Lexers
  BY DEF Lexers
<1> QED
  BY <1>2, <1>3 DEF Between

\* Every step of lex_sql leads to a state of its own.
LEMMA LexTypes ==
  /\ LexStart \in Lexers
  /\ \A lexer \in Lexers, piece \in Pieces : LexPiece(lexer, piece) \in Lexers
<1>1. LexStart \in Lexers
  BY DEF LexStart, Lexers
<1>2. ASSUME NEW lexer \in Lexers, NEW piece \in Pieces
      PROVE  LexPiece(lexer, piece) \in Lexers
  <2>1. Quote \in Pieces
    BY DEF Pieces
  <2>2. \A p \in Pieces : Collect(lexer, p) \in Lexers
    <3>1. \A p \in Pieces : Append(lexer.buffer, p) \in Seq(Pieces)
      BY DEF Lexers
    <3> QED
      BY <3>1 DEF Collect, Lexers
  <2>3. Between(lexer, piece) \in Lexers
    BY BetweenTypes
  <2>4. lexer.buffer \in Seq(Pieces) /\ "string" \in TokenTypes
    BY DEF Lexers, TokenTypes
  <2>5. Between(Push(lexer, "string", lexer.buffer), piece) \in Lexers
    BY <2>4, PushTypes, BetweenTypes
  <2>6. [lexer EXCEPT !.mode = "quote"] \in Lexers
    BY DEF Lexers
  <2>7. lexer.mode \in {"between", "string", "quote", "error"}
    BY DEF Lexers
  <2>8. PastQuote(lexer, piece) \in Lexers
    BY <2>1, <2>2, <2>5 DEF PastQuote
  <2> QED
    BY <2>2, <2>3, <2>6, <2>7, <2>8 DEF LexPiece
<1> QED
  BY <1>1, <1>2

\* f[i]: what lex_sql has made of the first i pieces.
IsLexing(f, text) ==
  f = [i \in 0 .. Len(text) |-> IF i = 0 THEN LexStart ELSE LexPiece(f[i - 1], text[i])]

\* There is such a record of the loop.
LEMMA LexingExists ==
  ASSUME NEW text \in Seq(Pieces)
  PROVE  \E f \in [0 .. Len(text) -> Lexers] : IsLexing(f, text)
<1> DEFINE n == Len(text)
           step == [x \in (1 .. n) \X Lexers |-> LexPiece(x[2], text[x[1]])]
<1>1. n \in Nat /\ \A i \in 1 .. n : text[i] \in Pieces
  OBVIOUS
<1> HIDE DEF n
<1>2. ASSUME NEW i \in 1 .. n, NEW q \in Lexers
      PROVE  LexPiece(q, text[i]) \in Lexers /\ step[<<i, q>>] = LexPiece(q, text[i])
  <2>1. <<i, q>> \in (1 .. n) \X Lexers /\ <<i, q>>[1] = i /\ <<i, q>>[2] = q
    OBVIOUS
  <2> QED
    BY <1>1, <2>1, LexTypes
<1>3. step \in [(1 .. n) \X Lexers -> Lexers]
  <2>1. \A x \in (1 .. n) \X Lexers : x[1] \in 1 .. n /\ x[2] \in Lexers
    OBVIOUS
  <2>2. \A x \in (1 .. n) \X Lexers : LexPiece(x[2], text[x[1]]) \in Lexers
    BY <1>2, <2>1
  <2> QED
    BY <2>2
<1> HIDE DEF step
<1>4. PICK f \in [0 .. n -> Lexers] : IsLoop(f, n, LexStart, step)
  BY <1>1, <1>3, LexTypes, LoopExists
<1>5. \A i \in 1 .. n : f[i - 1] \in Lexers
  BY <1>1, <1>4
<1>6. f[0] = LexStart /\ \A i \in 1 .. n : f[i] = LexPiece(f[i - 1], text[i])
  BY <1>2, <1>4, <1>5 DEF IsLoop
<1>7. ASSUME NEW i \in 0 .. n
      PROVE  f[i] = IF i = 0 THEN LexStart ELSE LexPiece(f[i - 1], text[i])
  <2>1. i = 0 \/ (i \in 1 .. n /\ i # 0)
    BY <1>1
  <2> QED
    BY <1>6, <2>1, Zenon
<1>8. f = [i \in 0 .. n |-> f[i]]
  BY <1>4
<1>9. IsLexing(f, text)
  BY <1>7, <1>8, Zenon DEF IsLexing, n
<1> QED
  BY <1>4, <1>9 DEF n

\* Two records agree as far as the pieces do.
LEMMA LexingsAgree ==
  ASSUME NEW s \in Seq(Pieces), NEW t \in Seq(Pieces), NEW f, NEW g,
         Len(s) <= Len(t), \A i \in 1 .. Len(s) : s[i] = t[i],
         IsLexing(f, s), IsLexing(g, t)
  PROVE  f[Len(s)] = g[Len(s)]
<1> DEFINE n == Len(s)
           m == Len(t)
           T == {i \in 0 .. n : f[i] = g[i]}
<1>0. /\ n \in Nat /\ m \in Nat /\ n <= m
      /\ \A i \in 0 .. n : f[i] = IF i = 0 THEN LexStart ELSE LexPiece(f[i - 1], s[i])
      /\ \A i \in 0 .. m : g[i] = IF i = 0 THEN LexStart ELSE LexPiece(g[i - 1], t[i])
  <2>1. n \in Nat /\ m \in Nat /\ n <= m
    OBVIOUS
  <2> QED
    BY <2>1, Zenon DEF IsLexing
<1> HIDE DEF n, m
<1>1. 0 \in T
  BY <1>0
<1>2. ASSUME NEW i \in 1 .. n, i - 1 \in T
      PROVE  i \in T
  <2>1. i \in 0 .. n /\ i \in 0 .. m /\ i # 0 /\ s[i] = t[i] /\ f[i - 1] = g[i - 1]
    BY <1>0, <1>2 DEF n
  <2>2. f[i] = LexPiece(f[i - 1], s[i]) /\ g[i] = LexPiece(g[i - 1], t[i])
    BY <1>0, <2>1, Zenon
  <2> QED
    BY <2>1, <2>2
<1>3. \A i \in 0 .. n : i \in T
  <2> HIDE DEF T
  <2> QED
    BY <1>0, <1>1, <1>2, InductionTo
<1>4. n \in T
  BY <1>0, <1>3
<1> QED
  BY <1>4 DEF n

\* lex_sql piece by piece.
LEMMA Lexeds ==
  ASSUME NEW text \in Seq(Pieces), NEW p \in Pieces
  PROVE  /\ Lexed(<<>>) = LexStart
         /\ Lexed(text) \in Lexers
         /\ Lexed(Append(text, p)) = LexPiece(Lexed(text), p)
<1> DEFINE F(t) == CHOOSE f : IsLexing(f, t)
<1>1. \A t : Lexed(t) = F(t)[Len(t)]
  BY DEF Lexed, Run, IsLexing
<1>2. \A t \in Seq(Pieces) : IsLexing(F(t), t)
  <2> SUFFICES ASSUME NEW t \in Seq(Pieces)
               PROVE  IsLexing(F(t), t)
    OBVIOUS
  <2>1. \E f : IsLexing(f, t)
    BY LexingExists
  <2> QED
    BY <2>1
<1> HIDE DEF F
<1> DEFINE e == <<>>
           r == Append(text, p)
           n == Len(text)
           fe == F(e)
           ft == F(text)
           fr == F(r)
<1>3. /\ e \in Seq(Pieces) /\ r \in Seq(Pieces) /\ Len(e) = 0 /\ n \in Nat
      /\ Len(r) = n + 1 /\ r[n + 1] = p
      /\ n <= Len(r) /\ \A i \in 1 .. n : text[i] = r[i]
  OBVIOUS
<1>4. IsLexing(fe, e) /\ IsLexing(ft, text) /\ IsLexing(fr, r)
  BY <1>2, <1>3
<1>5. Lexed(e) = fe[0] /\ Lexed(text) = ft[n] /\ Lexed(r) = fr[n + 1]
  BY <1>1, <1>3
<1> HIDE DEF e, r, n, fe, ft, fr
<1>6. fe[0] = LexStart
  BY <1>3, <1>4 DEF IsLexing
<1>7. ft[n] \in Lexers
  <2>1. PICK f \in [0 .. Len(text) -> Lexers] : IsLexing(f, text)
    BY LexingExists
  <2>2. Len(text) <= Len(text) /\ Len(text) \in 0 .. Len(text)
    BY <1>3 DEF n
  <2>3. ft[Len(text)] = f[Len(text)]
    BY <1>4, <2>1, <2>2, LexingsAgree
  <2>4. f[Len(text)] \in Lexers
    BY <2>1, <2>2
  <2> QED
    BY <2>3, <2>4 DEF n
<1>8. ft[n] = fr[n]
  BY <1>3, <1>4, LexingsAgree DEF n
<1>9. fr[n + 1] = LexPiece(fr[n], p)
  <2>1. n + 1 \in 0 .. n + 1 /\ n + 1 # 0 /\ (n + 1) - 1 = n
    BY <1>3
  <2>2. fr[n + 1] = IF n + 1 = 0 THEN LexStart ELSE LexPiece(fr[(n + 1) - 1], r[n + 1])
    BY <1>3, <1>4, <2>1, Zenon DEF IsLexing
  <2> QED
    BY <1>3, <2>1, <2>2, Zenon
<1> QED
  BY <1>5, <1>6, <1>7, <1>8, <1>9 DEF e, r

-----------------------------------------------------------------------------
(* Parts of a text. *)

\* The first and the last of a set of positions.
LEMMA FirstAndLast ==
  ASSUME NEW n \in Nat, NEW I \in SUBSET (1 .. n), I # {}
  PROVE  /\ Min(I) \in I /\ \A i \in I : Min(I) <= i
         /\ Max(I) \in I /\ \A i \in I : i <= Max(I)
<1>1. I \in SUBSET Nat
  OBVIOUS
<1>2. \E x \in I : \A y \in I : x <= y
  BY <1>1, LeastNumber
<1>3. Min(I) \in I /\ \A i \in I : Min(I) <= i
  BY <1>2 DEF Min
<1>4. \E x \in I : \A y \in I : x >= y
  <2> DEFINE J == {j \in 0 .. n : n - j \in I}
  <2>1. J \in SUBSET Nat
    OBVIOUS
  <2>2. \A i \in I : n - i \in J
    OBVIOUS
  <2>3. J # {}
    BY <2>2
  <2>4. \A j \in J : n - j \in I
    OBVIOUS
  <2> HIDE DEF J
  <2>5. PICK j \in J : \A y \in J : j <= y
    BY <2>1, <2>3, LeastNumber
  <2>6. \A i \in I : n - j >= i
    BY <2>1, <2>2, <2>5
  <2> QED
    BY <2>4, <2>5, <2>6
<1>5. Max(I) \in I /\ \A i \in I : i <= Max(I)
  <2>1. Max(I) \in I /\ \A i \in I : Max(I) >= i
    BY <1>4 DEF Max
  <2> QED
    BY <2>1
<1> QED
  BY <1>3, <1>5

\* A part of a sequence; a part of a text is a text.
LEMMA PartTypes ==
  ASSUME NEW S, NEW s \in Seq(S), NEW m \in 1 .. Len(s) + 1, NEW n \in 0 .. Len(s)
  PROVE  /\ SubSeq(s, m, n) \in Seq(S)
         /\ IsText(s) => IsText(SubSeq(s, m, n))
<1> DEFINE q == SubSeq(s, m, n)
<1>1. Len(s) \in Nat /\ m \in Int /\ n \in Int
  OBVIOUS
<1>2. /\ q \in Seq(S) /\ Len(q) = (IF m <= n THEN n - m + 1 ELSE 0)
      /\ \A i \in 1 .. n - m + 1 : q[i] = s[m + i - 1]
  <2>1. \A i \in m .. n : s[i] \in S
    BY <1>1
  <2> QED
    BY <1>1, <2>1, SubSeqProperties
<1> HIDE DEF q
<1>3. ASSUME IsText(s)
      PROVE  IsText(q)
  <2>1. \A i \in 1 .. Len(s) - 1 : ~(s[i] \in Words /\ s[i + 1] \in Words)
    BY <1>3 DEF IsText
  <2>2. s \in Seq(Pieces)
    BY <1>3 DEF IsText
  <2>3. q \in Seq(Pieces)
    <3>1. \A i \in m .. n : s[i] \in Pieces
      BY <1>1, <2>2
    <3> QED
      BY <1>1, <3>1, SubSeqProperties DEF q
  <2>4. ASSUME NEW i \in 1 .. Len(q) - 1
        PROVE  ~(q[i] \in Words /\ q[i + 1] \in Words)
    <3>1. /\ q[i] = s[m + i - 1] /\ q[i + 1] = s[(m + i - 1) + 1]
          /\ m + i - 1 \in 1 .. Len(s) - 1
      <4>1. i \in 1 .. n - m + 1 /\ i + 1 \in 1 .. n - m + 1 /\ m <= n
        BY <1>1, <1>2
      <4>2. m + (i + 1) - 1 = (m + i - 1) + 1 /\ m + i - 1 \in 1 .. Len(s) - 1
        BY <1>1, <4>1
      <4>3. q[i] = s[m + i - 1] /\ q[i + 1] = s[m + (i + 1) - 1]
        BY <1>2, <4>1
      <4> QED
        BY <4>2, <4>3
    <3> QED
      BY <2>1, <3>1
  <2> QED
    BY <2>3, <2>4 DEF IsText
<1> QED
  BY <1>2, <1>3 DEF q

\* trim_whitespace returns a part of the text.
LEMMA TrimTypes ==
  ASSUME NEW S, NEW s \in Seq(S)
  PROVE  /\ Trim(s) \in Seq(S)
         /\ IsText(s) => IsText(Trim(s))
<1> DEFINE I == {i \in 1 .. Len(s) : s[i] \notin Spaces}
<1>1. Len(s) \in Nat /\ DOMAIN s = 1 .. Len(s)
  OBVIOUS
<1>2. CASE AllIn(s, Spaces)
  <2>1. Trim(s) = <<>>
    BY <1>2 DEF Trim
  <2>2. <<>> \in Seq(S) /\ IsText(<<>>)
    BY DEF IsText
  <2> QED
    BY <2>1, <2>2, Zenon
<1>3. CASE ~AllIn(s, Spaces)
  <2>1. I # {} /\ I \in SUBSET (1 .. Len(s))
    BY <1>1, <1>3 DEF AllIn
  <2>2. Trim(s) = SubSeq(s, Min(I), Max(I))
    BY <1>3, <2>1 DEF Trim, SelectInSeq, SelectLastInSeq
  <2> HIDE DEF I
  <2>3. Min(I) \in I /\ Max(I) \in I
    BY <1>1, <2>1, FirstAndLast
  <2> DEFINE first == Min(I)
             last == Max(I)
  <2>4. first \in 1 .. Len(s) + 1 /\ last \in 0 .. Len(s)
    <3>1. first \in I /\ last \in I
      BY <2>3
    <3> HIDE DEF first, last
    <3> QED
      BY <1>1, <2>1, <3>1
  <2> QED
    BY <2>2, <2>4, PartTypes
<1> QED
  BY <1>2, <1>3

-----------------------------------------------------------------------------
(* csv_parse_line. *)

\* The states of csv_parse_line.
Readers == [mode : {"start", "plain", "quoted", "quote", "closed", "error"},
            buffer : Seq(Pieces), fields : Seq(Seq(Pieces))]

\* Where csv_parse_line is at the end of a line.
ReadLine(line) == Run(ReadPiece, FieldStart, line)

\* Every step of csv_parse_line leads to a state of its own.
LEMMA ReadTypes ==
  /\ FieldStart \in Readers
  /\ \A reader \in Readers, piece \in Pieces : ReadPiece(reader, piece) \in Readers
<1>1. FieldStart \in Readers
  BY DEF FieldStart, Readers
<1>2. ASSUME NEW reader \in Readers, NEW piece \in Pieces
      PROVE  ReadPiece(reader, piece) \in Readers
  <2>1. /\ reader.buffer \in Seq(Pieces) /\ reader.fields \in Seq(Seq(Pieces))
        /\ reader.mode \in {"start", "plain", "quoted", "quote", "closed", "error"}
    BY DEF Readers
  <2>2. \A field \in Seq(Pieces) : EndField(reader, field) \in Readers
    <3>1. \A field \in Seq(Pieces) : Append(reader.fields, field) \in Seq(Seq(Pieces))
      BY <2>1, AppendProperties
    <3>2. <<>> \in Seq(Pieces)
      OBVIOUS
    <3> QED
      BY <3>1, <3>2 DEF EndField, Readers
  <2>3. \A mode \in {"plain", "quoted", "closed"} : Take(reader, mode, piece) \in Readers
    <3>1. Append(reader.buffer, piece) \in Seq(Pieces)
      BY <2>1
    <3> QED
      BY <3>1 DEF Take, Readers
  <2>4. \A mode \in {"quoted", "quote", "error"} : [reader EXCEPT !.mode = mode] \in Readers
    BY DEF Readers
  <2>5. Trim(reader.buffer) \in Seq(Pieces)
    BY <2>1, TrimTypes
  <2>6. PastClose(reader, piece) \in Readers
    BY <2>1, <2>2, <2>3, <2>4 DEF PastClose
  <2> QED
    BY <2>1, <2>2, <2>3, <2>4, <2>5, <2>6 DEF ReadPiece
<1> QED
  BY <1>1, <1>2

\* f[i]: what csv_parse_line has made of the first i pieces.
IsReading(f, text) ==
  f = [i \in 0 .. Len(text) |-> IF i = 0 THEN FieldStart ELSE ReadPiece(f[i - 1], text[i])]

\* There is such a record of the loop.
LEMMA ReadingExists ==
  ASSUME NEW text \in Seq(Pieces)
  PROVE  \E f \in [0 .. Len(text) -> Readers] : IsReading(f, text)
<1> DEFINE n == Len(text)
           step == [x \in (1 .. n) \X Readers |-> ReadPiece(x[2], text[x[1]])]
<1>1. n \in Nat /\ \A i \in 1 .. n : text[i] \in Pieces
  OBVIOUS
<1> HIDE DEF n
<1>2. ASSUME NEW i \in 1 .. n, NEW q \in Readers
      PROVE  ReadPiece(q, text[i]) \in Readers /\ step[<<i, q>>] = ReadPiece(q, text[i])
  <2>1. <<i, q>> \in (1 .. n) \X Readers /\ <<i, q>>[1] = i /\ <<i, q>>[2] = q
    OBVIOUS
  <2> QED
    BY <1>1, <2>1, ReadTypes
<1>3. step \in [(1 .. n) \X Readers -> Readers]
  <2>1. \A x \in (1 .. n) \X Readers : x[1] \in 1 .. n /\ x[2] \in Readers
    OBVIOUS
  <2>2. \A x \in (1 .. n) \X Readers : ReadPiece(x[2], text[x[1]]) \in Readers
    BY <1>2, <2>1
  <2> QED
    BY <2>2
<1> HIDE DEF step
<1>4. PICK f \in [0 .. n -> Readers] : IsLoop(f, n, FieldStart, step)
  BY <1>1, <1>3, ReadTypes, LoopExists
<1>5. \A i \in 1 .. n : f[i - 1] \in Readers
  BY <1>1, <1>4
<1>6. f[0] = FieldStart /\ \A i \in 1 .. n : f[i] = ReadPiece(f[i - 1], text[i])
  BY <1>2, <1>4, <1>5 DEF IsLoop
<1>7. ASSUME NEW i \in 0 .. n
      PROVE  f[i] = IF i = 0 THEN FieldStart ELSE ReadPiece(f[i - 1], text[i])
  <2>1. i = 0 \/ (i \in 1 .. n /\ i # 0)
    BY <1>1
  <2> QED
    BY <1>6, <2>1, Zenon
<1>8. f = [i \in 0 .. n |-> f[i]]
  BY <1>4
<1>9. IsReading(f, text)
  BY <1>7, <1>8, Zenon DEF IsReading, n
<1> QED
  BY <1>4, <1>9 DEF n

\* Two records agree as far as the pieces do.
LEMMA ReadingsAgree ==
  ASSUME NEW s \in Seq(Pieces), NEW t \in Seq(Pieces), NEW f, NEW g,
         Len(s) <= Len(t), \A i \in 1 .. Len(s) : s[i] = t[i],
         IsReading(f, s), IsReading(g, t)
  PROVE  f[Len(s)] = g[Len(s)]
<1> DEFINE n == Len(s)
           m == Len(t)
           T == {i \in 0 .. n : f[i] = g[i]}
<1>0. /\ n \in Nat /\ m \in Nat /\ n <= m
      /\ \A i \in 0 .. n : f[i] = IF i = 0 THEN FieldStart ELSE ReadPiece(f[i - 1], s[i])
      /\ \A i \in 0 .. m : g[i] = IF i = 0 THEN FieldStart ELSE ReadPiece(g[i - 1], t[i])
  <2>1. n \in Nat /\ m \in Nat /\ n <= m
    OBVIOUS
  <2> QED
    BY <2>1, Zenon DEF IsReading
<1> HIDE DEF n, m
<1>1. 0 \in T
  BY <1>0
<1>2. ASSUME NEW i \in 1 .. n, i - 1 \in T
      PROVE  i \in T
  <2>1. i \in 0 .. n /\ i \in 0 .. m /\ i # 0 /\ s[i] = t[i] /\ f[i - 1] = g[i - 1]
    BY <1>0, <1>2 DEF n
  <2>2. f[i] = ReadPiece(f[i - 1], s[i]) /\ g[i] = ReadPiece(g[i - 1], t[i])
    BY <1>0, <2>1, Zenon
  <2> QED
    BY <2>1, <2>2
<1>3. \A i \in 0 .. n : i \in T
  <2> HIDE DEF T
  <2> QED
    BY <1>0, <1>1, <1>2, InductionTo
<1>4. n \in T
  BY <1>0, <1>3
<1> QED
  BY <1>4 DEF n

\* csv_parse_line piece by piece.
LEMMA ReadLines ==
  ASSUME NEW text \in Seq(Pieces), NEW p \in Pieces
  PROVE  /\ ReadLine(<<>>) = FieldStart
         /\ ReadLine(text) \in Readers
         /\ ReadLine(Append(text, p)) = ReadPiece(ReadLine(text), p)
<1> DEFINE F(t) == CHOOSE f : IsReading(f, t)
<1>1. \A t : ReadLine(t) = F(t)[Len(t)]
  BY DEF ReadLine, Run, IsReading
<1>2. \A t \in Seq(Pieces) : IsReading(F(t), t)
  <2> SUFFICES ASSUME NEW t \in Seq(Pieces)
               PROVE  IsReading(F(t), t)
    OBVIOUS
  <2>1. \E f : IsReading(f, t)
    BY ReadingExists
  <2> QED
    BY <2>1
<1> HIDE DEF F
<1> DEFINE e == <<>>
           r == Append(text, p)
           n == Len(text)
           fe == F(e)
           ft == F(text)
           fr == F(r)
<1>3. /\ e \in Seq(Pieces) /\ r \in Seq(Pieces) /\ Len(e) = 0 /\ n \in Nat
      /\ Len(r) = n + 1 /\ r[n + 1] = p
      /\ n <= Len(r) /\ \A i \in 1 .. n : text[i] = r[i]
  OBVIOUS
<1>4. IsReading(fe, e) /\ IsReading(ft, text) /\ IsReading(fr, r)
  BY <1>2, <1>3
<1>5. ReadLine(e) = fe[0] /\ ReadLine(text) = ft[n] /\ ReadLine(r) = fr[n + 1]
  BY <1>1, <1>3
<1> HIDE DEF e, r, n, fe, ft, fr
<1>6. fe[0] = FieldStart
  BY <1>3, <1>4 DEF IsReading
<1>7. ft[n] \in Readers
  <2>1. PICK f \in [0 .. Len(text) -> Readers] : IsReading(f, text)
    BY ReadingExists
  <2>2. Len(text) <= Len(text) /\ Len(text) \in 0 .. Len(text)
    BY <1>3 DEF n
  <2>3. ft[Len(text)] = f[Len(text)]
    BY <1>4, <2>1, <2>2, ReadingsAgree
  <2>4. f[Len(text)] \in Readers
    BY <2>1, <2>2
  <2> QED
    BY <2>3, <2>4 DEF n
<1>8. ft[n] = fr[n]
  BY <1>3, <1>4, ReadingsAgree DEF n
<1>9. fr[n + 1] = ReadPiece(fr[n], p)
  <2>1. n + 1 \in 0 .. n + 1 /\ n + 1 # 0 /\ (n + 1) - 1 = n
    BY <1>3
  <2>2. fr[n + 1] = IF n + 1 = 0 THEN FieldStart ELSE ReadPiece(fr[(n + 1) - 1], r[n + 1])
    BY <1>3, <1>4, <2>1, Zenon DEF IsReading
  <2> QED
    BY <1>3, <2>1, <2>2, Zenon
<1> QED
  BY <1>5, <1>6, <1>7, <1>8, <1>9 DEF e, r

\* A line that parses has at least one field.
LEMMA ParseLineTypes ==
  ASSUME NEW line \in Seq(Pieces)
  PROVE  /\ ParseLine(line).ok \in BOOLEAN
         /\ ParseLine(line).fields \in Seq(Seq(Pieces))
         /\ ParseLine(line).ok => ParseLine(line).fields # <<>>
<1> DEFINE reader == ReadLine(line)
<1>1. reader \in Readers
  <2>1. Blank \in Pieces
    BY DEF Pieces, Spaces
  <2> QED
    BY <2>1, ReadLines
<1>2. ParseLine(line) =
        CASE reader.mode \in {"error", "quoted"} -> [ok |-> FALSE, fields |-> <<>>]
          [] reader.mode \in {"quote", "closed"} ->
               [ok |-> TRUE, fields |-> Append(reader.fields, reader.buffer)]
          [] reader.mode \in {"start", "plain"} ->
               [ok |-> TRUE, fields |-> Append(reader.fields, Trim(reader.buffer))]
  BY DEF ParseLine, ReadLine
<1> HIDE DEF reader
<1>3. /\ reader.buffer \in Seq(Pieces) /\ reader.fields \in Seq(Seq(Pieces))
      /\ reader.mode \in {"start", "plain", "quoted", "quote", "closed", "error"}
  BY <1>1 DEF Readers
<1>4. Trim(reader.buffer) \in Seq(Pieces)
  BY <1>3, TrimTypes
<1>5. \A f \in Seq(Pieces) : /\ Append(reader.fields, f) \in Seq(Seq(Pieces))
                             /\ Append(reader.fields, f) # <<>>
  BY <1>3, AppendProperties
<1>6. <<>> \in Seq(Seq(Pieces))
  OBVIOUS
<1>7. CASE reader.mode \in {"error", "quoted"}
  <2>1. ParseLine(line) = [ok |-> FALSE, fields |-> <<>>]
    BY <1>2, <1>7
  <2> QED
    BY <1>6, <2>1
<1>8. CASE reader.mode \in {"quote", "closed"}
  <2>1. ParseLine(line) = [ok |-> TRUE, fields |-> Append(reader.fields, reader.buffer)]
    BY <1>2, <1>8
  <2> QED
    BY <1>3, <1>5, <2>1
<1>9. CASE reader.mode \in {"start", "plain"}
  <2>1. ParseLine(line) = [ok |-> TRUE,
                           fields |-> Append(reader.fields, Trim(reader.buffer))]
    BY <1>2, <1>9
  <2> QED
    <3>1. /\ Append(reader.fields, Trim(reader.buffer)) \in Seq(Seq(Pieces))
          /\ Append(reader.fields, Trim(reader.buffer)) # <<>>
      BY <1>4, <1>5, Zenon
    <3> QED
      BY <2>1, <3>1
<1> QED
  BY <1>3, <1>7, <1>8, <1>9

-----------------------------------------------------------------------------
(* parse_statement. *)

\* What the tokens of a text and a statement are made of.
AllTexts == {t \in Seq(Pieces) : IsText(t)}

Tokens == [type : TokenTypes, text : AllTexts]

Statements ==
  [kind : {"none", "insert", "select"}, all : BOOLEAN, table : AllTexts,
   columns : Seq(AllTexts), values : Seq(AllTexts), hasWhere : BOOLEAN,
   whereColumn : AllTexts, whereValue : AllTexts]

\* The states of parse_statement.
Places == {r[3] : r \in Rules} \cup {"start", "unsupported", "error"}

Parsers == [at : Places, statement : Statements]

ParseStart == [at |-> "start", statement |-> NoStatement]

\* Where parse_statement is after the last token.
Parsed(tokens) == Run(ParseToken, ParseStart, tokens)

\* The fields of a statement that the rules name.
LEMMA RuleFields ==
  \A r \in Rules : r[4] \in {"insert", "select", "all", "table", "columns", "values",
                             "whereColumn", "whereValue", "none"}
<1>1. \A r \in InsertRules : r[4] \in {"insert", "table", "columns", "values", "none"}
  BY DEF InsertRules
<1>2. \A r \in SelectRules : r[4] \in {"select", "all", "table", "columns",
                                     "whereColumn", "whereValue", "none"}
  BY DEF SelectRules
<1>3. \A r \in EndRules : r[4] = "none"
  BY DEF EndRules
<1> QED
  BY <1>1, <1>2, <1>3 DEF Rules

\* A statement with one more token in it is a statement.
LEMMA StoreTypes ==
  ASSUME NEW statement \in Statements, NEW text \in AllTexts,
         NEW field \in {"insert", "select", "all", "table", "columns", "values",
                        "whereColumn", "whereValue", "none"}
  PROVE  Store(statement, field, text) \in Statements
<1>1. /\ Append(statement.columns, text) \in Seq(AllTexts)
      /\ Append(statement.values, text) \in Seq(AllTexts)
  BY DEF Statements
<1> QED
  BY <1>1 DEF Store, Statements

\* Every step of parse_statement leads to a state of its own.
LEMMA ParseTypes ==
  /\ ParseStart \in Parsers
  /\ \A parser \in Parsers, token \in Tokens : ParseToken(parser, token) \in Parsers
<1>1. NoStatement \in Statements
  <2>1. <<>> \in AllTexts
    BY DEF AllTexts, IsText
  <2> QED
    BY <2>1 DEF NoStatement, Statements
<1>2. ParseStart \in Parsers
  BY <1>1 DEF ParseStart, Parsers, Places
<1>3. ASSUME NEW parser \in Parsers, NEW token \in Tokens
      PROVE  ParseToken(parser, token) \in Parsers
  <2> DEFINE rules == {r \in Rules : r[1] = parser.at /\ Matches(token, r[2])}
             rule == CHOOSE r \in rules : TRUE
  <2>1. ParseToken(parser, token) =
          IF parser.at \in {"unsupported", "error", "done"} THEN parser
          ELSE IF rules = {}
          THEN [at |-> Failure(parser.at, token), statement |-> NoStatement]
          ELSE [at |-> rule[3],
                statement |-> Store(parser.statement, rule[4], token.text)]
    BY DEF ParseToken
  <2>2. rules # {} => rule \in Rules
    OBVIOUS
  <2> HIDE DEF rules, rule
  <2>3. rules # {} => rule[3] \in Places
    BY <2>2 DEF Places
  <2>4. Failure(parser.at, token) \in Places
    BY DEF Failure, Places
  <2>5. rules # {} => Store(parser.statement, rule[4], token.text) \in Statements
    BY <2>2, RuleFields, StoreTypes DEF Parsers, Tokens
  <2> QED
    BY <1>1, <2>1, <2>3, <2>4, <2>5 DEF Parsers
<1> QED
  BY <1>2, <1>3

\* f[i]: what parse_statement has made of the first i tokens.
IsParsing(f, text) ==
  f = [i \in 0 .. Len(text) |-> IF i = 0 THEN ParseStart ELSE ParseToken(f[i - 1], text[i])]

\* There is such a record of the loop.
LEMMA ParsingExists ==
  ASSUME NEW text \in Seq(Tokens)
  PROVE  \E f \in [0 .. Len(text) -> Parsers] : IsParsing(f, text)
<1> DEFINE n == Len(text)
           step == [x \in (1 .. n) \X Parsers |-> ParseToken(x[2], text[x[1]])]
<1>1. n \in Nat /\ \A i \in 1 .. n : text[i] \in Tokens
  OBVIOUS
<1> HIDE DEF n
<1>2. ASSUME NEW i \in 1 .. n, NEW q \in Parsers
      PROVE  ParseToken(q, text[i]) \in Parsers /\ step[<<i, q>>] = ParseToken(q, text[i])
  <2>1. <<i, q>> \in (1 .. n) \X Parsers /\ <<i, q>>[1] = i /\ <<i, q>>[2] = q
    OBVIOUS
  <2> QED
    BY <1>1, <2>1, ParseTypes
<1>3. step \in [(1 .. n) \X Parsers -> Parsers]
  <2>1. \A x \in (1 .. n) \X Parsers : x[1] \in 1 .. n /\ x[2] \in Parsers
    OBVIOUS
  <2>2. \A x \in (1 .. n) \X Parsers : ParseToken(x[2], text[x[1]]) \in Parsers
    BY <1>2, <2>1
  <2> QED
    BY <2>2
<1> HIDE DEF step
<1>4. PICK f \in [0 .. n -> Parsers] : IsLoop(f, n, ParseStart, step)
  BY <1>1, <1>3, ParseTypes, LoopExists
<1>5. \A i \in 1 .. n : f[i - 1] \in Parsers
  BY <1>1, <1>4
<1>6. f[0] = ParseStart /\ \A i \in 1 .. n : f[i] = ParseToken(f[i - 1], text[i])
  BY <1>2, <1>4, <1>5 DEF IsLoop
<1>7. ASSUME NEW i \in 0 .. n
      PROVE  f[i] = IF i = 0 THEN ParseStart ELSE ParseToken(f[i - 1], text[i])
  <2>1. i = 0 \/ (i \in 1 .. n /\ i # 0)
    BY <1>1
  <2> QED
    BY <1>6, <2>1, Zenon
<1>8. f = [i \in 0 .. n |-> f[i]]
  BY <1>4
<1>9. IsParsing(f, text)
  BY <1>7, <1>8, Zenon DEF IsParsing, n
<1> QED
  BY <1>4, <1>9 DEF n

\* Two records agree as far as the tokens do.
LEMMA ParsingsAgree ==
  ASSUME NEW s \in Seq(Tokens), NEW t \in Seq(Tokens), NEW f, NEW g,
         Len(s) <= Len(t), \A i \in 1 .. Len(s) : s[i] = t[i],
         IsParsing(f, s), IsParsing(g, t)
  PROVE  f[Len(s)] = g[Len(s)]
<1> DEFINE n == Len(s)
           m == Len(t)
           T == {i \in 0 .. n : f[i] = g[i]}
<1>0. /\ n \in Nat /\ m \in Nat /\ n <= m
      /\ \A i \in 0 .. n : f[i] = IF i = 0 THEN ParseStart ELSE ParseToken(f[i - 1], s[i])
      /\ \A i \in 0 .. m : g[i] = IF i = 0 THEN ParseStart ELSE ParseToken(g[i - 1], t[i])
  <2>1. n \in Nat /\ m \in Nat /\ n <= m
    OBVIOUS
  <2> QED
    BY <2>1, Zenon DEF IsParsing
<1> HIDE DEF n, m
<1>1. 0 \in T
  BY <1>0
<1>2. ASSUME NEW i \in 1 .. n, i - 1 \in T
      PROVE  i \in T
  <2>1. i \in 0 .. n /\ i \in 0 .. m /\ i # 0 /\ s[i] = t[i] /\ f[i - 1] = g[i - 1]
    BY <1>0, <1>2 DEF n
  <2>2. f[i] = ParseToken(f[i - 1], s[i]) /\ g[i] = ParseToken(g[i - 1], t[i])
    BY <1>0, <2>1, Zenon
  <2> QED
    BY <2>1, <2>2
<1>3. \A i \in 0 .. n : i \in T
  <2> HIDE DEF T
  <2> QED
    BY <1>0, <1>1, <1>2, InductionTo
<1>4. n \in T
  BY <1>0, <1>3
<1> QED
  BY <1>4 DEF n

\* parse_statement token by token.
LEMMA Parseds ==
  ASSUME NEW text \in Seq(Tokens), NEW p \in Tokens
  PROVE  /\ Parsed(<<>>) = ParseStart
         /\ Parsed(text) \in Parsers
         /\ Parsed(Append(text, p)) = ParseToken(Parsed(text), p)
<1> DEFINE F(t) == CHOOSE f : IsParsing(f, t)
<1>1. \A t : Parsed(t) = F(t)[Len(t)]
  BY DEF Parsed, Run, IsParsing
<1>2. \A t \in Seq(Tokens) : IsParsing(F(t), t)
  <2> SUFFICES ASSUME NEW t \in Seq(Tokens)
               PROVE  IsParsing(F(t), t)
    OBVIOUS
  <2>1. \E f : IsParsing(f, t)
    BY ParsingExists
  <2> QED
    BY <2>1
<1> HIDE DEF F
<1> DEFINE e == <<>>
           r == Append(text, p)
           n == Len(text)
           fe == F(e)
           ft == F(text)
           fr == F(r)
<1>3. /\ e \in Seq(Tokens) /\ r \in Seq(Tokens) /\ Len(e) = 0 /\ n \in Nat
      /\ Len(r) = n + 1 /\ r[n + 1] = p
      /\ n <= Len(r) /\ \A i \in 1 .. n : text[i] = r[i]
  OBVIOUS
<1>4. IsParsing(fe, e) /\ IsParsing(ft, text) /\ IsParsing(fr, r)
  BY <1>2, <1>3
<1>5. Parsed(e) = fe[0] /\ Parsed(text) = ft[n] /\ Parsed(r) = fr[n + 1]
  BY <1>1, <1>3
<1> HIDE DEF e, r, n, fe, ft, fr
<1>6. fe[0] = ParseStart
  BY <1>3, <1>4 DEF IsParsing
<1>7. ft[n] \in Parsers
  <2>1. PICK f \in [0 .. Len(text) -> Parsers] : IsParsing(f, text)
    BY ParsingExists
  <2>2. Len(text) <= Len(text) /\ Len(text) \in 0 .. Len(text)
    BY <1>3 DEF n
  <2>3. ft[Len(text)] = f[Len(text)]
    BY <1>4, <2>1, <2>2, ParsingsAgree
  <2>4. f[Len(text)] \in Parsers
    BY <2>1, <2>2
  <2> QED
    BY <2>3, <2>4 DEF n
<1>8. ft[n] = fr[n]
  BY <1>3, <1>4, ParsingsAgree DEF n
<1>9. fr[n + 1] = ParseToken(fr[n], p)
  <2>1. n + 1 \in 0 .. n + 1 /\ n + 1 # 0 /\ (n + 1) - 1 = n
    BY <1>3
  <2>2. fr[n + 1] = IF n + 1 = 0 THEN ParseStart ELSE ParseToken(fr[(n + 1) - 1], r[n + 1])
    BY <1>3, <1>4, <2>1, Zenon DEF IsParsing
  <2> QED
    BY <1>3, <2>1, <2>2, Zenon
<1> QED
  BY <1>5, <1>6, <1>7, <1>8, <1>9 DEF e, r

\* The punctuation marks are no other type of token, and no keyword.
LEMMA Marks ==
  /\ Comma # Semicolon
  /\ Comma # "identifier" /\ Comma # "string" /\ Comma # "number" /\ Comma # "end"
  /\ Comma # "(" /\ Comma # ")" /\ Comma # "=" /\ Comma # "*" /\ Comma # "value"
  /\ Semicolon # "identifier" /\ Semicolon # "string" /\ Semicolon # "number"
  /\ Semicolon # "end" /\ Semicolon # "(" /\ Semicolon # ")" /\ Semicolon # "="
  /\ Semicolon # "*" /\ Semicolon # "value"
  /\ Comma \notin Keywords /\ Semicolon \notin Keywords
<1>1. Comma # "INSERT" /\ Comma # "INTO" /\ Comma # "VALUES" /\ Comma # "SELECT"
      /\ Comma # "FROM" /\ Comma # "WHERE" /\ Comma # "AND" /\ Comma # "OR"
  BY Zenon DEF Comma
<1>2. Semicolon # "INSERT" /\ Semicolon # "INTO" /\ Semicolon # "VALUES"
      /\ Semicolon # "SELECT" /\ Semicolon # "FROM" /\ Semicolon # "WHERE"
      /\ Semicolon # "AND" /\ Semicolon # "OR"
  BY Zenon DEF Semicolon
<1>3. Comma \notin Keywords /\ Semicolon \notin Keywords
  BY <1>1, <1>2 DEF Keywords
<1>4. /\ Comma # Semicolon
      /\ Comma # "identifier" /\ Comma # "string" /\ Comma # "number" /\ Comma # "end"
      /\ Comma # "(" /\ Comma # ")" /\ Comma # "=" /\ Comma # "*" /\ Comma # "value"
  BY Zenon DEF Comma, Semicolon
<1>5. /\ Semicolon # "identifier" /\ Semicolon # "string" /\ Semicolon # "number"
      /\ Semicolon # "end" /\ Semicolon # "(" /\ Semicolon # ")" /\ Semicolon # "="
      /\ Semicolon # "*" /\ Semicolon # "value"
  BY Zenon DEF Semicolon
<1> QED
  BY <1>3, <1>4, <1>5

\* What a rule asks of a token.
LEMMA MatchesOn ==
  ASSUME NEW token
  PROVE  /\ \A on \in Keywords : Matches(token, on) <=> IsKeyword(token, on)
         /\ \A on \in {"identifier", "end", "(", ")", "=", "*", Comma, Semicolon} :
              Matches(token, on) <=> token.type = on
         /\ Matches(token, "value") <=> token.type \in ValueTypes
<1>1. \A on \in Keywords : on \notin TokenTypes /\ on # "value"
  BY Marks DEF Keywords, TokenTypes, Symbols
<1>2. \A on \in {"identifier", "end", "(", ")", "=", "*", Comma, Semicolon} :
        on \in TokenTypes /\ on # "value" /\ on \notin Keywords
  BY Marks DEF Keywords, TokenTypes, Symbols
<1>3. "value" \notin TokenTypes /\ "value" \notin Keywords
  BY Marks DEF Keywords, TokenTypes, Symbols
<1> QED
  BY <1>1, <1>2, <1>3 DEF Matches

\* No token matches two rules at the same place.
LEMMA RulesExclude ==
  ASSUME NEW token, NEW q \in Rules, NEW r \in Rules, q[1] = r[1],
         Matches(token, q[2]), Matches(token, r[2])
  PROVE  q = r
<1> DEFINE Two == {<<"start", "INSERT", "SELECT">>, <<"pastColumn", Comma, ")">>,
                   <<"pastValue", Comma, ")">>, <<"select", "*", "identifier">>,
                   <<"pastSelected", Comma, "FROM">>, <<"where", "WHERE", Semicolon>>}
<1>1. q # r => \E x \in Two : \/ q[2] = x[2] /\ r[2] = x[3]
                              \/ q[2] = x[3] /\ r[2] = x[2]
  BY SMTT(60) DEF Rules, InsertRules, SelectRules, EndRules
<1>2. \A x \in Two : ~(Matches(token, x[2]) /\ Matches(token, x[3]))
  <2>1. /\ ~(Matches(token, "INSERT") /\ Matches(token, "SELECT"))
        /\ ~(Matches(token, Comma) /\ Matches(token, "FROM"))
        /\ ~(Matches(token, "WHERE") /\ Matches(token, Semicolon))
        /\ ~(Matches(token, Comma) /\ Matches(token, ")"))
        /\ ~(Matches(token, "*") /\ Matches(token, "identifier"))
    BY MatchesOn, Marks DEF Keywords, IsKeyword
  <2> QED
    BY <2>1
<1> QED
  BY <1>1, <1>2

\* parse_statement follows the rule that its token matches, or fails.
LEMMA ParseSteps ==
  ASSUME NEW parser, NEW token, parser.at \notin {"unsupported", "error", "done"}
  PROVE  /\ \A r \in Rules : r[1] = parser.at /\ Matches(token, r[2]) =>
              ParseToken(parser, token) =
                [at |-> r[3], statement |-> Store(parser.statement, r[4], token.text)]
         /\ \/ ParseToken(parser, token).at \in {"unsupported", "error"}
            \/ \E r \in Rules : r[1] = parser.at /\ Matches(token, r[2])
<1> DEFINE rules == {r \in Rules : r[1] = parser.at /\ Matches(token, r[2])}
           rule == CHOOSE r \in rules : TRUE
<1>1. ParseToken(parser, token) =
        IF rules = {}
        THEN [at |-> Failure(parser.at, token), statement |-> NoStatement]
        ELSE [at |-> rule[3],
              statement |-> Store(parser.statement, rule[4], token.text)]
  BY DEF ParseToken
<1>2. rules # {} => rule \in rules
  OBVIOUS
<1>3. \A r \in Rules : r \in rules <=> r[1] = parser.at /\ Matches(token, r[2])
  OBVIOUS
<1>4. rules \subseteq Rules
  OBVIOUS
<1> HIDE DEF rules, rule
<1>5. \A q, r \in rules : q = r
  BY <1>3, <1>4, RulesExclude
<1>6. \A r \in rules : r = rule
  BY <1>2, <1>5
<1>7. Failure(parser.at, token) \in {"unsupported", "error"}
  BY DEF Failure
<1> QED
  BY <1>1, <1>3, <1>4, <1>6, <1>7

\* The texts of a list with one more entry.
LEMMA TextsNext ==
  ASSUME NEW t \in Seq(Tokens), NEW first \in Nat, NEW n \in Nat, first > 0,
         first + 2 * n <= Len(t)
  PROVE  /\ Texts(t, first, 0) = <<>>
         /\ Texts(t, first, n + 1) = Append(Texts(t, first, n), t[first + 2 * n].text)
<1> DEFINE a == Texts(t, first, n)
           b == Texts(t, first, n + 1)
           e == t[first + 2 * n].text
<1>1. \A i \in 1 .. n + 1 : t[first + 2 * (i - 1)].text \in AllTexts
  <2> SUFFICES ASSUME NEW i \in 1 .. n + 1
               PROVE  t[first + 2 * (i - 1)].text \in AllTexts
    OBVIOUS
  <2>1. first + 2 * (i - 1) \in 1 .. Len(t)
    OBVIOUS
  <2>2. t[first + 2 * (i - 1)] \in Tokens
    BY <2>1
  <2> QED
    BY <2>2 DEF Tokens
<1>2. a = [i \in 1 .. n |-> t[first + 2 * (i - 1)].text]
  BY DEF Texts
<1>3. b = [i \in 1 .. n + 1 |-> t[first + 2 * (i - 1)].text]
  BY DEF Texts
<1>4. first + 2 * ((n + 1) - 1) = first + 2 * n
  OBVIOUS
<1> HIDE DEF a, b
<1>5. a \in Seq(AllTexts) /\ Len(a) = n /\ b \in Seq(AllTexts) /\ Len(b) = n + 1
  BY <1>1, <1>2, <1>3
<1>6. e \in AllTexts /\ b[n + 1] = e
  <2>1. n + 1 \in 1 .. n + 1
    OBVIOUS
  <2>2. b[n + 1] = t[first + 2 * ((n + 1) - 1)].text
    BY <1>3, <2>1, Zenon
  <2>3. b[n + 1] = e
    BY <1>4, <2>2, Zenon
  <2> QED
    BY <1>5, <2>1, <2>3
<1> HIDE DEF e
<1>7. /\ Append(a, e) \in Seq(AllTexts) /\ Len(Append(a, e)) = n + 1
      /\ Append(a, e)[n + 1] = e /\ \A i \in 1 .. n : Append(a, e)[i] = a[i]
  BY <1>5, <1>6, AppendProperties
<1>8. \A i \in 1 .. n + 1 : b[i] = Append(a, e)[i]
  <2>1. \A i \in 1 .. n : b[i] = a[i]
    BY <1>2, <1>3
  <2> QED
    BY <1>6, <1>7, <2>1
<1>9. b = Append(a, e)
  BY <1>5, <1>7, <1>8, SeqEqual
<1>10. Texts(t, first, 0) = <<>>
  BY DEF Texts
<1> QED
  BY <1>9, <1>10 DEF a, b, e

\* A list with one more entry.
LEMMA ListNext ==
  ASSUME NEW t, NEW first \in Nat, NEW n \in Nat, NEW types
  PROVE  /\ ListAt(t, first, 0, types)
         /\ ListAt(t, first, n + 1, types) <=>
              /\ ListAt(t, first, n, types)
              /\ t[first + 2 * n].type \in types
              /\ n > 0 => t[first + 2 * n - 1].type = Comma
<1>1. ListAt(t, first, 0, types)
  BY DEF ListAt
<1>2. (n + 1) - 1 = n /\ n \in 0 .. n /\ \A i \in 0 .. n : i \in 0 .. n - 1 \/ i = n
  OBVIOUS
<1>3. /\ \A i \in 1 .. n : i \in 1 .. n - 1 \/ (i = n /\ n > 0)
      /\ n > 0 => n \in 1 .. n
      /\ \A i \in 1 .. n - 1 : i \in 1 .. n
      /\ \A i \in 0 .. n - 1 : i \in 0 .. n
  OBVIOUS
<1> QED
  BY <1>1, <1>2, <1>3 DEF ListAt

\* The statements that are being read, by what has been read of them.
InsertOf(table, columns, values) ==
  [NoStatement EXCEPT !.kind = "insert", !.table = table, !.columns = columns,
                      !.values = values]

SelectOf(all, columns, table, hasWhere, whereColumn, whereValue) ==
  [NoStatement EXCEPT !.kind = "select", !.all = all, !.columns = columns,
                      !.table = table, !.hasWhere = hasWhere,
                      !.whereColumn = whereColumn, !.whereValue = whereValue]

\* A token stored in an INSERT.
LEMMA StoreInsert ==
  ASSUME NEW a, NEW b, NEW c, NEW x
  PROVE  /\ Store(NoStatement, "insert", x) = InsertOf(<<>>, <<>>, <<>>)
         /\ Store(InsertOf(a, b, c), "table", x) = InsertOf(x, b, c)
         /\ Store(InsertOf(a, b, c), "columns", x) = InsertOf(a, Append(b, x), c)
         /\ Store(InsertOf(a, b, c), "values", x) = InsertOf(a, b, Append(c, x))
         /\ Store(InsertOf(a, b, c), "none", x) = InsertOf(a, b, c)
<1>1. Store(NoStatement, "insert", x) = InsertOf(<<>>, <<>>, <<>>)
  <2> DEFINE u == <<>>
  <2>1. NoStatement \in [kind : {"none"}, all : {FALSE}, table : {u}, columns : {u},
                         values : {u}, hasWhere : {FALSE}, whereColumn : {u},
                         whereValue : {u}]
    BY DEF NoStatement
  <2> HIDE DEF u
  <2>2. Store(NoStatement, "insert", x) = [NoStatement EXCEPT !.kind = "insert"]
    BY DEF Store
  <2>3. [NoStatement EXCEPT !.kind = "insert"] = InsertOf(u, u, u)
    BY <2>1 DEF InsertOf
  <2> QED
    BY <2>2, <2>3 DEF u
<1>2. Store(InsertOf(a, b, c), "table", x) = InsertOf(x, b, c)
  BY DEF Store, InsertOf, NoStatement
<1>3. Store(InsertOf(a, b, c), "columns", x) = InsertOf(a, Append(b, x), c)
  BY DEF Store, InsertOf, NoStatement
<1>4. Store(InsertOf(a, b, c), "values", x) = InsertOf(a, b, Append(c, x))
  BY DEF Store, InsertOf, NoStatement
<1>5. Store(InsertOf(a, b, c), "none", x) = InsertOf(a, b, c)
  BY DEF Store
<1> QED
  BY <1>1, <1>2, <1>3, <1>4, <1>5

\* A SELECT when its first token has been read.
LEMMA SelectStarts ==
  ASSUME NEW x
  PROVE  Store(NoStatement, "select", x)
           = SelectOf(FALSE, <<>>, <<>>, FALSE, <<>>, <<>>)
<1> DEFINE u == <<>>
<1>1. NoStatement \in [kind : {"none"}, all : {FALSE}, table : {u}, columns : {u},
                       values : {u}, hasWhere : {FALSE}, whereColumn : {u},
                       whereValue : {u}]
  BY DEF NoStatement
<1> HIDE DEF u
<1>2. Store(NoStatement, "select", x) = [NoStatement EXCEPT !.kind = "select"]
  BY DEF Store
<1>3. [NoStatement EXCEPT !.kind = "select"] = SelectOf(FALSE, u, u, FALSE, u, u)
  BY <1>1 DEF SelectOf
<1> QED
  BY <1>2, <1>3 DEF u

\* INSERT INTO t ( and n columns.
InsertColumns(t, n) ==
  /\ IsKeyword(t[1], "INSERT") /\ IsKeyword(t[2], "INTO")
  /\ t[3].type = "identifier" /\ t[4].type = "("
  /\ ListAt(t, 5, n, {"identifier"})

\* ... ) VALUES ( and m values.
InsertValues(t, n, m) ==
  /\ InsertColumns(t, n)
  /\ t[4 + 2 * n].type = ")" /\ IsKeyword(t[5 + 2 * n], "VALUES")
  /\ t[6 + 2 * n].type = "("
  /\ ListAt(t, 7 + 2 * n, m, ValueTypes)

Inserting(t, n, m) ==
  InsertOf(t[3].text, Texts(t, 5, n), Texts(t, 7 + 2 * n, m))

\* Where FROM stands after n columns, or after the star.
From(n) == IF n = 0 THEN 3 ELSE 2 * n + 1

\* SELECT * FROM, or SELECT n columns FROM.
SelectFrom(t, n) ==
  /\ IsKeyword(t[1], "SELECT")
  /\ IF n = 0 THEN t[2].type = "*" ELSE ListAt(t, 2, n, {"identifier"})
  /\ IsKeyword(t[From(n)], "FROM")

\* ... t
SelectTable(t, n) == SelectFrom(t, n) /\ t[From(n) + 1].type = "identifier"

\* ... WHERE c = v
SelectWhere(t, n) ==
  /\ SelectTable(t, n) /\ IsKeyword(t[From(n) + 2], "WHERE")
  /\ t[From(n) + 3].type = "identifier" /\ t[From(n) + 4].type = "="
  /\ t[From(n) + 5].type \in ValueTypes

Selecting(t, n) ==
  SelectOf(n = 0, Texts(t, 2, n), t[From(n) + 1].text, FALSE, <<>>, <<>>)

SelectingWhere(t, n) ==
  SelectOf(n = 0, Texts(t, 2, n), t[From(n) + 1].text, TRUE,
           t[From(n) + 3].text, t[From(n) + 5].text)

Positive == Nat \ {0}

\* What parse_statement has read of the tokens t when it is at a place of an
\* INSERT after k of them.
InsertShape(t, k, at, statement) ==
  /\ at = "into" =>
       k = 1 /\ IsKeyword(t[1], "INSERT") /\ statement = InsertOf(<<>>, <<>>, <<>>)
  /\ at = "table" =>
       /\ k = 2 /\ IsKeyword(t[1], "INSERT") /\ IsKeyword(t[2], "INTO")
       /\ statement = InsertOf(<<>>, <<>>, <<>>)
  /\ at = "columns" =>
       /\ k = 3 /\ IsKeyword(t[1], "INSERT") /\ IsKeyword(t[2], "INTO")
       /\ t[3].type = "identifier" /\ statement = InsertOf(t[3].text, <<>>, <<>>)
  /\ at = "column" => \E n \in Nat :
       /\ k = 4 + 2 * n /\ InsertColumns(t, n)
       /\ n > 0 => t[k].type = Comma
       /\ statement = InsertOf(t[3].text, Texts(t, 5, n), <<>>)
  /\ at = "pastColumn" => \E n \in Positive :
       /\ k = 3 + 2 * n /\ InsertColumns(t, n)
       /\ statement = InsertOf(t[3].text, Texts(t, 5, n), <<>>)
  /\ at = "values" => \E n \in Positive :
       /\ k = 4 + 2 * n /\ InsertColumns(t, n) /\ t[k].type = ")"
       /\ statement = InsertOf(t[3].text, Texts(t, 5, n), <<>>)
  /\ at = "tuple" => \E n \in Positive :
       /\ k = 5 + 2 * n /\ InsertColumns(t, n) /\ t[k - 1].type = ")"
       /\ IsKeyword(t[k], "VALUES")
       /\ statement = InsertOf(t[3].text, Texts(t, 5, n), <<>>)
  /\ at = "value" => \E n \in Positive, m \in Nat :
       /\ k = 6 + 2 * n + 2 * m /\ InsertValues(t, n, m)
       /\ m > 0 => t[k].type = Comma
       /\ statement = Inserting(t, n, m)
  /\ at = "pastValue" => \E n \in Positive, m \in Positive :
       /\ k = 5 + 2 * n + 2 * m /\ InsertValues(t, n, m)
       /\ statement = Inserting(t, n, m)
  /\ at = "close" => \E n \in Positive, m \in Positive :
       /\ k = 6 + 2 * n + 2 * m /\ InsertValues(t, n, m) /\ t[k].type = ")"
       /\ statement = Inserting(t, n, m)

\* The same for a SELECT.
SelectShape(t, k, at, statement) ==
  /\ at = "select" =>
       /\ k = 1 /\ IsKeyword(t[1], "SELECT")
       /\ statement = SelectOf(FALSE, <<>>, <<>>, FALSE, <<>>, <<>>)
  /\ at = "from" =>
       /\ k = 2 /\ IsKeyword(t[1], "SELECT") /\ t[2].type = "*"
       /\ statement = SelectOf(TRUE, <<>>, <<>>, FALSE, <<>>, <<>>)
  /\ at = "pastSelected" => \E n \in Positive :
       /\ k = 2 * n /\ IsKeyword(t[1], "SELECT") /\ ListAt(t, 2, n, {"identifier"})
       /\ statement = SelectOf(FALSE, Texts(t, 2, n), <<>>, FALSE, <<>>, <<>>)
  /\ at = "selected" => \E n \in Positive :
       /\ k = 2 * n + 1 /\ IsKeyword(t[1], "SELECT") /\ ListAt(t, 2, n, {"identifier"})
       /\ t[k].type = Comma
       /\ statement = SelectOf(FALSE, Texts(t, 2, n), <<>>, FALSE, <<>>, <<>>)
  /\ at = "source" => \E n \in Nat :
       /\ k = From(n) /\ SelectFrom(t, n)
       /\ statement = SelectOf(n = 0, Texts(t, 2, n), <<>>, FALSE, <<>>, <<>>)
  /\ at = "where" => \E n \in Nat :
       k = From(n) + 1 /\ SelectTable(t, n) /\ statement = Selecting(t, n)
  /\ at = "operand" => \E n \in Nat :
       /\ k = From(n) + 2 /\ SelectTable(t, n) /\ IsKeyword(t[k], "WHERE")
       /\ statement = Selecting(t, n)
  /\ at = "equals" => \E n \in Nat :
       /\ k = From(n) + 3 /\ SelectTable(t, n) /\ IsKeyword(t[k - 1], "WHERE")
       /\ t[k].type = "identifier"
       /\ statement = SelectOf(n = 0, Texts(t, 2, n), t[From(n) + 1].text, FALSE,
                               t[k].text, <<>>)
  /\ at = "literal" => \E n \in Nat :
       /\ k = From(n) + 4 /\ SelectTable(t, n) /\ IsKeyword(t[k - 2], "WHERE")
       /\ t[k - 1].type = "identifier" /\ t[k].type = "="
       /\ statement = SelectOf(n = 0, Texts(t, 2, n), t[From(n) + 1].text, FALSE,
                               t[k - 1].text, <<>>)
  /\ at = "connector" => \E n \in Nat :
       k = From(n) + 5 /\ SelectWhere(t, n) /\ statement = SelectingWhere(t, n)

\* The same at the start, after the semicolon and after the end.
Shape(t, k, at, statement) ==
  /\ at = "start" => k = 0 /\ statement = NoStatement
  /\ InsertShape(t, k, at, statement)
  /\ SelectShape(t, k, at, statement)
  /\ at = "end" =>
       /\ t[k].type = Semicolon
       /\ \/ \E n \in Positive, m \in Positive :
               /\ k = 7 + 2 * n + 2 * m /\ InsertValues(t, n, m) /\ t[k - 1].type = ")"
               /\ statement = Inserting(t, n, m)
          \/ \E n \in Nat :
               k = From(n) + 2 /\ SelectTable(t, n) /\ statement = Selecting(t, n)
          \/ \E n \in Nat :
               k = From(n) + 6 /\ SelectWhere(t, n) /\ statement = SelectingWhere(t, n)
  /\ at = "done" => statement \in Readings(t)

\* TypesAt for two types.
LEMMA TwoTypes ==
  ASSUME NEW t, NEW first \in Nat, NEW a, NEW b
  PROVE  TypesAt(t, first, <<a, b>>) <=> t[first].type = a /\ t[first + 1].type = b
<1>1. first + 1 - 1 = first /\ first + 2 - 1 = first + 1
  OBVIOUS
<1> DEFINE p == <<a, b>>
<1>2. DOMAIN p = {1, 2} /\ p[1] = a /\ p[2] = b
  OBVIOUS
<1> HIDE DEF p
<1>3. TypesAt(t, first, p) <=>
        t[first + 1 - 1].type = p[1] /\ t[first + 2 - 1].type = p[2]
  BY <1>2 DEF TypesAt
<1>4. TypesAt(t, first, p) <=> t[first].type = a /\ t[first + 1].type = b
  BY <1>1, <1>2, <1>3, Zenon
<1> QED
  BY <1>4 DEF p

\* TypesAt for three types.
LEMMA ThreeTypes ==
  ASSUME NEW t, NEW first \in Nat, NEW a, NEW b, NEW c
  PROVE  TypesAt(t, first, <<a, b, c>>) <=>
           t[first].type = a /\ t[first + 1].type = b /\ t[first + 2].type = c
<1>1. first + 1 - 1 = first /\ first + 2 - 1 = first + 1 /\ first + 3 - 1 = first + 2
  OBVIOUS
<1> DEFINE p == <<a, b, c>>
<1>2. DOMAIN p = {1, 2, 3} /\ p[1] = a /\ p[2] = b /\ p[3] = c
  OBVIOUS
<1> HIDE DEF p
<1>3. TypesAt(t, first, p) <=>
        /\ t[first + 1 - 1].type = p[1] /\ t[first + 2 - 1].type = p[2]
        /\ t[first + 3 - 1].type = p[3]
  BY <1>2 DEF TypesAt
<1>4. TypesAt(t, first, p) <=>
        t[first].type = a /\ t[first + 1].type = b /\ t[first + 2].type = c
  BY <1>1, <1>2, <1>3, Zenon
<1> QED
  BY <1>4 DEF p

\* The sentences that are an INSERT.
InsertSentence(t, n, m) ==
  /\ Len(t) = 8 + 2 * n + 2 * m /\ InsertValues(t, n, m)
  /\ t[6 + 2 * n + 2 * m].type = ")" /\ t[7 + 2 * n + 2 * m].type = Semicolon
  /\ t[8 + 2 * n + 2 * m].type = "end"

\* InsertReadings by what the sentences look like.
LEMMA InsertSentences ==
  ASSUME NEW t \in Seq(Tokens), NEW s
  PROVE  s \in InsertReadings(t) <=>
           \E n, m \in Positive : InsertSentence(t, n, m) /\ s = Inserting(t, n, m)
<1> DEFINE L == 1 .. Len(t)
           Fits(n, m) ==
             /\ Len(t) = 8 + 2 * n + 2 * m
             /\ IsKeyword(t[1], "INSERT")
             /\ IsKeyword(t[2], "INTO")
             /\ TypesAt(t, 3, <<"identifier", "(">>)
             /\ ListAt(t, 5, n, {"identifier"})
             /\ t[4 + 2 * n].type = ")"
             /\ IsKeyword(t[5 + 2 * n], "VALUES")
             /\ t[6 + 2 * n].type = "("
             /\ ListAt(t, 7 + 2 * n, m, ValueTypes)
             /\ TypesAt(t, 6 + 2 * n + 2 * m, <<")", Semicolon, "end">>)
<1>1. s \in InsertReadings(t) <=> \E x \in L \X L : Fits(x[1], x[2]) /\ s = Inserting(t, x[1], x[2])
  BY Zenon DEF InsertReadings, Inserting, InsertOf
<1>2. s \in InsertReadings(t) <=> \E n, m \in L : Fits(n, m) /\ s = Inserting(t, n, m)
  <2> HIDE DEF Fits
  <2>1. ASSUME NEW x \in L \X L
        PROVE  x[1] \in L /\ x[2] \in L
    OBVIOUS
  <2>2. ASSUME NEW n \in L, NEW m \in L
        PROVE  <<n, m>> \in L \X L /\ <<n, m>>[1] = n /\ <<n, m>>[2] = m
    OBVIOUS
  <2>3. ASSUME s \in InsertReadings(t)
        PROVE  \E n, m \in L : Fits(n, m) /\ s = Inserting(t, n, m)
    <3> HIDE DEF L
    <3> QED
      BY <1>1, <2>1, <2>3
  <2>4. ASSUME NEW n \in L, NEW m \in L, Fits(n, m), s = Inserting(t, n, m)
        PROVE  s \in InsertReadings(t)
    <3> DEFINE x == <<n, m>>
    <3>1. x \in L \X L /\ x[1] = n /\ x[2] = m
      BY <2>2
    <3> HIDE DEF x, L
    <3>2. Fits(x[1], x[2]) /\ s = Inserting(t, x[1], x[2])
      BY <2>4, <3>1
    <3> QED
      BY <1>1, <3>1, <3>2
  <2> QED
    BY <2>3, <2>4
<1>3. ASSUME NEW n \in Nat, NEW m \in Nat
      PROVE  Fits(n, m) <=> InsertSentence(t, n, m)
  <2>1. TypesAt(t, 3, <<"identifier", "(">>) <=>
          t[3].type = "identifier" /\ t[4].type = "("
    <3>1. 3 + 1 = 4 /\ 3 \in Nat
      OBVIOUS
    <3>2. TypesAt(t, 3, <<"identifier", "(">>) <=>
            t[3].type = "identifier" /\ t[3 + 1].type = "("
      BY <3>1, TwoTypes
    <3> QED
      BY <3>1, <3>2, Zenon
  <2>2. TypesAt(t, 6 + 2 * n + 2 * m, <<")", Semicolon, "end">>) <=>
          /\ t[6 + 2 * n + 2 * m].type = ")" /\ t[7 + 2 * n + 2 * m].type = Semicolon
          /\ t[8 + 2 * n + 2 * m].type = "end"
    <3> DEFINE k == 6 + 2 * n + 2 * m
    <3>1. k \in Nat /\ k + 1 = 7 + 2 * n + 2 * m /\ k + 2 = 8 + 2 * n + 2 * m
      OBVIOUS
    <3> HIDE DEF k
    <3>2. TypesAt(t, k, <<")", Semicolon, "end">>) <=>
            t[k].type = ")" /\ t[k + 1].type = Semicolon /\ t[k + 2].type = "end"
      BY <3>1, ThreeTypes
    <3> QED
      BY <3>1, <3>2, Zenon DEF k
  <2> QED
    BY <2>1, <2>2, Zenon DEF InsertSentence, InsertValues, InsertColumns
<1>4. \A n, m \in L : n \in Positive /\ m \in Positive
  BY DEF Positive
<1>5. \A n, m \in Positive : InsertSentence(t, n, m) => n \in L /\ m \in L
  BY DEF Positive, InsertSentence
<1>6. Positive \subseteq Nat
  BY DEF Positive
<1> HIDE DEF L, Fits
<1> QED
  BY <1>2, <1>3, <1>4, <1>5, <1>6

\* The sentences that are a SELECT, without and with a condition.
SelectSentence(t, n) ==
  /\ Len(t) = From(n) + 3 /\ SelectTable(t, n)
  /\ t[From(n) + 2].type = Semicolon /\ t[From(n) + 3].type = "end"

SelectWhereSentence(t, n) ==
  /\ Len(t) = From(n) + 7 /\ SelectWhere(t, n)
  /\ t[From(n) + 6].type = Semicolon /\ t[From(n) + 7].type = "end"

\* SelectReadings by what the sentences look like.
LEMMA SelectSentences ==
  ASSUME NEW t \in Seq(Tokens), NEW s
  PROVE  s \in SelectReadings(t) <=>
           \E n \in Nat : \/ SelectSentence(t, n) /\ s = Selecting(t, n)
                          \/ SelectWhereSentence(t, n) /\ s = SelectingWhere(t, n)
<1> DEFINE L == 0 .. Len(t)
           M == 1 .. Len(t)
           Fits(n, from, where) ==
             /\ from = (IF n = 0 THEN 3 ELSE 2 * n + 1)
             /\ Len(t) = from + (IF where THEN 7 ELSE 3)
             /\ IsKeyword(t[1], "SELECT")
             /\ IF n = 0 THEN t[2].type = "*"
                ELSE ListAt(t, 2, n, {"identifier"})
             /\ IsKeyword(t[from], "FROM")
             /\ t[from + 1].type = "identifier"
             /\ where => /\ IsKeyword(t[from + 2], "WHERE")
                         /\ TypesAt(t, from + 3, <<"identifier", "=">>)
                         /\ t[from + 5].type \in ValueTypes
             /\ TypesAt(t, Len(t) - 1, <<Semicolon, "end">>)
           Of(n, from, where) ==
             SelectOf(n = 0, Texts(t, 2, n), t[from + 1].text, where,
                      IF where THEN t[from + 3].text ELSE <<>>,
                      IF where THEN t[from + 5].text ELSE <<>>)
<1>1. s \in SelectReadings(t) <=>
        \E x \in L \X M \X BOOLEAN : Fits(x[1], x[2], x[3]) /\ s = Of(x[1], x[2], x[3])
  BY Zenon DEF SelectReadings, SelectOf
<1>2. s \in SelectReadings(t) <=>
        \E n \in L, from \in M, where \in BOOLEAN :
          Fits(n, from, where) /\ s = Of(n, from, where)
  <2> HIDE DEF Fits, Of
  <2>1. ASSUME NEW x \in L \X M \X BOOLEAN
        PROVE  x[1] \in L /\ x[2] \in M /\ x[3] \in BOOLEAN
    OBVIOUS
  <2>2. ASSUME NEW n \in L, NEW from \in M, NEW where \in BOOLEAN
        PROVE  /\ <<n, from, where>> \in L \X M \X BOOLEAN /\ <<n, from, where>>[1] = n
               /\ <<n, from, where>>[2] = from /\ <<n, from, where>>[3] = where
    OBVIOUS
  <2>3. ASSUME s \in SelectReadings(t)
        PROVE  \E n \in L, from \in M, where \in BOOLEAN :
                 Fits(n, from, where) /\ s = Of(n, from, where)
    <3> HIDE DEF L, M
    <3> QED
      BY <1>1, <2>1, <2>3, Zenon
  <2>4. ASSUME NEW n \in L, NEW from \in M, NEW where \in BOOLEAN,
               Fits(n, from, where), s = Of(n, from, where)
        PROVE  s \in SelectReadings(t)
    <3> DEFINE x == <<n, from, where>>
    <3>1. x \in L \X M \X BOOLEAN /\ x[1] = n /\ x[2] = from /\ x[3] = where
      BY <2>2
    <3> HIDE DEF x, L, M
    <3>2. Fits(x[1], x[2], x[3]) /\ s = Of(x[1], x[2], x[3])
      BY <2>4, <3>1, Zenon
    <3> QED
      BY <1>1, <3>1, <3>2, Zenon
  <2> QED
    BY <2>3, <2>4, Zenon
<1>3. ASSUME NEW n \in Nat
      PROVE  /\ From(n) \in Nat /\ From(n) > 2
             /\ Fits(n, From(n), FALSE) <=> SelectSentence(t, n)
             /\ Fits(n, From(n), TRUE) <=> SelectWhereSentence(t, n)
             /\ Of(n, From(n), FALSE) = Selecting(t, n)
             /\ Of(n, From(n), TRUE) = SelectingWhere(t, n)
  <2> DEFINE from == From(n)
  <2>1. from \in Nat /\ from > 2 /\ from = (IF n = 0 THEN 3 ELSE 2 * n + 1)
    BY DEF From
  <2>2. TypesAt(t, from + 3, <<"identifier", "=">>) <=>
          t[from + 3].type = "identifier" /\ t[from + 4].type = "="
    <3> HIDE DEF from
    <3> DEFINE j == from + 3
    <3>1. j \in Nat /\ j + 1 = from + 4
      BY <2>1
    <3> HIDE DEF j
    <3>2. TypesAt(t, j, <<"identifier", "=">>) <=>
            t[j].type = "identifier" /\ t[j + 1].type = "="
      BY <3>1, TwoTypes
    <3> QED
      BY <3>1, <3>2, Zenon DEF j
  <2>3. ASSUME NEW k \in Nat, Len(t) = from + k, k > 1
        PROVE  TypesAt(t, Len(t) - 1, <<Semicolon, "end">>) <=>
                 t[from + (k - 1)].type = Semicolon /\ t[from + k].type = "end"
    <3> HIDE DEF from
    <3> DEFINE j == from + (k - 1)
    <3>1. j \in Nat /\ Len(t) - 1 = j /\ j + 1 = from + k
      BY <2>1, <2>3
    <3> HIDE DEF j
    <3>2. TypesAt(t, j, <<Semicolon, "end">>) <=>
            t[j].type = Semicolon /\ t[j + 1].type = "end"
      BY <3>1, TwoTypes
    <3> QED
      BY <3>1, <3>2, Zenon DEF j
  <2>4. Len(t) = from + 3 =>
          (TypesAt(t, Len(t) - 1, <<Semicolon, "end">>) <=>
             t[from + 2].type = Semicolon /\ t[from + 3].type = "end")
    <3>1. 3 \in Nat /\ 3 > 1 /\ 3 - 1 = 2
      OBVIOUS
    <3> QED
      BY <2>3, <3>1, Zenon
  <2>5. Len(t) = from + 7 =>
          (TypesAt(t, Len(t) - 1, <<Semicolon, "end">>) <=>
             t[from + 6].type = Semicolon /\ t[from + 7].type = "end")
    <3>1. 7 \in Nat /\ 7 > 1 /\ 7 - 1 = 6
      OBVIOUS
    <3> QED
      BY <2>3, <3>1, Zenon
  <2>6. Fits(n, from, FALSE) <=> SelectSentence(t, n)
    BY <2>1, <2>4, Zenon DEF SelectSentence, SelectTable, SelectFrom
  <2>7. Fits(n, from, TRUE) <=> SelectWhereSentence(t, n)
    BY <2>1, <2>2, <2>5, Zenon DEF SelectWhereSentence, SelectWhere, SelectTable, SelectFrom
  <2>8. Of(n, from, FALSE) = Selecting(t, n)
    BY Zenon DEF Selecting
  <2>9. Of(n, from, TRUE) = SelectingWhere(t, n)
    BY Zenon DEF SelectingWhere
  <2> QED
    BY <2>1, <2>6, <2>7, <2>8, <2>9
<1>4. ASSUME NEW n \in L, NEW from \in M, NEW where \in BOOLEAN, Fits(n, from, where)
      PROVE  n \in Nat /\ from = From(n)
  BY <1>4 DEF From
<1>5. ASSUME NEW n \in Nat, SelectSentence(t, n) \/ SelectWhereSentence(t, n)
      PROVE  n \in L /\ From(n) \in M
  <2>1. Len(t) = From(n) + 3 \/ Len(t) = From(n) + 7
    BY <1>5 DEF SelectSentence, SelectWhereSentence
  <2>2. Len(t) \in Nat /\ n <= From(n) /\ From(n) \in Nat /\ From(n) > 0
    BY DEF From
  <2> QED
    BY <2>1, <2>2
<1> HIDE DEF L, M, Fits, Of
<1>6. ASSUME s \in SelectReadings(t)
      PROVE  \E n \in Nat : \/ SelectSentence(t, n) /\ s = Selecting(t, n)
                            \/ SelectWhereSentence(t, n) /\ s = SelectingWhere(t, n)
  <2>1. PICK n \in L, from \in M, where \in BOOLEAN :
          Fits(n, from, where) /\ s = Of(n, from, where)
    BY <1>2, <1>6
  <2>2. n \in Nat /\ from = From(n)
    BY <1>4, <2>1
  <2>3. CASE where
    BY <1>3, <2>1, <2>2, <2>3
  <2>4. CASE ~where
    BY <1>3, <2>1, <2>2, <2>4
  <2> QED
    BY <2>3, <2>4
<1>7. ASSUME NEW n \in Nat, SelectSentence(t, n), s = Selecting(t, n)
      PROVE  s \in SelectReadings(t)
  BY <1>2, <1>3, <1>5, <1>7
<1>8. ASSUME NEW n \in Nat, SelectWhereSentence(t, n), s = SelectingWhere(t, n)
      PROVE  s \in SelectReadings(t)
  BY <1>2, <1>3, <1>5, <1>8
<1> QED
  BY <1>6, <1>7, <1>8

\* An empty list has no texts.
LEMMA TextsNone ==
  ASSUME NEW t, NEW first
  PROVE  Texts(t, first, 0) = <<>>
BY DEF Texts

\* A list of tokens with its next entry read.
LEMMA ListGrows ==
  ASSUME NEW t \in Seq(Tokens), NEW first \in Nat, first > 0, NEW n \in Nat,
         NEW types, NEW k \in 1 .. Len(t), k = first + 2 * n,
         ListAt(t, first, n, types), t[k].type \in types,
         n > 0 => t[k - 1].type = Comma
  PROVE  /\ ListAt(t, first, n + 1, types)
         /\ Texts(t, first, n + 1) = Append(Texts(t, first, n), t[k].text)
<1>1. first + 2 * n <= Len(t) /\ Len(t) \in Nat
  OBVIOUS
<1>2. ListAt(t, first, n + 1, types)
  <2>1. /\ t[first + 2 * n].type \in types
        /\ n > 0 => t[first + 2 * n - 1].type = Comma
    OBVIOUS
  <2> QED
    BY <2>1, ListNext, Zenon
<1>3. Texts(t, first, n + 1) = Append(Texts(t, first, n), t[first + 2 * n].text)
  BY <1>1, TextsNext
<1> QED
  BY <1>2, <1>3

\* The rules of parse_insert read on as InsertShape says.
LEMMA InsertShapes ==
  ASSUME NEW t \in Seq(Tokens), NEW k \in 1 .. Len(t), NEW at, NEW st,
         Shape(t, k - 1, at, st),
         NEW r \in InsertRules, r[1] = at, Matches(t[k], r[2])
  PROVE  Shape(t, k, r[3], Store(st, r[4], t[k].text))
<1> DEFINE x == t[k].text
<1> USE DEF Positive
<1>1. CASE r = <<"start", "INSERT", "into", "insert">>
  <2>1. at = "start" /\ r[3] = "into" /\ r[4] = "insert" /\ IsKeyword(t[k], "INSERT")
    <3>1. r[1] = "start" /\ r[2] = "INSERT" /\ r[3] = "into" /\ r[4] = "insert"
      BY <1>1
    <3> QED
      BY <3>1, MatchesOn DEF Keywords
  <2>2. k = 1 /\ st = NoStatement
    BY <2>1 DEF Shape, InsertShape, SelectShape
  <2> QED
    BY <2>1, <2>2, StoreInsert DEF Shape, InsertShape, SelectShape
<1>2. CASE r = <<"into", "INTO", "table", "none">>
  <2>1. at = "into" /\ r[3] = "table" /\ r[4] = "none" /\ IsKeyword(t[k], "INTO")
    <3>1. r[1] = "into" /\ r[2] = "INTO" /\ r[3] = "table" /\ r[4] = "none"
      BY <1>2
    <3> QED
      BY <3>1, MatchesOn DEF Keywords
  <2>2. k = 2 /\ IsKeyword(t[1], "INSERT") /\ st = InsertOf(<<>>, <<>>, <<>>)
    BY <2>1 DEF Shape, InsertShape, SelectShape
  <2> QED
    BY <2>1, <2>2, StoreInsert DEF Shape, InsertShape, SelectShape
<1>3. CASE r = <<"table", "identifier", "columns", "table">>
  <2>1. at = "table" /\ r[3] = "columns" /\ r[4] = "table" /\ t[k].type = "identifier"
    <3>1. r[1] = "table" /\ r[2] = "identifier" /\ r[3] = "columns" /\ r[4] = "table"
      BY <1>3
    <3> QED
      BY <3>1, MatchesOn
  <2>2. /\ k = 3 /\ IsKeyword(t[1], "INSERT") /\ IsKeyword(t[2], "INTO")
        /\ st = InsertOf(<<>>, <<>>, <<>>)
    BY <2>1 DEF Shape, InsertShape, SelectShape
  <2> QED
    BY <2>1, <2>2, StoreInsert DEF Shape, InsertShape, SelectShape
<1>4. CASE r = <<"columns", "(", "column", "none">>
  <2>1. at = "columns" /\ r[3] = "column" /\ r[4] = "none" /\ t[k].type = "("
    <3>1. r[1] = "columns" /\ r[2] = "(" /\ r[3] = "column" /\ r[4] = "none"
      BY <1>4
    <3> QED
      BY <3>1, MatchesOn
  <2>2. /\ k = 4 /\ IsKeyword(t[1], "INSERT") /\ IsKeyword(t[2], "INTO")
        /\ t[3].type = "identifier" /\ st = InsertOf(t[3].text, <<>>, <<>>)
    BY <2>1 DEF Shape, InsertShape, SelectShape
  <2>3. ListAt(t, 5, 0, {"identifier"}) /\ Texts(t, 5, 0) = <<>>
    BY ListNext, TextsNone
  <2>4. InsertColumns(t, 0)
    BY <2>1, <2>2, <2>3 DEF InsertColumns
  <2>5. Store(st, "none", x) = InsertOf(t[3].text, Texts(t, 5, 0), <<>>)
    BY <2>2, <2>3, StoreInsert
  <2> QED
    BY <2>1, <2>2, <2>4, <2>5 DEF Shape, InsertShape, SelectShape
<1>5. CASE r = <<"column", "identifier", "pastColumn", "columns">>
  <2>1. at = "column" /\ r[3] = "pastColumn" /\ r[4] = "columns" /\ t[k].type = "identifier"
    <3>1. r[1] = "column" /\ r[2] = "identifier" /\ r[3] = "pastColumn" /\ r[4] = "columns"
      BY <1>5
    <3> QED
      BY <3>1, MatchesOn
  <2>2. PICK n \in Nat :
          /\ k - 1 = 4 + 2 * n /\ InsertColumns(t, n)
          /\ n > 0 => t[k - 1].type = Comma
          /\ st = InsertOf(t[3].text, Texts(t, 5, n), <<>>)
    BY <2>1 DEF Shape, InsertShape, SelectShape
  <2>3. k = 5 + 2 * n /\ k - 1 = 5 + 2 * n - 1 /\ n + 1 \in Positive /\ k = 3 + 2 * (n + 1)
    BY <2>2
  <2> DEFINE first == 5
  <2>4. /\ ListAt(t, first, n, {"identifier"}) /\ t[k].type \in {"identifier"}
        /\ first \in Nat /\ first > 0 /\ k = first + 2 * n
    BY <2>1, <2>2, <2>3 DEF InsertColumns
  <2>5. /\ ListAt(t, 5, n + 1, {"identifier"})
        /\ Texts(t, 5, n + 1) = Append(Texts(t, 5, n), x)
    <3> HIDE DEF first
    <3>1. /\ ListAt(t, first, n + 1, {"identifier"})
          /\ Texts(t, first, n + 1) = Append(Texts(t, first, n), t[k].text)
      BY <2>2, <2>4, ListGrows
    <3> QED
      BY <3>1 DEF first
  <2>6. InsertColumns(t, n + 1)
    BY <2>2, <2>5 DEF InsertColumns
  <2>7. Store(st, "columns", x) = InsertOf(t[3].text, Texts(t, 5, n + 1), <<>>)
    <3> DEFINE a == t[3].text
               b == Texts(t, 5, n)
               c == <<>>
    <3> HIDE DEF a, b, c, x
    <3>1. Store(InsertOf(a, b, c), "columns", x) = InsertOf(a, Append(b, x), c)
      BY StoreInsert
    <3> QED
      BY <2>2, <2>5, <3>1 DEF a, b, c
  <2> QED
    BY <2>1, <2>3, <2>6, <2>7 DEF Shape, InsertShape, SelectShape
<1>6. CASE r = <<"pastColumn", Comma, "column", "none">>
  <2>1. at = "pastColumn" /\ r[3] = "column" /\ r[4] = "none" /\ t[k].type = Comma
    <3>1. r[1] = "pastColumn" /\ r[2] = Comma /\ r[3] = "column" /\ r[4] = "none"
      BY <1>6
    <3> QED
      BY <3>1, MatchesOn
  <2>2. PICK n \in Positive :
          /\ k - 1 = 3 + 2 * n /\ InsertColumns(t, n)
          /\ st = InsertOf(t[3].text, Texts(t, 5, n), <<>>)
    BY <2>1 DEF Shape, InsertShape, SelectShape
  <2>3. n \in Nat /\ n > 0 /\ k = 4 + 2 * n
    BY <2>2
  <2>4. Store(st, "none", x) = st
    BY <2>2, StoreInsert
  <2> QED
    BY <2>1, <2>2, <2>3, <2>4 DEF Shape, InsertShape, SelectShape
<1>7. CASE r = <<"pastColumn", ")", "values", "none">>
  <2>1. at = "pastColumn" /\ r[3] = "values" /\ r[4] = "none" /\ t[k].type = ")"
    <3>1. r[1] = "pastColumn" /\ r[2] = ")" /\ r[3] = "values" /\ r[4] = "none"
      BY <1>7
    <3> QED
      BY <3>1, MatchesOn
  <2>2. PICK n \in Positive :
          /\ k - 1 = 3 + 2 * n /\ InsertColumns(t, n)
          /\ st = InsertOf(t[3].text, Texts(t, 5, n), <<>>)
    BY <2>1 DEF Shape, InsertShape, SelectShape
  <2>3. n \in Positive /\ k = 4 + 2 * n
    BY <2>2
  <2>4. Store(st, "none", x) = st
    BY <2>2, StoreInsert
  <2> QED
    BY <2>1, <2>2, <2>3, <2>4 DEF Shape, InsertShape, SelectShape
<1>8. CASE r = <<"values", "VALUES", "tuple", "none">>
  <2>1. at = "values" /\ r[3] = "tuple" /\ r[4] = "none" /\ IsKeyword(t[k], "VALUES")
    <3>1. r[1] = "values" /\ r[2] = "VALUES" /\ r[3] = "tuple" /\ r[4] = "none"
      BY <1>8
    <3> QED
      BY <3>1, MatchesOn DEF Keywords
  <2>2. PICK n \in Positive :
          /\ k - 1 = 4 + 2 * n /\ InsertColumns(t, n) /\ t[k - 1].type = ")"
          /\ st = InsertOf(t[3].text, Texts(t, 5, n), <<>>)
    BY <2>1 DEF Shape, InsertShape, SelectShape
  <2>3. n \in Positive /\ k = 5 + 2 * n
    BY <2>2
  <2>4. Store(st, "none", x) = st
    BY <2>2, StoreInsert
  <2> QED
    BY <2>1, <2>2, <2>3, <2>4 DEF Shape, InsertShape, SelectShape
<1>9. CASE r = <<"tuple", "(", "value", "none">>
  <2>1. at = "tuple" /\ r[3] = "value" /\ r[4] = "none" /\ t[k].type = "("
    <3>1. r[1] = "tuple" /\ r[2] = "(" /\ r[3] = "value" /\ r[4] = "none"
      BY <1>9
    <3> QED
      BY <3>1, MatchesOn
  <2>2. PICK n \in Positive :
          /\ k - 1 = 5 + 2 * n /\ InsertColumns(t, n) /\ t[k - 1 - 1].type = ")"
          /\ IsKeyword(t[k - 1], "VALUES")
          /\ st = InsertOf(t[3].text, Texts(t, 5, n), <<>>)
    BY <2>1 DEF Shape, InsertShape, SelectShape
  <2>3. /\ n \in Nat /\ k = 6 + 2 * n /\ k = 6 + 2 * n + 2 * 0 /\ k - 1 - 1 = 4 + 2 * n
        /\ 7 + 2 * n \in Nat
    BY <2>2
  <2>4. ListAt(t, 7 + 2 * n, 0, ValueTypes) /\ Texts(t, 7 + 2 * n, 0) = <<>>
    BY <2>3, ListNext, TextsNone
  <2>5. InsertValues(t, n, 0)
    BY <2>1, <2>2, <2>3, <2>4 DEF InsertValues
  <2>6. Store(st, "none", x) = Inserting(t, n, 0)
    BY <2>2, <2>4, StoreInsert DEF Inserting
  <2> QED
    BY <2>1, <2>2, <2>3, <2>5, <2>6 DEF Shape, InsertShape, SelectShape
<1>10. CASE r = <<"value", "value", "pastValue", "values">>
  <2>1. at = "value" /\ r[3] = "pastValue" /\ r[4] = "values" /\ t[k].type \in ValueTypes
    <3>1. r[1] = "value" /\ r[2] = "value" /\ r[3] = "pastValue" /\ r[4] = "values"
      BY <1>10
    <3> QED
      BY <3>1, MatchesOn
  <2>2. PICK n \in Positive, m \in Nat :
          /\ k - 1 = 6 + 2 * n + 2 * m /\ InsertValues(t, n, m)
          /\ m > 0 => t[k - 1].type = Comma
          /\ st = Inserting(t, n, m)
    BY <2>1 DEF Shape, InsertShape, SelectShape
  <2> DEFINE first == 7 + 2 * n
  <2>3. /\ first \in Nat /\ first > 0 /\ k = first + 2 * m /\ k - 1 = first + 2 * m - 1
        /\ m + 1 \in Positive /\ k = 5 + 2 * n + 2 * (m + 1)
    BY <2>2
  <2>4. ListAt(t, first, m, ValueTypes)
    BY <2>2 DEF InsertValues
  <2>5. /\ ListAt(t, first, m + 1, ValueTypes)
        /\ Texts(t, first, m + 1) = Append(Texts(t, first, m), x)
    <3> HIDE DEF first
    <3> QED
      BY <2>1, <2>2, <2>3, <2>4, ListGrows
  <2>6. InsertValues(t, n, m + 1)
    BY <2>2, <2>5 DEF InsertValues
  <2>7. Store(st, "values", x) = Inserting(t, n, m + 1)
    <3>1. st = InsertOf(t[3].text, Texts(t, 5, n), Texts(t, first, m))
      BY <2>2 DEF Inserting
    <3>2. Store(st, "values", x)
            = InsertOf(t[3].text, Texts(t, 5, n), Append(Texts(t, first, m), x))
      <4> DEFINE a == t[3].text
                 b == Texts(t, 5, n)
                 c == Texts(t, first, m)
      <4> HIDE DEF a, b, c, x
      <4>1. Store(InsertOf(a, b, c), "values", x) = InsertOf(a, b, Append(c, x))
        BY StoreInsert
      <4> QED
        BY <3>1, <4>1 DEF a, b, c
    <3> QED
      BY <2>5, <3>2, Zenon DEF Inserting
  <2> QED
    BY <2>1, <2>2, <2>3, <2>6, <2>7 DEF Shape, InsertShape, SelectShape
<1>11. CASE r = <<"pastValue", Comma, "value", "none">>
  <2>1. at = "pastValue" /\ r[3] = "value" /\ r[4] = "none" /\ t[k].type = Comma
    <3>1. r[1] = "pastValue" /\ r[2] = Comma /\ r[3] = "value" /\ r[4] = "none"
      BY <1>11
    <3> QED
      BY <3>1, MatchesOn
  <2>2. PICK n \in Positive, m \in Positive :
          /\ k - 1 = 5 + 2 * n + 2 * m /\ InsertValues(t, n, m)
          /\ st = Inserting(t, n, m)
    BY <2>1 DEF Shape, InsertShape, SelectShape
  <2>3. m \in Nat /\ m > 0 /\ k = 6 + 2 * n + 2 * m
    BY <2>2
  <2>4. Store(st, "none", x) = st
    BY <2>2, StoreInsert DEF Inserting
  <2> QED
    BY <2>1, <2>2, <2>3, <2>4 DEF Shape, InsertShape, SelectShape
<1>12. CASE r = <<"pastValue", ")", "close", "none">>
  <2>1. at = "pastValue" /\ r[3] = "close" /\ r[4] = "none" /\ t[k].type = ")"
    <3>1. r[1] = "pastValue" /\ r[2] = ")" /\ r[3] = "close" /\ r[4] = "none"
      BY <1>12
    <3> QED
      BY <3>1, MatchesOn
  <2>2. PICK n \in Positive, m \in Positive :
          /\ k - 1 = 5 + 2 * n + 2 * m /\ InsertValues(t, n, m)
          /\ st = Inserting(t, n, m)
    BY <2>1 DEF Shape, InsertShape, SelectShape
  <2>3. k = 6 + 2 * n + 2 * m
    BY <2>2
  <2>4. Store(st, "none", x) = st
    BY <2>2, StoreInsert DEF Inserting
  <2> QED
    BY <2>1, <2>2, <2>3, <2>4 DEF Shape, InsertShape, SelectShape
<1> QED
  BY <1>1, <1>2, <1>3, <1>4, <1>5, <1>6, <1>7, <1>8, <1>9, <1>10, <1>11, <1>12 DEF InsertRules

\* The rules of parse_select read on as SelectShape says.
LEMMA SelectShapes ==
  ASSUME NEW t \in Seq(Tokens), NEW k \in 1 .. Len(t), NEW at, NEW st,
         Shape(t, k - 1, at, st),
         NEW r \in SelectRules, r[1] = at, Matches(t[k], r[2])
  PROVE  Shape(t, k, r[3], Store(st, r[4], t[k].text))
<1> DEFINE x == t[k].text
<1> USE DEF Positive
<1>1. CASE r = <<"start", "SELECT", "select", "select">>
  <2>1. at = "start" /\ r[3] = "select" /\ r[4] = "select" /\ IsKeyword(t[k], "SELECT")
    <3>1. r[1] = "start" /\ r[2] = "SELECT" /\ r[3] = "select" /\ r[4] = "select"
      BY <1>1
    <3> QED
      BY <3>1, MatchesOn DEF Keywords
  <2>2. k = 1 /\ st = NoStatement
    BY <2>1 DEF Shape, InsertShape, SelectShape
  <2> QED
    BY <2>1, <2>2, SelectStarts DEF Shape, InsertShape, SelectShape
<1>2. CASE r = <<"select", "*", "from", "all">>
  <2>1. at = "select" /\ r[3] = "from" /\ r[4] = "all" /\ t[k].type = "*"
    <3>1. r[1] = "select" /\ r[2] = "*" /\ r[3] = "from" /\ r[4] = "all"
      BY <1>2
    <3> QED
      BY <3>1, MatchesOn
  <2>2. k = 2 /\ IsKeyword(t[1], "SELECT") /\ st = SelectOf(FALSE, <<>>, <<>>, FALSE, <<>>, <<>>)
    BY <2>1 DEF Shape, InsertShape, SelectShape
  <2>3. Store(st, "all", x) = SelectOf(TRUE, <<>>, <<>>, FALSE, <<>>, <<>>)
    <3> DEFINE u == <<>>
               no == FALSE
    <3> HIDE DEF u, no
    <3>1. Store(SelectOf(no, u, u, no, u, u), "all", x) = SelectOf(TRUE, u, u, no, u, u)
      BY DEF Store, SelectOf, NoStatement
    <3> QED
      BY <2>2, <3>1, Zenon DEF u, no
  <2> QED
    BY <2>1, <2>2, <2>3 DEF Shape, InsertShape, SelectShape
<1>3. CASE r = <<"select", "identifier", "pastSelected", "columns">>
  <2>1. at = "select" /\ r[3] = "pastSelected" /\ r[4] = "columns" /\ t[k].type = "identifier"
    <3>1. r[1] = "select" /\ r[2] = "identifier" /\ r[3] = "pastSelected" /\ r[4] = "columns"
      BY <1>3
    <3> QED
      BY <3>1, MatchesOn
  <2>2. k = 2 /\ IsKeyword(t[1], "SELECT") /\ st = SelectOf(FALSE, <<>>, <<>>, FALSE, <<>>, <<>>)
    BY <2>1 DEF Shape, InsertShape, SelectShape
  <2> DEFINE n == 0
  <2>3. /\ n \in Nat /\ n + 1 \in Positive /\ k = 2 * (n + 1) /\ k = 2 + 2 * n /\ ~(n > 0)
        /\ Texts(t, 2, n) = <<>> /\ ListAt(t, 2, n, {"identifier"})
    <3>1. 2 \in Nat /\ 0 \in Nat
      OBVIOUS
    <3>2. Texts(t, 2, n) = <<>> /\ ListAt(t, 2, n, {"identifier"})
      BY <3>1, TextsNone, ListNext, Zenon
    <3> QED
      BY <2>2, <3>2
  <2> HIDE DEF n
  <2> DEFINE first == 2
  <2>4. /\ ListAt(t, first, n, {"identifier"}) /\ t[k].type \in {"identifier"}
        /\ first \in Nat /\ first > 0 /\ k = first + 2 * n
        /\ n > 0 => t[k - 1].type = Comma
    BY <2>1, <2>2, <2>3
  <2>5. /\ ListAt(t, 2, n + 1, {"identifier"})
        /\ Texts(t, 2, n + 1) = Append(Texts(t, 2, n), x)
    <3> HIDE DEF first
    <3>1. /\ ListAt(t, first, n + 1, {"identifier"})
          /\ Texts(t, first, n + 1) = Append(Texts(t, first, n), t[k].text)
      BY <2>3, <2>4, ListGrows
    <3> QED
      BY <3>1 DEF first
  <2>6. Store(st, "columns", x)
          = SelectOf(FALSE, Texts(t, 2, n + 1), <<>>, FALSE, <<>>, <<>>)
    <3> DEFINE b == Texts(t, 2, n)
               u == <<>>
               no == FALSE
    <3> HIDE DEF b, u, x, no
    <3>1. Store(SelectOf(no, b, u, no, u, u), "columns", x)
            = SelectOf(no, Append(b, x), u, no, u, u)
      BY DEF Store, SelectOf, NoStatement
    <3> QED
      BY <2>2, <2>3, <2>5, <3>1, Zenon DEF b, u, no
  <2> QED
    BY <2>1, <2>2, <2>3, <2>5, <2>6 DEF Shape, InsertShape, SelectShape
<1>4. CASE r = <<"pastSelected", Comma, "selected", "none">>
  <2>1. at = "pastSelected" /\ r[3] = "selected" /\ r[4] = "none" /\ t[k].type = Comma
    <3>1. r[1] = "pastSelected" /\ r[2] = Comma /\ r[3] = "selected" /\ r[4] = "none"
      BY <1>4
    <3> QED
      BY <3>1, MatchesOn
  <2>2. PICK n \in Positive :
          /\ k - 1 = 2 * n /\ IsKeyword(t[1], "SELECT")
          /\ ListAt(t, 2, n, {"identifier"})
          /\ st = SelectOf(FALSE, Texts(t, 2, n), <<>>, FALSE, <<>>, <<>>)
    BY <2>1 DEF Shape, InsertShape, SelectShape
  <2>3. k = 2 * n + 1
    BY <2>2 DEF From
  <2>4. Store(st, "none", x) = st
    BY DEF Store
  <2> QED
    BY <2>1, <2>2, <2>3, <2>4 DEF Shape, InsertShape, SelectShape
<1>5. CASE r = <<"selected", "identifier", "pastSelected", "columns">>
  <2>1. at = "selected" /\ r[3] = "pastSelected" /\ r[4] = "columns" /\ t[k].type = "identifier"
    <3>1. r[1] = "selected" /\ r[2] = "identifier" /\ r[3] = "pastSelected" /\ r[4] = "columns"
      BY <1>5
    <3> QED
      BY <3>1, MatchesOn
  <2>2. PICK n \in Positive :
          /\ k - 1 = 2 * n + 1 /\ IsKeyword(t[1], "SELECT")
          /\ ListAt(t, 2, n, {"identifier"}) /\ t[k - 1].type = Comma
          /\ st = SelectOf(FALSE, Texts(t, 2, n), <<>>, FALSE, <<>>, <<>>)
    BY <2>1 DEF Shape, InsertShape, SelectShape
  <2>3. /\ n \in Nat /\ n + 1 \in Positive /\ k = 2 * (n + 1) /\ k = 2 + 2 * n
    BY <2>2
  <2> DEFINE first == 2
  <2>4. /\ ListAt(t, first, n, {"identifier"}) /\ t[k].type \in {"identifier"}
        /\ first \in Nat /\ first > 0 /\ k = first + 2 * n
        /\ n > 0 => t[k - 1].type = Comma
    BY <2>1, <2>2, <2>3
  <2>5. /\ ListAt(t, 2, n + 1, {"identifier"})
        /\ Texts(t, 2, n + 1) = Append(Texts(t, 2, n), x)
    <3> HIDE DEF first
    <3>1. /\ ListAt(t, first, n + 1, {"identifier"})
          /\ Texts(t, first, n + 1) = Append(Texts(t, first, n), t[k].text)
      BY <2>3, <2>4, ListGrows
    <3> QED
      BY <3>1 DEF first
  <2>6. Store(st, "columns", x)
          = SelectOf(FALSE, Texts(t, 2, n + 1), <<>>, FALSE, <<>>, <<>>)
    <3> DEFINE b == Texts(t, 2, n)
               u == <<>>
               no == FALSE
    <3> HIDE DEF b, u, x, no
    <3>1. Store(SelectOf(no, b, u, no, u, u), "columns", x)
            = SelectOf(no, Append(b, x), u, no, u, u)
      BY DEF Store, SelectOf, NoStatement
    <3> QED
      BY <2>2, <2>3, <2>5, <3>1, Zenon DEF b, u, no
  <2> QED
    BY <2>1, <2>2, <2>3, <2>5, <2>6 DEF Shape, InsertShape, SelectShape
<1>6. CASE r = <<"pastSelected", "FROM", "source", "none">>
  <2>1. at = "pastSelected" /\ r[3] = "source" /\ r[4] = "none" /\ IsKeyword(t[k], "FROM")
    <3>1. r[1] = "pastSelected" /\ r[2] = "FROM" /\ r[3] = "source" /\ r[4] = "none"
      BY <1>6
    <3> QED
      BY <3>1, MatchesOn DEF Keywords
  <2>2. PICK n \in Positive :
          /\ k - 1 = 2 * n /\ IsKeyword(t[1], "SELECT")
          /\ ListAt(t, 2, n, {"identifier"})
          /\ st = SelectOf(FALSE, Texts(t, 2, n), <<>>, FALSE, <<>>, <<>>)
    BY <2>1 DEF Shape, InsertShape, SelectShape
  <2>3. n \in Nat /\ n # 0 /\ k = From(n)
    BY <2>2 DEF From
  <2>4. SelectFrom(t, n)
    BY <2>1, <2>2, <2>3 DEF SelectFrom
  <2>5. (n = 0) = FALSE
    BY <2>3
  <2>6. Store(st, "none", x)
          = SelectOf(n = 0, Texts(t, 2, n), <<>>, FALSE, <<>>, <<>>)
    <3> DEFINE all == n = 0
    <3> HIDE DEF all
    <3>1. all = FALSE
      BY <2>5 DEF all
    <3>2. st = SelectOf(all, Texts(t, 2, n), <<>>, FALSE, <<>>, <<>>)
      BY <2>2, <3>1
    <3> QED
      BY <3>2 DEF Store, all
  <2> QED
    BY <2>1, <2>3, <2>4, <2>6 DEF Shape, InsertShape, SelectShape
<1>7. CASE r = <<"from", "FROM", "source", "none">>
  <2>1. at = "from" /\ r[3] = "source" /\ r[4] = "none" /\ IsKeyword(t[k], "FROM")
    <3>1. r[1] = "from" /\ r[2] = "FROM" /\ r[3] = "source" /\ r[4] = "none"
      BY <1>7
    <3> QED
      BY <3>1, MatchesOn DEF Keywords
  <2>2. /\ k = 3 /\ IsKeyword(t[1], "SELECT") /\ t[2].type = "*"
        /\ st = SelectOf(TRUE, <<>>, <<>>, FALSE, <<>>, <<>>)
    BY <2>1 DEF Shape, InsertShape, SelectShape
  <2> DEFINE n == 0
  <2>3. n \in Nat /\ n = 0 /\ k = From(n) /\ Texts(t, 2, n) = <<>> /\ (n = 0) = TRUE
    BY <2>2, TextsNone DEF From
  <2> HIDE DEF n
  <2>4. SelectFrom(t, n)
    BY <2>1, <2>2, <2>3 DEF SelectFrom
  <2>5. Store(st, "none", x)
          = SelectOf(n = 0, Texts(t, 2, n), <<>>, FALSE, <<>>, <<>>)
    <3> DEFINE all == n = 0
    <3> HIDE DEF all
    <3>1. all = TRUE
      BY <2>3 DEF all
    <3>2. st = SelectOf(all, Texts(t, 2, n), <<>>, FALSE, <<>>, <<>>)
      BY <2>2, <2>3, <3>1
    <3> QED
      BY <3>2 DEF Store, all
  <2> QED
    BY <2>1, <2>3, <2>4, <2>5 DEF Shape, InsertShape, SelectShape
<1>8. CASE r = <<"source", "identifier", "where", "table">>
  <2>1. at = "source" /\ r[3] = "where" /\ r[4] = "table" /\ t[k].type = "identifier"
    <3>1. r[1] = "source" /\ r[2] = "identifier" /\ r[3] = "where" /\ r[4] = "table"
      BY <1>8
    <3> QED
      BY <3>1, MatchesOn
  <2>2. PICK n \in Nat :
          /\ k - 1 = From(n) /\ SelectFrom(t, n)
          /\ st = SelectOf(n = 0, Texts(t, 2, n), <<>>, FALSE, <<>>, <<>>)
    BY <2>1 DEF Shape, InsertShape, SelectShape
  <2>3. k = From(n) + 1
    BY <2>2 DEF From
  <2>4. SelectTable(t, n)
    BY <2>1, <2>2, <2>3 DEF SelectTable
  <2>5. Store(st, "table", x) = Selecting(t, n)
    <3> DEFINE a == n = 0
               b == Texts(t, 2, n)
               c == <<>>
               d == FALSE
               e == <<>>
               f == <<>>
    <3> HIDE DEF a, b, c, d, e, f, x
    <3>1. Store(SelectOf(a, b, c, d, e, f), "table", x) = SelectOf(a, b, x, d, e, f)
      BY DEF Store, SelectOf, NoStatement
    <3>2. SelectOf(a, b, c, d, e, f) = st
      BY <2>2, <2>3, Zenon DEF a, b, c, d, e, f
    <3>3. SelectOf(a, b, x, d, e, f) = Selecting(t, n)
      BY <2>2, <2>3, Zenon DEF a, b, c, d, e, f, x, Selecting
    <3> QED
      BY <3>1, <3>2, <3>3
  <2> QED
    BY <2>1, <2>3, <2>4, <2>5 DEF Shape, InsertShape, SelectShape
<1>9. CASE r = <<"where", "WHERE", "operand", "none">>
  <2>1. at = "where" /\ r[3] = "operand" /\ r[4] = "none" /\ IsKeyword(t[k], "WHERE")
    <3>1. r[1] = "where" /\ r[2] = "WHERE" /\ r[3] = "operand" /\ r[4] = "none"
      BY <1>9
    <3> QED
      BY <3>1, MatchesOn DEF Keywords
  <2>2. PICK n \in Nat :
          k - 1 = From(n) + 1 /\ SelectTable(t, n) /\ st = Selecting(t, n)
    BY <2>1 DEF Shape, InsertShape, SelectShape
  <2>3. k = From(n) + 2
    BY <2>2 DEF From
  <2>4. Store(st, "none", x) = st
    BY DEF Store
  <2> QED
    BY <2>1, <2>2, <2>3, <2>4 DEF Shape, InsertShape, SelectShape
<1>10. CASE r = <<"operand", "identifier", "equals", "whereColumn">>
  <2>1. at = "operand" /\ r[3] = "equals" /\ r[4] = "whereColumn" /\ t[k].type = "identifier"
    <3>1. r[1] = "operand" /\ r[2] = "identifier" /\ r[3] = "equals" /\ r[4] = "whereColumn"
      BY <1>10
    <3> QED
      BY <3>1, MatchesOn
  <2>2. PICK n \in Nat :
          /\ k - 1 = From(n) + 2 /\ SelectTable(t, n) /\ IsKeyword(t[k - 1], "WHERE")
          /\ st = Selecting(t, n)
    BY <2>1 DEF Shape, InsertShape, SelectShape
  <2>3. k = From(n) + 3
    BY <2>2 DEF From
  <2>4. SelectTable(t, n) /\ IsKeyword(t[k - 1], "WHERE")
    BY <2>1, <2>2, <2>3 DEF From
  <2>5. Store(st, "whereColumn", x) = SelectOf(n = 0, Texts(t, 2, n), t[From(n) + 1].text, FALSE,
                    t[k].text, <<>>)
    <3> DEFINE a == n = 0
               b == Texts(t, 2, n)
               c == t[From(n) + 1].text
               d == FALSE
               e == <<>>
               f == <<>>
    <3> HIDE DEF a, b, c, d, e, f, x
    <3>1. Store(SelectOf(a, b, c, d, e, f), "whereColumn", x) = SelectOf(a, b, c, d, x, f)
      BY DEF Store, SelectOf, NoStatement
    <3>2. SelectOf(a, b, c, d, e, f) = st
      BY <2>2, <2>3, Zenon DEF a, b, c, d, e, f, Selecting
    <3>3. SelectOf(a, b, c, d, x, f) = SelectOf(n = 0, Texts(t, 2, n), t[From(n) + 1].text, FALSE,
                    t[k].text, <<>>)
      BY <2>2, <2>3, Zenon DEF a, b, c, d, e, f, x
    <3> QED
      BY <3>1, <3>2, <3>3
  <2> QED
    BY <2>1, <2>3, <2>4, <2>5 DEF Shape, InsertShape, SelectShape
<1>11. CASE r = <<"equals", "=", "literal", "none">>
  <2>1. at = "equals" /\ r[3] = "literal" /\ r[4] = "none" /\ t[k].type = "="
    <3>1. r[1] = "equals" /\ r[2] = "=" /\ r[3] = "literal" /\ r[4] = "none"
      BY <1>11
    <3> QED
      BY <3>1, MatchesOn
  <2>2. PICK n \in Nat :
          /\ k - 1 = From(n) + 3 /\ SelectTable(t, n) /\ IsKeyword(t[k - 1 - 1], "WHERE")
          /\ t[k - 1].type = "identifier"
          /\ st = SelectOf(n = 0, Texts(t, 2, n), t[From(n) + 1].text, FALSE,
                           t[k - 1].text, <<>>)
    BY <2>1 DEF Shape, InsertShape, SelectShape
  <2>3. k = From(n) + 4 /\ k - 1 - 1 = k - 2
    BY <2>2 DEF From
  <2>4. /\ SelectTable(t, n) /\ IsKeyword(t[k - 2], "WHERE")
        /\ t[k - 1].type = "identifier" /\ t[k].type = "="
    BY <2>1, <2>2, <2>3 DEF From
  <2>5. Store(st, "none", x) = SelectOf(n = 0, Texts(t, 2, n), t[From(n) + 1].text, FALSE,
                    t[k - 1].text, <<>>)
    <3> DEFINE a == n = 0
               b == Texts(t, 2, n)
               c == t[From(n) + 1].text
               d == FALSE
               e == t[k - 1].text
               f == <<>>
    <3> HIDE DEF a, b, c, d, e, f, x
    <3>1. Store(SelectOf(a, b, c, d, e, f), "none", x) = SelectOf(a, b, c, d, e, f)
      BY DEF Store, SelectOf, NoStatement
    <3>2. SelectOf(a, b, c, d, e, f) = st
      BY <2>2, <2>3, Zenon DEF a, b, c, d, e, f
    <3>3. SelectOf(a, b, c, d, e, f) = SelectOf(n = 0, Texts(t, 2, n), t[From(n) + 1].text, FALSE,
                    t[k - 1].text, <<>>)
      BY <2>2, <2>3, Zenon DEF a, b, c, d, e, f, x
    <3> QED
      BY <3>1, <3>2, <3>3
  <2>6. \E j \in Nat :
          /\ k = From(j) + 4 /\ SelectTable(t, j) /\ IsKeyword(t[k - 2], "WHERE")
          /\ t[k - 1].type = "identifier" /\ t[k].type = "="
          /\ Store(st, "none", x)
               = SelectOf(j = 0, Texts(t, 2, j), t[From(j) + 1].text, FALSE,
                          t[k - 1].text, <<>>)
    BY <2>3, <2>4, <2>5, Zenon
  <2> HIDE DEF x
  <2>7. SelectShape(t, k, "literal", Store(st, "none", x))
    BY <2>6, Zenon DEF SelectShape
  <2> QED
    BY <2>1, <2>7 DEF Shape, InsertShape, x
<1>12. CASE r = <<"literal", "value", "connector", "whereValue">>
  <2>1. at = "literal" /\ r[3] = "connector" /\ r[4] = "whereValue" /\ t[k].type \in ValueTypes
    <3>1. r[1] = "literal" /\ r[2] = "value" /\ r[3] = "connector" /\ r[4] = "whereValue"
      BY <1>12
    <3> QED
      BY <3>1, MatchesOn
  <2>2. PICK n \in Nat :
          /\ k - 1 = From(n) + 4 /\ SelectTable(t, n) /\ IsKeyword(t[k - 1 - 2], "WHERE")
          /\ t[k - 1 - 1].type = "identifier" /\ t[k - 1].type = "="
          /\ st = SelectOf(n = 0, Texts(t, 2, n), t[From(n) + 1].text, FALSE,
                           t[k - 1 - 1].text, <<>>)
    BY <2>1 DEF Shape, InsertShape, SelectShape
  <2>3. /\ k = From(n) + 5 /\ k - 1 = From(n) + 4 /\ k - 1 - 1 = From(n) + 3
        /\ k - 1 - 2 = From(n) + 2
    BY <2>2 DEF From
  <2>4. SelectWhere(t, n)
    BY <2>1, <2>2, <2>3 DEF SelectWhere
  <2>5. Store(st, "whereValue", x) = SelectingWhere(t, n)
    <3> DEFINE a == n = 0
               b == Texts(t, 2, n)
               c == t[From(n) + 1].text
               d == FALSE
               e == t[k - 1 - 1].text
               f == <<>>
    <3> HIDE DEF a, b, c, d, e, f, x
    <3>1. Store(SelectOf(a, b, c, d, e, f), "whereValue", x) = SelectOf(a, b, c, TRUE, e, x)
      BY DEF Store, SelectOf, NoStatement
    <3>2. SelectOf(a, b, c, d, e, f) = st
      BY <2>2, <2>3, Zenon DEF a, b, c, d, e, f
    <3>3. SelectOf(a, b, c, TRUE, e, x) = SelectingWhere(t, n)
      BY <2>2, <2>3, Zenon DEF a, b, c, d, e, f, x, SelectingWhere
    <3> QED
      BY <3>1, <3>2, <3>3
  <2> QED
    BY <2>1, <2>3, <2>4, <2>5 DEF Shape, InsertShape, SelectShape
<1> QED
  BY <1>1, <1>2, <1>3, <1>4, <1>5, <1>6, <1>7, <1>8, <1>9, <1>10, <1>11, <1>12 DEF SelectRules

\* The semicolon of parse_statement.
LEMMA SemicolonShapes ==
  ASSUME NEW t \in Seq(Tokens), NEW k \in 1 .. Len(t), NEW at, NEW st,
         Shape(t, k - 1, at, st),
         NEW r \in EndRules, r[1] = at, r[1] # "end", Matches(t[k], r[2])
  PROVE  Shape(t, k, r[3], Store(st, r[4], t[k].text))
<1> DEFINE x == t[k].text
<1> USE DEF Positive
<1>1. Store(st, "none", x) = st
  BY DEF Store
<1>2. CASE r = <<"where", Semicolon, "end", "none">>
  <2>1. at = "where" /\ r[3] = "end" /\ r[4] = "none" /\ t[k].type = Semicolon
    <3>1. r[1] = "where" /\ r[2] = Semicolon /\ r[3] = "end" /\ r[4] = "none"
      BY <1>2
    <3> QED
      BY <3>1, MatchesOn
  <2>2. PICK n \in Nat :
          k - 1 = From(n) + 1 /\ SelectTable(t, n) /\ st = Selecting(t, n)
    BY <2>1 DEF Shape, InsertShape, SelectShape
  <2>3. k = From(n) + 2
    BY <2>2 DEF From
  <2> QED
    BY <1>1, <2>1, <2>2, <2>3 DEF Shape, InsertShape, SelectShape
<1>3. CASE r = <<"connector", Semicolon, "end", "none">>
  <2>1. at = "connector" /\ r[3] = "end" /\ r[4] = "none" /\ t[k].type = Semicolon
    <3>1. r[1] = "connector" /\ r[2] = Semicolon /\ r[3] = "end" /\ r[4] = "none"
      BY <1>3
    <3> QED
      BY <3>1, MatchesOn
  <2>2. PICK n \in Nat :
          k - 1 = From(n) + 5 /\ SelectWhere(t, n) /\ st = SelectingWhere(t, n)
    BY <2>1 DEF Shape, InsertShape, SelectShape
  <2>3. k = From(n) + 6
    BY <2>2 DEF From
  <2> QED
    BY <1>1, <2>1, <2>2, <2>3 DEF Shape, InsertShape, SelectShape
<1>4. CASE r = <<"close", Semicolon, "end", "none">>
  <2>1. at = "close" /\ r[3] = "end" /\ r[4] = "none" /\ t[k].type = Semicolon
    <3>1. r[1] = "close" /\ r[2] = Semicolon /\ r[3] = "end" /\ r[4] = "none"
      BY <1>4
    <3> QED
      BY <3>1, MatchesOn
  <2>2. PICK n \in Positive, m \in Positive :
          /\ k - 1 = 6 + 2 * n + 2 * m /\ InsertValues(t, n, m) /\ t[k - 1].type = ")"
          /\ st = Inserting(t, n, m)
    BY <2>1 DEF Shape, InsertShape, SelectShape
  <2>3. k = 7 + 2 * n + 2 * m
    BY <2>2
  <2>4. \E i \in Positive, j \in Positive :
          /\ k = 7 + 2 * i + 2 * j /\ InsertValues(t, i, j) /\ t[k - 1].type = ")"
          /\ st = Inserting(t, i, j)
    BY <2>2, <2>3, Zenon
  <2> QED
    BY <1>1, <2>1, <2>4 DEF Shape, InsertShape, SelectShape
<1> QED
  BY <1>2, <1>3, <1>4 DEF EndRules

\* The rules at the end of parse_statement, over tokens of which only the last
\* one is the end.
LEMMA EndShapes ==
  ASSUME NEW t \in Seq(Tokens), NEW k \in 1 .. Len(t), NEW at, NEW st,
         Shape(t, k - 1, at, st),
         NEW r \in EndRules, r[1] = at, Matches(t[k], r[2]),
         \A i \in 1 .. Len(t) : t[i].type = "end" => i = Len(t)
  PROVE  Shape(t, k, r[3], Store(st, r[4], t[k].text))
<1> DEFINE x == t[k].text
<1> USE DEF Positive
<1>1. Store(st, "none", x) = st
  BY DEF Store
<1>2. CASE r = <<"end", "end", "done", "none">>
  <2>1. at = "end" /\ r[3] = "done" /\ r[4] = "none" /\ t[k].type = "end"
    <3>1. r[1] = "end" /\ r[2] = "end" /\ r[3] = "done" /\ r[4] = "none"
      BY <1>2
    <3> QED
      BY <3>1, MatchesOn
  <2>2. k = Len(t)
    BY <2>1
  <2>3. t[k - 1].type = Semicolon
    BY <2>1 DEF Shape
  <2>4. ASSUME NEW n \in Positive, NEW m \in Positive,
               k - 1 = 7 + 2 * n + 2 * m, InsertValues(t, n, m),
               t[k - 1 - 1].type = ")", st = Inserting(t, n, m)
        PROVE  st \in Readings(t)
    <3>1. /\ k = 8 + 2 * n + 2 * m /\ k - 1 = 7 + 2 * n + 2 * m
          /\ k - 1 - 1 = 6 + 2 * n + 2 * m
      BY <2>4
    <3>2. InsertSentence(t, n, m)
      BY <2>1, <2>2, <2>3, <2>4, <3>1 DEF InsertSentence
    <3> QED
      BY <2>4, <3>2, InsertSentences DEF Readings
  <2>5. ASSUME NEW n \in Nat, k - 1 = From(n) + 2, SelectTable(t, n), st = Selecting(t, n)
        PROVE  st \in Readings(t)
    <3>1. k = From(n) + 3
      BY <2>5 DEF From
    <3>2. SelectSentence(t, n)
      BY <2>1, <2>2, <2>3, <2>5, <3>1 DEF SelectSentence
    <3> QED
      BY <2>5, <3>2, SelectSentences DEF Readings
  <2>6. ASSUME NEW n \in Nat, k - 1 = From(n) + 6, SelectWhere(t, n),
               st = SelectingWhere(t, n)
        PROVE  st \in Readings(t)
    <3>1. k = From(n) + 7
      BY <2>6 DEF From
    <3>2. SelectWhereSentence(t, n)
      BY <2>1, <2>2, <2>3, <2>6, <3>1 DEF SelectWhereSentence
    <3> QED
      BY <2>6, <3>2, SelectSentences DEF Readings
  <2>7. st \in Readings(t)
    BY <2>1, <2>4, <2>5, <2>6 DEF Shape
  <2> QED
    BY <1>1, <2>1, <2>7 DEF Shape, InsertShape, SelectShape
<1>3. CASE r[1] # "end"
  BY <1>3, SemicolonShapes
<1> QED
  BY <1>2, <1>3 DEF EndRules

\* The record of the loop that parse_statement has made at its end.
LEMMA ParsedBy ==
  ASSUME NEW t \in Seq(Tokens)
  PROVE  \E f \in [0 .. Len(t) -> Parsers] :
           /\ f[0] = ParseStart /\ f[Len(t)] = Parsed(t)
           /\ \A i \in 1 .. Len(t) : f[i] = ParseToken(f[i - 1], t[i])
<1> DEFINE F == CHOOSE f : IsParsing(f, t)
           n == Len(t)
<1>1. Parsed(t) = F[n]
  BY DEF Parsed, Run, IsParsing
<1>2. PICK f \in [0 .. n -> Parsers] : IsParsing(f, t)
  BY ParsingExists
<1>3. IsParsing(F, t)
  BY <1>2
<1> HIDE DEF F
<1>4. f[n] = F[n]
  <2>1. n <= n
    OBVIOUS
  <2> QED
    BY <1>2, <1>3, <2>1, ParsingsAgree
<1>5. \A i \in 0 .. n : f[i] = IF i = 0 THEN ParseStart ELSE ParseToken(f[i - 1], t[i])
  BY <1>2, Zenon DEF IsParsing
<1>6. n \in Nat
  OBVIOUS
<1> HIDE DEF n
<1>7. f[0] = ParseStart
  <2>1. 0 \in 0 .. n
    BY <1>6
  <2> QED
    BY <1>5, <2>1, Zenon
<1>8. ASSUME NEW i \in 1 .. n
      PROVE  f[i] = ParseToken(f[i - 1], t[i])
  <2>1. i \in 0 .. n /\ i # 0
    BY <1>6
  <2> QED
    BY <1>5, <2>1, Zenon
<1> QED
  BY <1>1, <1>2, <1>4, <1>7, <1>8, Zenon DEF n

\* parse_statement accepts only sentences of the grammar: what it has read of
\* the tokens has the shape of its place.
LEMMA ParseSound ==
  ASSUME NEW t \in Seq(Tokens),
         \A i \in 1 .. Len(t) : t[i].type = "end" => i = Len(t),
         Parsed(t).at = "done"
  PROVE  Parsed(t).statement \in Readings(t)
<1> DEFINE n == Len(t)
<1>1. PICK f \in [0 .. n -> Parsers] :
        /\ f[0] = ParseStart /\ f[n] = Parsed(t)
        /\ \A i \in 1 .. n : f[i] = ParseToken(f[i - 1], t[i])
  BY ParsedBy
<1> DEFINE T == {k \in 0 .. n : Shape(t, k, f[k].at, f[k].statement)}
<1>2. n \in Nat
  OBVIOUS
<1> HIDE DEF n
<1>3. 0 \in T
  <2>1. f[0].at = "start" /\ f[0].statement = NoStatement
    BY <1>1 DEF ParseStart
  <2>2. Shape(t, 0, f[0].at, f[0].statement)
    BY <2>1 DEF Shape, InsertShape, SelectShape
  <2> QED
    BY <1>2, <2>2
<1>4. ASSUME NEW k \in 1 .. n, k - 1 \in T
      PROVE  k \in T
  <2> DEFINE old == f[k - 1]
             at == old.at
             st == old.statement
  <2>1. k \in 0 .. n /\ k \in 1 .. Len(t)
    BY <1>2 DEF n
  <2>2. f[k] = ParseToken(old, t[k])
    BY <1>1
  <2>3. Shape(t, k - 1, at, st)
    BY <1>4
  <2> SUFFICES Shape(t, k, f[k].at, f[k].statement)
    BY <2>1
  <2> HIDE DEF old, T
  <2>4. CASE at \in {"unsupported", "error", "done"}
    <3>1. f[k] = old
      BY <2>2, <2>4 DEF ParseToken
    <3>2. at = "done" => st \in Readings(t)
      BY <2>3 DEF Shape
    <3> QED
      BY <2>4, <3>1, <3>2 DEF Shape, InsertShape, SelectShape
  <2>5. CASE at \notin {"unsupported", "error", "done"}
    <3>1. CASE f[k].at \in {"unsupported", "error"}
      BY <3>1 DEF Shape, InsertShape, SelectShape
    <3>2. ASSUME NEW r \in Rules, r[1] = at, Matches(t[k], r[2])
          PROVE  Shape(t, k, f[k].at, f[k].statement)
      <4>1. f[k] = [at |-> r[3], statement |-> Store(st, r[4], t[k].text)]
        BY <2>2, <2>5, <3>2, ParseSteps
      <4>2. Shape(t, k, r[3], Store(st, r[4], t[k].text))
        <5> HIDE DEF at, st
        <5> QED
          BY <2>1, <2>3, <3>2, InsertShapes, SelectShapes, EndShapes DEF Rules
      <4> QED
        BY <4>1, <4>2
    <3> QED
      BY <2>2, <2>5, <3>1, <3>2, ParseSteps
  <2> QED
    BY <2>4, <2>5
<1> HIDE DEF T
<1>5. \A k \in 0 .. n : k \in T
  BY <1>2, <1>3, <1>4, InductionTo
<1>6. n \in T
  BY <1>2, <1>5
<1> QED
  BY <1>1, <1>6 DEF T, Shape

(* Completeness: a sentence takes parse_statement from place to place to its *)
(* end.  f[k] is the state after k tokens.                                   *)

\* Where a token of an INSERT leads.
InsertMoves(f, t) ==
  \A k \in 1 .. Len(t) :
    /\ f[k - 1].at = "start" /\ IsKeyword(t[k], "INSERT") => f[k].at = "into"
    /\ f[k - 1].at = "into" /\ IsKeyword(t[k], "INTO") => f[k].at = "table"
    /\ f[k - 1].at = "table" /\ t[k].type = "identifier" => f[k].at = "columns"
    /\ f[k - 1].at = "columns" /\ t[k].type = "(" => f[k].at = "column"
    /\ f[k - 1].at = "column" /\ t[k].type = "identifier" => f[k].at = "pastColumn"
    /\ f[k - 1].at = "pastColumn" /\ t[k].type = Comma => f[k].at = "column"
    /\ f[k - 1].at = "pastColumn" /\ t[k].type = ")" => f[k].at = "values"
    /\ f[k - 1].at = "values" /\ IsKeyword(t[k], "VALUES") => f[k].at = "tuple"
    /\ f[k - 1].at = "tuple" /\ t[k].type = "(" => f[k].at = "value"
    /\ f[k - 1].at = "value" /\ t[k].type \in ValueTypes => f[k].at = "pastValue"
    /\ f[k - 1].at = "pastValue" /\ t[k].type = Comma => f[k].at = "value"
    /\ f[k - 1].at = "pastValue" /\ t[k].type = ")" => f[k].at = "close"

\* The same for a SELECT.
SelectMoves(f, t) ==
  \A k \in 1 .. Len(t) :
    /\ f[k - 1].at = "start" /\ IsKeyword(t[k], "SELECT") => f[k].at = "select"
    /\ f[k - 1].at = "select" /\ t[k].type = "*" => f[k].at = "from"
    /\ f[k - 1].at = "select" /\ t[k].type = "identifier" => f[k].at = "pastSelected"
    /\ f[k - 1].at = "pastSelected" /\ t[k].type = Comma => f[k].at = "selected"
    /\ f[k - 1].at = "selected" /\ t[k].type = "identifier" => f[k].at = "pastSelected"
    /\ f[k - 1].at = "pastSelected" /\ IsKeyword(t[k], "FROM") => f[k].at = "source"
    /\ f[k - 1].at = "from" /\ IsKeyword(t[k], "FROM") => f[k].at = "source"
    /\ f[k - 1].at = "source" /\ t[k].type = "identifier" => f[k].at = "where"
    /\ f[k - 1].at = "where" /\ IsKeyword(t[k], "WHERE") => f[k].at = "operand"
    /\ f[k - 1].at = "operand" /\ t[k].type = "identifier" => f[k].at = "equals"
    /\ f[k - 1].at = "equals" /\ t[k].type = "=" => f[k].at = "literal"
    /\ f[k - 1].at = "literal" /\ t[k].type \in ValueTypes => f[k].at = "connector"

\* The same for the end of a statement.
EndMoves(f, t) ==
  \A k \in 1 .. Len(t) :
    /\ f[k - 1].at = "where" /\ t[k].type = Semicolon => f[k].at = "end"
    /\ f[k - 1].at = "connector" /\ t[k].type = Semicolon => f[k].at = "end"
    /\ f[k - 1].at = "close" /\ t[k].type = Semicolon => f[k].at = "end"
    /\ f[k - 1].at = "end" /\ t[k].type = "end" => f[k].at = "done"

\* No rule leaves a place where parse_statement has stopped.
LEMMA RulesGoOn ==
  \A r \in Rules : r[1] \notin {"unsupported", "error", "done"}
<1>1. \A r \in InsertRules : r[1] \notin {"unsupported", "error", "done"}
  BY DEF InsertRules
<1>2. \A r \in SelectRules : r[1] \notin {"unsupported", "error", "done"}
  BY DEF SelectRules
<1>3. \A r \in EndRules : r[1] \notin {"unsupported", "error", "done"}
  BY DEF EndRules
<1> QED
  BY <1>1, <1>2, <1>3 DEF Rules

\* parse_statement moves as its rules say.
LEMMA ParseMoves ==
  ASSUME NEW t \in Seq(Tokens), NEW f,
         \A i \in 1 .. Len(t) : f[i] = ParseToken(f[i - 1], t[i])
  PROVE  InsertMoves(f, t) /\ SelectMoves(f, t) /\ EndMoves(f, t)
<1> SUFFICES ASSUME NEW k \in 1 .. Len(t)
             PROVE  /\ InsertMoves(f, t)!(k)
                    /\ SelectMoves(f, t)!(k)
                    /\ EndMoves(f, t)!(k)
  BY DEF InsertMoves, SelectMoves, EndMoves
<1> DEFINE old == f[k - 1]
<1>1. f[k] = ParseToken(old, t[k])
  OBVIOUS
<1> HIDE DEF old
<1>2. ASSUME NEW r \in Rules, old.at = r[1], Matches(t[k], r[2])
      PROVE  f[k].at = r[3]
  <2>1. old.at \notin {"unsupported", "error", "done"}
    BY <1>2, RulesGoOn
  <2>2. f[k] = [at |-> r[3], statement |-> Store(old.statement, r[4], t[k].text)]
    BY <1>1, <1>2, <2>1, ParseSteps
  <2> QED
    BY <2>2
<1>3. ASSUME NEW a, NEW on, NEW to, NEW field, <<a, on, to, field>> \in Rules,
             old.at = a, Matches(t[k], on)
      PROVE  f[k].at = to
  <2> DEFINE r == <<a, on, to, field>>
  <2>1. r[1] = a /\ r[2] = on /\ r[3] = to
    OBVIOUS
  <2> HIDE DEF r
  <2>2. r \in Rules /\ old.at = r[1] /\ Matches(t[k], r[2])
    BY <1>3, <2>1 DEF r
  <2> QED
    BY <1>2, <2>1, <2>2
<1>4. InsertMoves(f, t)!(k)
  <2>1. old.at = "start" /\ IsKeyword(t[k], "INSERT") => f[k].at = "into"
    <3>1. <<"start", "INSERT", "into", "insert">> \in Rules
      BY DEF Rules, InsertRules
    <3>2. IsKeyword(t[k], "INSERT") => Matches(t[k], "INSERT")
      BY MatchesOn DEF Keywords
    <3> QED
      BY <1>3, <3>1, <3>2, Zenon
  <2>2. old.at = "into" /\ IsKeyword(t[k], "INTO") => f[k].at = "table"
    <3>1. <<"into", "INTO", "table", "none">> \in Rules
      BY DEF Rules, InsertRules
    <3>2. IsKeyword(t[k], "INTO") => Matches(t[k], "INTO")
      BY MatchesOn DEF Keywords
    <3> QED
      BY <1>3, <3>1, <3>2, Zenon
  <2>3. old.at = "table" /\ t[k].type = "identifier" => f[k].at = "columns"
    <3>1. <<"table", "identifier", "columns", "table">> \in Rules
      BY DEF Rules, InsertRules
    <3>2. t[k].type = "identifier" => Matches(t[k], "identifier")
      BY MatchesOn
    <3> QED
      BY <1>3, <3>1, <3>2, Zenon
  <2>4. old.at = "columns" /\ t[k].type = "(" => f[k].at = "column"
    <3>1. <<"columns", "(", "column", "none">> \in Rules
      BY DEF Rules, InsertRules
    <3>2. t[k].type = "(" => Matches(t[k], "(")
      BY MatchesOn
    <3> QED
      BY <1>3, <3>1, <3>2, Zenon
  <2>5. old.at = "column" /\ t[k].type = "identifier" => f[k].at = "pastColumn"
    <3>1. <<"column", "identifier", "pastColumn", "columns">> \in Rules
      BY DEF Rules, InsertRules
    <3>2. t[k].type = "identifier" => Matches(t[k], "identifier")
      BY MatchesOn
    <3> QED
      BY <1>3, <3>1, <3>2, Zenon
  <2>6. old.at = "pastColumn" /\ t[k].type = Comma => f[k].at = "column"
    <3>1. <<"pastColumn", Comma, "column", "none">> \in Rules
      BY DEF Rules, InsertRules
    <3>2. t[k].type = Comma => Matches(t[k], Comma)
      BY MatchesOn
    <3> QED
      BY <1>3, <3>1, <3>2, Zenon
  <2>7. old.at = "pastColumn" /\ t[k].type = ")" => f[k].at = "values"
    <3>1. <<"pastColumn", ")", "values", "none">> \in Rules
      BY DEF Rules, InsertRules
    <3>2. t[k].type = ")" => Matches(t[k], ")")
      BY MatchesOn
    <3> QED
      BY <1>3, <3>1, <3>2, Zenon
  <2>8. old.at = "values" /\ IsKeyword(t[k], "VALUES") => f[k].at = "tuple"
    <3>1. <<"values", "VALUES", "tuple", "none">> \in Rules
      BY DEF Rules, InsertRules
    <3>2. IsKeyword(t[k], "VALUES") => Matches(t[k], "VALUES")
      BY MatchesOn DEF Keywords
    <3> QED
      BY <1>3, <3>1, <3>2, Zenon
  <2>9. old.at = "tuple" /\ t[k].type = "(" => f[k].at = "value"
    <3>1. <<"tuple", "(", "value", "none">> \in Rules
      BY DEF Rules, InsertRules
    <3>2. t[k].type = "(" => Matches(t[k], "(")
      BY MatchesOn
    <3> QED
      BY <1>3, <3>1, <3>2, Zenon
  <2>10. old.at = "value" /\ t[k].type \in ValueTypes => f[k].at = "pastValue"
    <3>1. <<"value", "value", "pastValue", "values">> \in Rules
      BY DEF Rules, InsertRules
    <3>2. t[k].type \in ValueTypes => Matches(t[k], "value")
      BY MatchesOn
    <3> QED
      BY <1>3, <3>1, <3>2, Zenon
  <2>11. old.at = "pastValue" /\ t[k].type = Comma => f[k].at = "value"
    <3>1. <<"pastValue", Comma, "value", "none">> \in Rules
      BY DEF Rules, InsertRules
    <3>2. t[k].type = Comma => Matches(t[k], Comma)
      BY MatchesOn
    <3> QED
      BY <1>3, <3>1, <3>2, Zenon
  <2>12. old.at = "pastValue" /\ t[k].type = ")" => f[k].at = "close"
    <3>1. <<"pastValue", ")", "close", "none">> \in Rules
      BY DEF Rules, InsertRules
    <3>2. t[k].type = ")" => Matches(t[k], ")")
      BY MatchesOn
    <3> QED
      BY <1>3, <3>1, <3>2, Zenon
  <2> QED
    BY <2>1, <2>2, <2>3, <2>4, <2>5, <2>6, <2>7, <2>8, <2>9, <2>10, <2>11, <2>12, Zenon DEF old
<1>5. SelectMoves(f, t)!(k)
  <2>1. old.at = "start" /\ IsKeyword(t[k], "SELECT") => f[k].at = "select"
    <3>1. <<"start", "SELECT", "select", "select">> \in Rules
      BY DEF Rules, SelectRules
    <3>2. IsKeyword(t[k], "SELECT") => Matches(t[k], "SELECT")
      BY MatchesOn DEF Keywords
    <3> QED
      BY <1>3, <3>1, <3>2, Zenon
  <2>2. old.at = "select" /\ t[k].type = "*" => f[k].at = "from"
    <3>1. <<"select", "*", "from", "all">> \in Rules
      BY DEF Rules, SelectRules
    <3>2. t[k].type = "*" => Matches(t[k], "*")
      BY MatchesOn
    <3> QED
      BY <1>3, <3>1, <3>2, Zenon
  <2>3. old.at = "select" /\ t[k].type = "identifier" => f[k].at = "pastSelected"
    <3>1. <<"select", "identifier", "pastSelected", "columns">> \in Rules
      BY DEF Rules, SelectRules
    <3>2. t[k].type = "identifier" => Matches(t[k], "identifier")
      BY MatchesOn
    <3> QED
      BY <1>3, <3>1, <3>2, Zenon
  <2>4. old.at = "pastSelected" /\ t[k].type = Comma => f[k].at = "selected"
    <3>1. <<"pastSelected", Comma, "selected", "none">> \in Rules
      BY DEF Rules, SelectRules
    <3>2. t[k].type = Comma => Matches(t[k], Comma)
      BY MatchesOn
    <3> QED
      BY <1>3, <3>1, <3>2, Zenon
  <2>5. old.at = "selected" /\ t[k].type = "identifier" => f[k].at = "pastSelected"
    <3>1. <<"selected", "identifier", "pastSelected", "columns">> \in Rules
      BY DEF Rules, SelectRules
    <3>2. t[k].type = "identifier" => Matches(t[k], "identifier")
      BY MatchesOn
    <3> QED
      BY <1>3, <3>1, <3>2, Zenon
  <2>6. old.at = "pastSelected" /\ IsKeyword(t[k], "FROM") => f[k].at = "source"
    <3>1. <<"pastSelected", "FROM", "source", "none">> \in Rules
      BY DEF Rules, SelectRules
    <3>2. IsKeyword(t[k], "FROM") => Matches(t[k], "FROM")
      BY MatchesOn DEF Keywords
    <3> QED
      BY <1>3, <3>1, <3>2, Zenon
  <2>7. old.at = "from" /\ IsKeyword(t[k], "FROM") => f[k].at = "source"
    <3>1. <<"from", "FROM", "source", "none">> \in Rules
      BY DEF Rules, SelectRules
    <3>2. IsKeyword(t[k], "FROM") => Matches(t[k], "FROM")
      BY MatchesOn DEF Keywords
    <3> QED
      BY <1>3, <3>1, <3>2, Zenon
  <2>8. old.at = "source" /\ t[k].type = "identifier" => f[k].at = "where"
    <3>1. <<"source", "identifier", "where", "table">> \in Rules
      BY DEF Rules, SelectRules
    <3>2. t[k].type = "identifier" => Matches(t[k], "identifier")
      BY MatchesOn
    <3> QED
      BY <1>3, <3>1, <3>2, Zenon
  <2>9. old.at = "where" /\ IsKeyword(t[k], "WHERE") => f[k].at = "operand"
    <3>1. <<"where", "WHERE", "operand", "none">> \in Rules
      BY DEF Rules, SelectRules
    <3>2. IsKeyword(t[k], "WHERE") => Matches(t[k], "WHERE")
      BY MatchesOn DEF Keywords
    <3> QED
      BY <1>3, <3>1, <3>2, Zenon
  <2>10. old.at = "operand" /\ t[k].type = "identifier" => f[k].at = "equals"
    <3>1. <<"operand", "identifier", "equals", "whereColumn">> \in Rules
      BY DEF Rules, SelectRules
    <3>2. t[k].type = "identifier" => Matches(t[k], "identifier")
      BY MatchesOn
    <3> QED
      BY <1>3, <3>1, <3>2, Zenon
  <2>11. old.at = "equals" /\ t[k].type = "=" => f[k].at = "literal"
    <3>1. <<"equals", "=", "literal", "none">> \in Rules
      BY DEF Rules, SelectRules
    <3>2. t[k].type = "=" => Matches(t[k], "=")
      BY MatchesOn
    <3> QED
      BY <1>3, <3>1, <3>2, Zenon
  <2>12. old.at = "literal" /\ t[k].type \in ValueTypes => f[k].at = "connector"
    <3>1. <<"literal", "value", "connector", "whereValue">> \in Rules
      BY DEF Rules, SelectRules
    <3>2. t[k].type \in ValueTypes => Matches(t[k], "value")
      BY MatchesOn
    <3> QED
      BY <1>3, <3>1, <3>2, Zenon
  <2> QED
    BY <2>1, <2>2, <2>3, <2>4, <2>5, <2>6, <2>7, <2>8, <2>9, <2>10, <2>11, <2>12, Zenon DEF old
<1>6. EndMoves(f, t)!(k)
  <2>1. old.at = "where" /\ t[k].type = Semicolon => f[k].at = "end"
    <3>1. <<"where", Semicolon, "end", "none">> \in Rules
      BY DEF Rules, EndRules
    <3>2. t[k].type = Semicolon => Matches(t[k], Semicolon)
      BY MatchesOn
    <3> QED
      BY <1>3, <3>1, <3>2, Zenon
  <2>2. old.at = "connector" /\ t[k].type = Semicolon => f[k].at = "end"
    <3>1. <<"connector", Semicolon, "end", "none">> \in Rules
      BY DEF Rules, EndRules
    <3>2. t[k].type = Semicolon => Matches(t[k], Semicolon)
      BY MatchesOn
    <3> QED
      BY <1>3, <3>1, <3>2, Zenon
  <2>3. old.at = "close" /\ t[k].type = Semicolon => f[k].at = "end"
    <3>1. <<"close", Semicolon, "end", "none">> \in Rules
      BY DEF Rules, EndRules
    <3>2. t[k].type = Semicolon => Matches(t[k], Semicolon)
      BY MatchesOn
    <3> QED
      BY <1>3, <3>1, <3>2, Zenon
  <2>4. old.at = "end" /\ t[k].type = "end" => f[k].at = "done"
    <3>1. <<"end", "end", "done", "none">> \in Rules
      BY DEF Rules, EndRules
    <3>2. t[k].type = "end" => Matches(t[k], "end")
      BY MatchesOn
    <3> QED
      BY <1>3, <3>1, <3>2, Zenon
  <2> QED
    BY <2>1, <2>2, <2>3, <2>4, Zenon DEF old
<1> QED
  BY <1>4, <1>5, <1>6

\* Entries of some types lead from one place to another, and commas back.
Alternates(f, t, entry, past, types) ==
  \A k \in 1 .. Len(t) :
    /\ f[k - 1].at = entry /\ t[k].type \in types => f[k].at = past
    /\ f[k - 1].at = past /\ t[k].type = Comma => f[k].at = entry

\* A list of entries leads to the place past its last entry.
LEMMA ListGoes ==
  ASSUME NEW t \in Seq(Tokens), NEW f, NEW first \in Nat, NEW n \in Nat, NEW types,
         NEW entry, NEW past,
         first > 0, n > 0, first + 2 * (n - 1) <= Len(t), ListAt(t, first, n, types),
         f[first].at = past, Alternates(f, t, entry, past, types)
  PROVE  f[first + 2 * (n - 1)].at = past
<1> DEFINE T == {i \in 0 .. n - 1 : f[first + 2 * i].at = past}
<1>1. n - 1 \in Nat /\ Len(t) \in Nat
  OBVIOUS
<1>2. 0 \in T
  <2>1. first + 2 * 0 = first /\ 0 \in 0 .. n - 1
    OBVIOUS
  <2> QED
    BY <2>1, Zenon
<1>3. ASSUME NEW i \in 1 .. n - 1, i - 1 \in T
      PROVE  i \in T
  <2> DEFINE k == first + 2 * i - 1
             j == first + 2 * i
  <2>1. /\ k \in 1 .. Len(t) /\ j \in 1 .. Len(t) /\ j - 1 = k
        /\ k - 1 = first + 2 * (i - 1) /\ i \in 0 .. n - 1
    BY <1>1
  <2>2. f[k - 1].at = past
    BY <1>3, <2>1, Zenon
  <2>3. t[k].type = Comma /\ t[j].type \in types
    BY <2>1 DEF ListAt
  <2> HIDE DEF k, j
  <2>4. f[k].at = entry
    BY <2>1, <2>2, <2>3 DEF Alternates
  <2>5. f[j].at = past
    BY <2>1, <2>3, <2>4 DEF Alternates
  <2> QED
    BY <2>1, <2>5 DEF j
<1>4. n - 1 \in T
  <2> HIDE DEF T
  <2>1. \A i \in 0 .. n - 1 : i \in T
    BY <1>1, <1>2, <1>3, InductionTo
  <2> QED
    BY <1>1, <2>1
<1> QED
  BY <1>4

\* An INSERT leads parse_statement to its end.
LEMMA InsertGoes ==
  ASSUME NEW t \in Seq(Tokens), NEW f, NEW n \in Positive, NEW m \in Positive,
         f[0] = ParseStart, InsertMoves(f, t), EndMoves(f, t), InsertSentence(t, n, m)
  PROVE  f[Len(t)].at = "done"
<1> DEFINE a == 3 + 2 * n
           b == 7 + 2 * n
           c == 5 + 2 * n + 2 * m
           L == Len(t)
<1>0. n \in Nat /\ n > 0 /\ m \in Nat /\ m > 0 /\ L = 8 + 2 * n + 2 * m /\ L \in Nat
  BY DEF Positive, InsertSentence
<1>1. /\ IsKeyword(t[1], "INSERT") /\ IsKeyword(t[2], "INTO")
      /\ t[3].type = "identifier" /\ t[4].type = "("
      /\ ListAt(t, 5, n, {"identifier"})
      /\ t[4 + 2 * n].type = ")" /\ IsKeyword(t[5 + 2 * n], "VALUES")
      /\ t[6 + 2 * n].type = "(" /\ ListAt(t, 7 + 2 * n, m, ValueTypes)
      /\ t[6 + 2 * n + 2 * m].type = ")" /\ t[7 + 2 * n + 2 * m].type = Semicolon
      /\ t[8 + 2 * n + 2 * m].type = "end"
  BY DEF InsertSentence, InsertValues, InsertColumns
<1>2. t[5].type = "identifier" /\ t[b].type \in ValueTypes
  <2>1. 0 \in 0 .. n - 1 /\ 0 \in 0 .. m - 1 /\ 5 + 2 * 0 = 5 /\ b + 2 * 0 = b
    BY <1>0
  <2> QED
    BY <1>1, <2>1, Zenon DEF ListAt
<1>3. f[4].at = "column"
  <2>1. /\ 1 \in 1 .. L /\ 2 \in 1 .. L /\ 3 \in 1 .. L /\ 4 \in 1 .. L
        /\ 1 - 1 = 0 /\ 2 - 1 = 1 /\ 3 - 1 = 2 /\ 4 - 1 = 3
    BY <1>0
  <2>2. f[0].at = "start"
    BY DEF ParseStart
  <2>3. f[1].at = "into"
    BY <1>1, <2>1, <2>2, Zenon DEF InsertMoves
  <2>4. f[2].at = "table"
    BY <1>1, <2>1, <2>3, Zenon DEF InsertMoves
  <2>5. f[3].at = "columns"
    BY <1>1, <2>1, <2>4, Zenon DEF InsertMoves
  <2> QED
    BY <1>1, <2>1, <2>5, Zenon DEF InsertMoves
<1>4. f[5].at = "pastColumn"
  <2>1. 5 \in 1 .. L /\ 5 - 1 = 4
    BY <1>0
  <2> QED
    BY <1>2, <1>3, <2>1, Zenon DEF InsertMoves
<1>5. f[a].at = "pastColumn"
  <2> DEFINE first == 5
  <2>1. /\ first \in Nat /\ first > 0 /\ first + 2 * (n - 1) = a /\ a <= Len(t)
        /\ ListAt(t, first, n, {"identifier"}) /\ f[first].at = "pastColumn"
    BY <1>0, <1>1, <1>4
  <2>2. Alternates(f, t, "column", "pastColumn", {"identifier"})
    BY DEF InsertMoves, Alternates
  <2> HIDE DEF first, a
  <2>3. first + 2 * (n - 1) <= Len(t)
    BY <2>1
  <2>4. f[first + 2 * (n - 1)].at = "pastColumn"
    BY <1>0, <2>1, <2>2, <2>3, ListGoes
  <2> QED
    BY <2>1, <2>4
<1>6. f[6 + 2 * n].at = "value"
  <2>1. /\ 4 + 2 * n \in 1 .. L /\ 5 + 2 * n \in 1 .. L /\ 6 + 2 * n \in 1 .. L
        /\ (4 + 2 * n) - 1 = a /\ (5 + 2 * n) - 1 = 4 + 2 * n
        /\ (6 + 2 * n) - 1 = 5 + 2 * n
    BY <1>0
  <2>2. f[4 + 2 * n].at = "values"
    BY <1>1, <1>5, <2>1, Zenon DEF InsertMoves
  <2>3. f[5 + 2 * n].at = "tuple"
    BY <1>1, <2>1, <2>2, Zenon DEF InsertMoves
  <2> QED
    BY <1>1, <2>1, <2>3, Zenon DEF InsertMoves
<1>7. f[b].at = "pastValue"
  <2>1. b \in 1 .. L /\ b - 1 = 6 + 2 * n
    BY <1>0
  <2> QED
    BY <1>2, <1>6, <2>1, Zenon DEF InsertMoves
<1>8. f[c].at = "pastValue"
  <2>1. /\ b \in Nat /\ b > 0 /\ b + 2 * (m - 1) = c /\ c <= Len(t)
        /\ ListAt(t, b, m, ValueTypes)
    BY <1>0, <1>1
  <2>2. Alternates(f, t, "value", "pastValue", ValueTypes)
    BY DEF InsertMoves, Alternates
  <2> HIDE DEF b, c
  <2>3. b + 2 * (m - 1) <= Len(t)
    BY <2>1
  <2>4. f[b + 2 * (m - 1)].at = "pastValue"
    BY <1>0, <1>7, <2>1, <2>2, <2>3, ListGoes
  <2> QED
    BY <2>1, <2>4
<1>9. f[8 + 2 * n + 2 * m].at = "done"
  <2>1. /\ 6 + 2 * n + 2 * m \in 1 .. L /\ (6 + 2 * n + 2 * m) - 1 = c
        /\ 7 + 2 * n + 2 * m \in 1 .. L /\ (7 + 2 * n + 2 * m) - 1 = 6 + 2 * n + 2 * m
        /\ 8 + 2 * n + 2 * m \in 1 .. L /\ (8 + 2 * n + 2 * m) - 1 = 7 + 2 * n + 2 * m
    BY <1>0
  <2>2. f[6 + 2 * n + 2 * m].at = "close"
    BY <1>1, <1>8, <2>1, Zenon DEF InsertMoves
  <2>3. f[7 + 2 * n + 2 * m].at = "end"
    BY <1>1, <2>1, <2>2, Zenon DEF EndMoves
  <2> QED
    BY <1>1, <2>1, <2>3, Zenon DEF EndMoves
<1> QED
  BY <1>0, <1>9

\* SELECT, what is selected, FROM and the table.
LEMMA SelectGoes ==
  ASSUME NEW t \in Seq(Tokens), NEW f, NEW n \in Nat,
         f[0] = ParseStart, SelectMoves(f, t), SelectTable(t, n), From(n) + 1 <= Len(t)
  PROVE  f[From(n) + 1].at = "where"
<1> DEFINE L == Len(t)
           from == From(n)
<1>0. L \in Nat /\ from \in Nat /\ from > 2 /\ 1 \in 1 .. L /\ 2 \in 1 .. L /\ 1 - 1 = 0 /\ 2 - 1 = 1
  BY DEF From
<1>1. f[1].at = "select"
  <2>1. f[0].at = "start" /\ IsKeyword(t[1], "SELECT")
    BY DEF ParseStart, SelectTable, SelectFrom
  <2> QED
    BY <1>0, <2>1, Zenon DEF SelectMoves
<1>2. from \in 1 .. L /\ IsKeyword(t[from], "FROM")
  BY <1>0 DEF SelectTable, SelectFrom
<1>3. f[from].at = "source"
  <2>1. CASE n = 0
    <3>1. t[2].type = "*" /\ from = 3 /\ from - 1 = 2
      BY <2>1 DEF SelectTable, SelectFrom, From
    <3>2. f[2].at = "from"
      BY <1>0, <1>1, <3>1, Zenon DEF SelectMoves
    <3> QED
      BY <1>2, <3>1, <3>2, Zenon DEF SelectMoves
  <2>2. CASE n # 0
    <3>1. n > 0 /\ from - 1 = 2 * n /\ ListAt(t, 2, n, {"identifier"})
      BY <2>2 DEF SelectTable, SelectFrom, From
    <3>2. t[2].type = "identifier"
      <4>1. 0 \in 0 .. n - 1 /\ 2 + 2 * 0 = 2
        BY <3>1
      <4> QED
        BY <3>1, <4>1, Zenon DEF ListAt
    <3>3. f[2].at = "pastSelected"
      BY <1>0, <1>1, <3>2, Zenon DEF SelectMoves
    <3>4. f[2 * n].at = "pastSelected"
      <4> DEFINE first == 2
                 a == 2 * n
      <4>1. /\ first \in Nat /\ first > 0 /\ first + 2 * (n - 1) = a /\ a <= Len(t)
            /\ ListAt(t, first, n, {"identifier"}) /\ f[first].at = "pastSelected"
        BY <1>0, <1>2, <3>1, <3>3
      <4>2. Alternates(f, t, "selected", "pastSelected", {"identifier"})
        BY DEF SelectMoves, Alternates
      <4> HIDE DEF first, a
      <4>3. first + 2 * (n - 1) <= Len(t)
        BY <4>1
      <4>4. f[first + 2 * (n - 1)].at = "pastSelected"
        BY <3>1, <4>1, <4>2, <4>3, ListGoes
      <4>5. f[a].at = "pastSelected"
        BY <4>1, <4>4
      <4> QED
        BY <4>5 DEF a
    <3> QED
      BY <1>2, <3>1, <3>4, Zenon DEF SelectMoves
  <2> QED
    BY <2>1, <2>2
<1>4. from + 1 \in 1 .. L /\ (from + 1) - 1 = from /\ t[from + 1].type = "identifier"
  BY <1>0 DEF SelectTable
<1> QED
  BY <1>3, <1>4, Zenon DEF SelectMoves

\* A SELECT leads parse_statement to its end.
LEMMA SelectsGo ==
  ASSUME NEW t \in Seq(Tokens), NEW f, NEW n \in Nat,
         f[0] = ParseStart, SelectMoves(f, t), EndMoves(f, t),
         SelectSentence(t, n) \/ SelectWhereSentence(t, n)
  PROVE  f[Len(t)].at = "done"
<1> DEFINE L == Len(t)
           from == From(n)
<1>0. L \in Nat /\ from \in Nat /\ from > 2
  BY DEF From
<1>1. CASE SelectSentence(t, n)
  <2>1. /\ L = from + 3 /\ SelectTable(t, n)
        /\ t[from + 2].type = Semicolon /\ t[from + 3].type = "end"
    BY <1>1 DEF SelectSentence
  <2>2. /\ from + 1 <= Len(t)
        /\ from + 2 \in 1 .. L /\ (from + 2) - 1 = from + 1
        /\ from + 3 \in 1 .. L /\ (from + 3) - 1 = from + 2
    BY <1>0, <2>1
  <2>3. f[from + 1].at = "where"
    BY <2>1, <2>2, SelectGoes
  <2>4. f[from + 2].at = "end"
    BY <2>1, <2>2, <2>3, Zenon DEF EndMoves
  <2>5. f[from + 3].at = "done"
    BY <2>1, <2>2, <2>4, Zenon DEF EndMoves
  <2> QED
    BY <2>1, <2>5
<1>2. CASE SelectWhereSentence(t, n)
  <2>1. /\ L = from + 7 /\ SelectTable(t, n) /\ IsKeyword(t[from + 2], "WHERE")
        /\ t[from + 3].type = "identifier" /\ t[from + 4].type = "="
        /\ t[from + 5].type \in ValueTypes
        /\ t[from + 6].type = Semicolon /\ t[from + 7].type = "end"
    BY <1>2 DEF SelectWhereSentence, SelectWhere
  <2>2. /\ from + 1 <= Len(t)
        /\ from + 2 \in 1 .. L /\ (from + 2) - 1 = from + 1
        /\ from + 3 \in 1 .. L /\ (from + 3) - 1 = from + 2
        /\ from + 4 \in 1 .. L /\ (from + 4) - 1 = from + 3
        /\ from + 5 \in 1 .. L /\ (from + 5) - 1 = from + 4
        /\ from + 6 \in 1 .. L /\ (from + 6) - 1 = from + 5
        /\ from + 7 \in 1 .. L /\ (from + 7) - 1 = from + 6
    <3>1. L = from + 7 /\ L = Len(t)
      BY <2>1
    <3> HIDE DEF L, from
    <3>2. L \in Nat /\ from \in Nat
      BY <1>0
    <3> QED
      BY <3>1, <3>2
  <2>3. f[from + 1].at = "where"
    BY <2>1, <2>2, SelectGoes
  <2>4. f[from + 2].at = "operand"
    BY <2>1, <2>2, <2>3, Zenon DEF SelectMoves
  <2>5. f[from + 3].at = "equals"
    BY <2>1, <2>2, <2>4, Zenon DEF SelectMoves
  <2>6. f[from + 4].at = "literal"
    BY <2>1, <2>2, <2>5, Zenon DEF SelectMoves
  <2>7. f[from + 5].at = "connector"
    BY <2>1, <2>2, <2>6, Zenon DEF SelectMoves
  <2>8. f[from + 6].at = "end"
    BY <2>1, <2>2, <2>7, Zenon DEF EndMoves
  <2>9. f[from + 7].at = "done"
    BY <2>1, <2>2, <2>8, Zenon DEF EndMoves
  <2> QED
    BY <2>1, <2>9
<1> QED
  BY <1>1, <1>2

\* The columns of an INSERT end at one place only.
LEMMA InsertUnique ==
  ASSUME NEW t \in Seq(Tokens), NEW n \in Positive, NEW m \in Positive,
         NEW i \in Positive, NEW j \in Positive,
         InsertSentence(t, n, m), InsertSentence(t, i, j)
  PROVE  n = i /\ m = j
<1>1. ASSUME NEW a \in Positive, NEW b \in Positive, NEW x \in Positive, NEW y \in Positive,
             InsertSentence(t, a, x), InsertSentence(t, b, y), a < b
      PROVE  FALSE
  <2>1. a \in 1 .. b - 1 /\ 5 + 2 * a - 1 = 4 + 2 * a
    BY <1>1 DEF Positive
  <2>2. t[5 + 2 * a - 1].type = Comma
    BY <1>1, <2>1 DEF InsertSentence, InsertValues, InsertColumns, ListAt
  <2>3. t[4 + 2 * a].type = ")"
    BY <1>1 DEF InsertSentence, InsertValues
  <2> QED
    BY <2>1, <2>2, <2>3, Marks, Zenon
<1>2. n \in Nat /\ i \in Nat /\ m \in Nat /\ j \in Nat
  BY DEF Positive
<1>3. n = i
  BY <1>1, <1>2
<1>4. 8 + 2 * n + 2 * m = 8 + 2 * i + 2 * j
  BY DEF InsertSentence
<1> QED
  BY <1>2, <1>3, <1>4

\* The columns of a SELECT end at one place only.
LEMMA SelectUnique ==
  ASSUME NEW t \in Seq(Tokens), NEW n \in Nat, NEW i \in Nat,
         SelectFrom(t, n), SelectFrom(t, i)
  PROVE  n = i
<1>1. ASSUME NEW a \in Nat, NEW b \in Nat, SelectFrom(t, a), SelectFrom(t, b), a < b
      PROVE  FALSE
  <2>1. b # 0 /\ ListAt(t, 2, b, {"identifier"})
    BY <1>1 DEF SelectFrom
  <2>2. CASE a = 0
    <3>1. 0 \in 0 .. b - 1 /\ 2 + 2 * 0 = 2
      BY <1>1, <2>2
    <3>2. t[2].type \in {"identifier"}
      BY <2>1, <3>1, Zenon DEF ListAt
    <3>3. t[2].type = "*"
      BY <1>1, <2>2 DEF SelectFrom
    <3> QED
      BY <3>2, <3>3
  <2>3. CASE a # 0
    <3>1. a \in 1 .. b - 1 /\ 2 + 2 * a - 1 = From(a)
      BY <1>1, <2>3 DEF From
    <3>2. t[From(a)].type = Comma
      BY <2>1, <3>1, Zenon DEF ListAt
    <3>3. t[From(a)].type = "identifier"
      BY <1>1 DEF SelectFrom, IsKeyword
    <3> QED
      BY <3>2, <3>3, Marks, Zenon
  <2> QED
    BY <2>2, <2>3
<1> QED
  BY <1>1

\* Tokens can be read as one statement at most.
LEMMA OneReading ==
  ASSUME NEW t \in Seq(Tokens), NEW s \in Readings(t), NEW u \in Readings(t)
  PROVE  s = u
<1>1. ASSUME NEW x, x \in InsertReadings(t)
      PROVE  IsKeyword(t[1], "INSERT")
  BY <1>1, InsertSentences DEF InsertSentence, InsertValues, InsertColumns
<1>2. ASSUME NEW x, x \in SelectReadings(t)
      PROVE  IsKeyword(t[1], "SELECT")
  BY <1>2, SelectSentences DEF SelectSentence, SelectWhereSentence, SelectWhere,
                              SelectTable, SelectFrom
<1>3. ~(IsKeyword(t[1], "INSERT") /\ IsKeyword(t[1], "SELECT"))
  BY DEF IsKeyword
<1>4. CASE s \in InsertReadings(t) /\ u \in InsertReadings(t)
  <2>1. PICK n \in Positive, m \in Positive :
          InsertSentence(t, n, m) /\ s = Inserting(t, n, m)
    BY <1>4, InsertSentences
  <2>2. PICK i \in Positive, j \in Positive :
          InsertSentence(t, i, j) /\ u = Inserting(t, i, j)
    BY <1>4, InsertSentences
  <2> QED
    BY <2>1, <2>2, InsertUnique
<1>5. CASE s \in SelectReadings(t) /\ u \in SelectReadings(t)
  <2>1. PICK n \in Nat : \/ SelectSentence(t, n) /\ s = Selecting(t, n)
                         \/ SelectWhereSentence(t, n) /\ s = SelectingWhere(t, n)
    BY <1>5, SelectSentences
  <2>2. PICK i \in Nat : \/ SelectSentence(t, i) /\ u = Selecting(t, i)
                         \/ SelectWhereSentence(t, i) /\ u = SelectingWhere(t, i)
    BY <1>5, SelectSentences
  <2>3. SelectFrom(t, n) /\ SelectFrom(t, i)
    BY <2>1, <2>2 DEF SelectSentence, SelectWhereSentence, SelectWhere, SelectTable
  <2>4. n = i
    BY <2>3, SelectUnique
  <2>5. ~(SelectSentence(t, n) /\ SelectWhereSentence(t, n))
    BY DEF SelectSentence, SelectWhereSentence, From
  <2> QED
    BY <2>1, <2>2, <2>4, <2>5
<1> QED
  BY <1>1, <1>2, <1>3, <1>4, <1>5 DEF Readings

(* parse_statement accepts a sequence of tokens exactly if it is a sentence *)
(* of the grammar, and what it returns is the one statement that the tokens *)
(* can be read as: however long the lists of columns and of values are.     *)
THEOREM ParseExact ==
  ASSUME NEW t \in Seq(Tokens),
         \A i \in 1 .. Len(t) : t[i].type = "end" => i = Len(t)
  PROVE  /\ Parse(t).at = "done" => Readings(t) = {Parse(t).statement}
         /\ Parse(t).at # "done" => Readings(t) = {}
<1>1. Parse(t) = Parsed(t)
  BY DEF Parse, Parsed, ParseStart
<1>2. ASSUME NEW s \in Readings(t)
      PROVE  Parsed(t).at = "done"
  <2>1. PICK f \in [0 .. Len(t) -> Parsers] :
          /\ f[0] = ParseStart /\ f[Len(t)] = Parsed(t)
          /\ \A i \in 1 .. Len(t) : f[i] = ParseToken(f[i - 1], t[i])
    BY ParsedBy
  <2>2. InsertMoves(f, t) /\ SelectMoves(f, t) /\ EndMoves(f, t)
    BY <2>1, ParseMoves
  <2>3. CASE s \in InsertReadings(t)
    <3>1. PICK n \in Positive, m \in Positive : InsertSentence(t, n, m)
      BY <2>3, InsertSentences
    <3> QED
      BY <2>1, <2>2, <3>1, InsertGoes
  <2>4. CASE s \in SelectReadings(t)
    <3>1. PICK n \in Nat : SelectSentence(t, n) \/ SelectWhereSentence(t, n)
      BY <2>4, SelectSentences
    <3> QED
      BY <2>1, <2>2, <3>1, SelectsGo
  <2> QED
    BY <2>3, <2>4 DEF Readings
<1>3. ASSUME Parsed(t).at = "done"
      PROVE  Readings(t) = {Parsed(t).statement}
  <2>1. Parsed(t).statement \in Readings(t)
    BY <1>3, ParseSound
  <2>2. \A s \in Readings(t) : s = Parsed(t).statement
    BY <2>1, OneReading
  <2> QED
    BY <2>1, <2>2
<1> QED
  BY <1>1, <1>2, <1>3

(* Texts. *)

\* Texts joined one after another.
LEMMA JoinTwice ==
  ASSUME NEW a \in Seq(Pieces), NEW b \in Seq(Pieces), NEW c \in Seq(Pieces)
  PROVE  (a \o b) \o c = a \o (b \o c) /\ a \o b \in Seq(Pieces)
BY ConcatAssociative, ConcatProperties

\* A text with one more piece.
LEMMA TextAppend ==
  ASSUME NEW s \in Seq(Pieces), NEW p \in Pieces
  PROVE  IsText(Append(s, p)) <=>
           IsText(s) /\ (s # <<>> => ~(Last(s) \in Words /\ p \in Words))
<1> DEFINE q == Append(s, p)
           n == Len(s)
<1>1. /\ q \in Seq(Pieces) /\ n \in Nat /\ Len(q) = n + 1 /\ q[n + 1] = p
      /\ \A i \in 1 .. n : q[i] = s[i]
      /\ s # <<>> <=> n # 0
      /\ s # <<>> => Last(s) = s[n]
  BY DEF Last
<1> HIDE DEF q
<1>2. IsText(q) <=> \A i \in 1 .. n : ~(q[i] \in Words /\ q[i + 1] \in Words)
  <2>1. Len(q) - 1 = n
    BY <1>1
  <2> QED
    BY <1>1, <2>1 DEF IsText
<1>3. IsText(s) <=> \A i \in 1 .. n - 1 : ~(s[i] \in Words /\ s[i + 1] \in Words)
  BY DEF IsText
<1>4. ASSUME IsText(q)
      PROVE  IsText(s) /\ (s # <<>> => ~(Last(s) \in Words /\ p \in Words))
  <2>1. \A i \in 1 .. n - 1 : i \in 1 .. n /\ i + 1 \in 1 .. n
    BY <1>1
  <2>2. s # <<>> => n \in 1 .. n
    BY <1>1
  <2> QED
    BY <1>1, <1>2, <1>3, <1>4, <2>1, <2>2
<1>5. ASSUME IsText(s), s # <<>> => ~(Last(s) \in Words /\ p \in Words)
      PROVE  IsText(q)
  <2>1. ASSUME NEW i \in 1 .. n
        PROVE  ~(q[i] \in Words /\ q[i + 1] \in Words)
    <3>1. CASE i = n
      BY <1>1, <1>5, <3>1
    <3>2. CASE i # n
      <4>1. i \in 1 .. n - 1 /\ i + 1 \in 1 .. n
        BY <1>1, <3>2
      <4> QED
        BY <1>1, <1>3, <1>5, <4>1
    <3> QED
      BY <3>1, <3>2
  <2> QED
    BY <1>2, <2>1
<1> QED
  BY <1>4, <1>5 DEF q

\* Words are no symbols, no spaces and no quotes.
LEMMA WordsApart ==
  /\ Quote \notin Words /\ DoubleQuote \notin Words /\ Comma \notin Words
  /\ Semicolon \notin Words /\ Blank \notin Words /\ "newline" \notin Words
  /\ \A p \in Symbols \cup Spaces \cup Others : p \notin Words
<1>1. \A p \in Symbols \cup Spaces \cup Others \cup {Quote} : p \notin Words
  BY TextAssumption
<1>2. /\ DoubleQuote \in Others /\ Comma \in Symbols /\ Semicolon \in Symbols
      /\ Blank \in Spaces /\ "newline" \in Spaces
  BY DEF Others, Symbols, Spaces
<1> QED
  BY <1>1, <1>2

\* The tokens before the end.
InnerTokens == [type : TokenTypes \ {"end"}, text : AllTexts]

TextLexers == [mode : {"between", "string", "quote", "error"},
               buffer : AllTexts, tokens : Seq(InnerTokens)]

(* What lex_sql keeps of a text: whole tokens, and a literal whose last    *)
(* piece is the last of the text.                                          *)
LexInv(text, lexer) ==
  /\ lexer \in TextLexers
  /\ lexer.mode = "between" => lexer.buffer = <<>>
  /\ lexer.mode = "string" =>
       text # <<>> /\ (lexer.buffer # <<>> => Last(lexer.buffer) = Last(text))

\* push_token adds a whole token.
LEMMA PushTexts ==
  ASSUME NEW lexer \in TextLexers, NEW type \in TokenTypes \ {"end"},
         NEW text \in AllTexts
  PROVE  /\ Push(lexer, type, text) \in TextLexers
         /\ Push(lexer, type, text).mode = "between"
         /\ Push(lexer, type, text).buffer = <<>>
         /\ Push(lexer, type, text).tokens = Append(lexer.tokens, Token(type, text))
<1>1. Token(type, text) \in InnerTokens
  BY DEF Token, InnerTokens
<1>2. lexer.tokens \in Seq(InnerTokens)
  BY DEF TextLexers
<1>3. Append(lexer.tokens, Token(type, text)) \in Seq(InnerTokens) /\ <<>> \in AllTexts
  BY <1>1, <1>2 DEF AllTexts, IsText
<1> QED
  BY <1>3 DEF Push, TextLexers

\* A piece is a text.
LEMMA PieceText ==
  ASSUME NEW p \in Pieces
  PROVE  <<p>> \in AllTexts
BY DEF AllTexts, IsText

\* Between two tokens.
LEMMA BetweenTexts ==
  ASSUME NEW lexer \in TextLexers, lexer.buffer = <<>>, lexer.mode = "between",
         NEW p \in Pieces, NEW text, text # <<>>
  PROVE  LexInv(text, Between(lexer, p))
<1>1. <<p>> \in AllTexts
  BY PieceText
<1>2. /\ {"number", "identifier"} \subseteq TokenTypes \ {"end"}
      /\ p \in Symbols => p \in TokenTypes \ {"end"}
  <2>1. "end" \notin Symbols
    BY Marks DEF Symbols
  <2> QED
    BY <2>1 DEF TokenTypes
<1>3. ASSUME NEW type \in TokenTypes \ {"end"}
      PROVE  LexInv(text, Push(lexer, type, <<p>>))
  BY <1>1, <1>3, PushTexts DEF LexInv
<1>4. LexInv(text, lexer)
  BY DEF LexInv
<1>5. \A m \in {"string", "error"} : LexInv(text, [lexer EXCEPT !.mode = m])
  BY DEF LexInv, TextLexers
<1> QED
  BY <1>2, <1>3, <1>4, <1>5 DEF Between

\* Every piece of a text keeps the invariant of lex_sql.
LEMMA LexPieceTexts ==
  ASSUME NEW text \in Seq(Pieces), NEW p \in Pieces, IsText(Append(text, p)),
         NEW lexer, LexInv(text, lexer)
  PROVE  LexInv(Append(text, p), LexPiece(lexer, p))
<1> DEFINE q == Append(text, p)
<1>1. Last(q) = p
  BY DEF Last
<1>2. /\ lexer \in TextLexers /\ lexer.buffer \in AllTexts
      /\ lexer.mode \in {"between", "string", "quote", "error"}
  BY DEF LexInv, TextLexers
<1>3. \A r \in AllTexts : r \in Seq(Pieces) /\ IsText(r)
  BY DEF AllTexts
<1>4. Quote \in Pieces /\ Quote \notin Words
  BY WordsApart DEF Pieces
<1>5. ASSUME lexer.mode = "string" \/ p = Quote
      PROVE  Append(lexer.buffer, p) \in AllTexts
  <2>1. lexer.mode = "string" /\ lexer.buffer # <<>> =>
          ~(Last(lexer.buffer) \in Words /\ p \in Words)
    <3>1. text # <<>> => ~(Last(text) \in Words /\ p \in Words)
      BY TextAppend
    <3> QED
      BY <3>1 DEF LexInv
  <2>2. IsText(Append(lexer.buffer, p))
    BY <1>2, <1>3, <1>4, <1>5, <2>1, TextAppend
  <2>3. Append(lexer.buffer, p) \in Seq(Pieces)
    BY <1>2, <1>3
  <2> QED
    BY <2>2, <2>3 DEF AllTexts
<1>6. q # <<>>
  BY AppendProperties
<1> HIDE DEF q
<1>7. ASSUME lexer.mode = "string" \/ p = Quote
      PROVE  LexInv(q, Collect(lexer, p))
  <2>1. Append(lexer.buffer, p) \in AllTexts
    BY <1>5, <1>7
  <2>2. Last(Append(lexer.buffer, p)) = p
    BY <1>2, <1>3 DEF Last
  <2>3. /\ Collect(lexer, p) \in TextLexers
        /\ Collect(lexer, p).mode = "string"
        /\ Collect(lexer, p).buffer = Append(lexer.buffer, p)
    BY <1>2, <2>1 DEF Collect, TextLexers
  <2> QED
    BY <1>1, <1>6, <2>2, <2>3 DEF LexInv
<1>8. CASE lexer.mode = "between"
  <2>1. lexer.buffer = <<>>
    BY <1>8 DEF LexInv
  <2>2. LexInv(q, Between(lexer, p))
    BY <1>2, <1>6, <1>8, <2>1, BetweenTexts
  <2> QED
    BY <1>8, <2>2 DEF LexPiece, q
<1>9. CASE lexer.mode = "string"
  <2>1. LexInv(q, [lexer EXCEPT !.mode = "quote"])
    BY <1>2 DEF LexInv, TextLexers
  <2> QED
    BY <1>7, <1>9, <2>1 DEF LexPiece, q
<1>10. CASE lexer.mode = "quote"
  <2> DEFINE pushed == Push(lexer, "string", lexer.buffer)
  <2>1. /\ pushed \in TextLexers /\ pushed.mode = "between" /\ pushed.buffer = <<>>
    BY <1>2, PushTexts DEF TokenTypes
  <2> HIDE DEF pushed
  <2>2. LexInv(q, Between(pushed, p))
    BY <1>6, <2>1, BetweenTexts
  <2>3. LexInv(q, PastQuote(lexer, p))
    BY <1>7, <2>2 DEF PastQuote, pushed
  <2> QED
    BY <1>10, <2>3 DEF LexPiece, q
<1>11. CASE lexer.mode = "error"
  <2>1. LexInv(q, lexer)
    BY <1>2, <1>11 DEF LexInv
  <2> QED
    BY <1>11, <2>1 DEF LexPiece, q
<1> QED
  BY <1>2, <1>8, <1>9, <1>10, <1>11

\* The invariant of lex_sql, for every text.
LEMMA LexTexts ==
  \A text \in Seq(Pieces) : IsText(text) => LexInv(text, Lexed(text))
<1> DEFINE T == {text \in Seq(Pieces) : IsText(text) => LexInv(text, Lexed(text))}
<1>1. <<>> \in T
  <2>1. Quote \in Pieces /\ <<>> \in Seq(Pieces)
    BY DEF Pieces
  <2>2. Lexed(<<>>) = LexStart
    BY <2>1, Lexeds
  <2>3. <<>> \in Seq(InnerTokens) /\ <<>> \in AllTexts
    BY DEF AllTexts, IsText
  <2>4. LexInv(<<>>, LexStart)
    BY <2>3 DEF LexInv, LexStart, TextLexers
  <2> QED
    BY <2>2, <2>4
<1>2. ASSUME NEW s \in Seq(Pieces), NEW e \in Pieces, s \in T
      PROVE  Append(s, e) \in T
  <2>1. Append(s, e) \in Seq(Pieces)
    OBVIOUS
  <2>2. ASSUME IsText(Append(s, e))
        PROVE  LexInv(Append(s, e), Lexed(Append(s, e)))
    <3>1. IsText(s)
      BY <2>2, TextAppend
    <3>2. LexInv(s, Lexed(s))
      BY <1>2, <3>1
    <3>3. Lexed(Append(s, e)) = LexPiece(Lexed(s), e)
      BY Lexeds
    <3> QED
      BY <2>2, <3>2, <3>3, LexPieceTexts
  <2> QED
    BY <2>1, <2>2
<1> HIDE DEF T
<1>3. \A s \in Seq(Pieces) : s \in T
  BY <1>1, <1>2, InductionByLast
<1> QED
  BY <1>3 DEF T

\* What lex_sql returns: whole tokens, the last of them the end and no other.
LEMMA LexTokens ==
  ASSUME NEW text \in AllTexts
  PROVE  /\ Lex(text).ok \in BOOLEAN
         /\ Lex(text).tokens \in Seq(Tokens)
         /\ \A i \in 1 .. Len(Lex(text).tokens) :
              Lex(text).tokens[i].type = "end" => i = Len(Lex(text).tokens)
<1> DEFINE lexer == LexEnd(Lexed(text), text)
<1>1. LexInv(text, Lexed(text))
  BY LexTexts DEF AllTexts
<1>2. lexer \in TextLexers
  <2> DEFINE l == Lexed(text)
  <2>1. l \in TextLexers /\ l.buffer \in AllTexts
    BY <1>1 DEF LexInv, TextLexers
  <2> HIDE DEF l
  <2>2. Push(l, "string", l.buffer) \in TextLexers
    BY <2>1, PushTexts DEF TokenTypes
  <2>3. [l EXCEPT !.mode = "error"] \in TextLexers
    BY <2>1 DEF TextLexers
  <2>4. LexEnd(l, text) \in TextLexers
    BY <2>1, <2>2, <2>3 DEF LexEnd
  <2> QED
    BY <2>4 DEF l
<1>3. Lex(text) = IF lexer.mode = "error" THEN [ok |-> FALSE, tokens |-> <<>>]
                  ELSE [ok |-> TRUE, tokens |-> Append(lexer.tokens, Token("end", <<>>))]
  BY DEF Lex, Lexed
<1> HIDE DEF lexer
<1> DEFINE inner == lexer.tokens
           all == Append(inner, Token("end", <<>>))
<1>4. inner \in Seq(InnerTokens)
  BY <1>2 DEF TextLexers
<1>5. /\ InnerTokens \subseteq Tokens /\ Token("end", <<>>) \in Tokens
      /\ \A t \in InnerTokens : t.type # "end"
  <2>1. <<>> \in AllTexts
    BY DEF AllTexts, IsText
  <2> QED
    BY <2>1 DEF InnerTokens, Tokens, Token, TokenTypes
<1> HIDE DEF inner
<1>6. inner \in Seq(Tokens)
  BY <1>4, <1>5
<1>7. all \in Seq(Tokens)
  BY <1>5, <1>6
<1>8. \A i \in 1 .. Len(all) : all[i].type = "end" => i = Len(all)
  <2>1. Len(all) = Len(inner) + 1 /\ \A i \in 1 .. Len(inner) : all[i] = inner[i]
    BY <1>5, <1>6, AppendProperties
  <2>2. Len(inner) \in Nat /\ \A i \in 1 .. Len(inner) : inner[i] \in InnerTokens
    BY <1>4
  <2> HIDE DEF all
  <2> QED
    BY <1>5, <2>1, <2>2
<1>9. /\ <<>> \in Seq(Tokens) /\ Len(<<>>) = 0
      /\ \A i \in 1 .. 0 : FALSE
  OBVIOUS
<1> HIDE DEF all
<1>10. CASE lexer.mode = "error"
  <2>1. Lex(text).ok = FALSE /\ Lex(text).tokens = <<>>
    BY <1>3, <1>10
  <2> QED
    BY <1>9, <2>1
<1>11. CASE lexer.mode # "error"
  <2>1. Lex(text).ok = TRUE /\ Lex(text).tokens = all
    BY <1>3, <1>11 DEF all, inner
  <2> QED
    BY <1>7, <1>8, <2>1
<1> QED
  BY <1>10, <1>11

-----------------------------------------------------------------------------
(* Spelling. *)

\* A function applied to the elements of a sequence.
Mapped(f, s) == [i \in DOMAIN s |-> f[s[i]]]

Maps(f, S, R) == f \in [S -> R]

\* It grows with the sequence.
LEMMA MapAppend ==
  ASSUME NEW S, NEW R, NEW f, NEW s \in Seq(S), NEW e \in S, Maps(f, S, R)
  PROVE  /\ Mapped(f, s) \in Seq(R)
         /\ Mapped(f, Append(s, e)) = Append(Mapped(f, s), f[e])
<1> DEFINE q == Append(s, e)
           n == Len(s)
           m == [i \in DOMAIN s |-> f[s[i]]]
           l == [i \in DOMAIN q |-> f[q[i]]]
           r == Append(m, f[e])
<1>0. f \in [S -> R]
  BY DEF Maps
<1>1. /\ n \in Nat /\ DOMAIN s = 1 .. n /\ DOMAIN q = 1 .. n + 1
      /\ \A i \in 1 .. n : q[i] = s[i] /\ s[i] \in S
      /\ q[n + 1] = e
  OBVIOUS
<1>2. m \in Seq(R) /\ Len(m) = n
  <2>1. m \in [1 .. n -> R]
    BY <1>0, <1>1
  <2> HIDE DEF m
  <2> QED
    BY <1>1, <2>1
<1>3. \A i \in 1 .. n : m[i] = f[s[i]]
  BY <1>1
<1>4. DOMAIN l = 1 .. n + 1 /\ \A i \in 1 .. n + 1 : l[i] = f[q[i]]
  BY <1>1
<1>5. f[e] \in R
  BY <1>0
<1> HIDE DEF q, n, m, l
<1>6. /\ r \in Seq(R) /\ DOMAIN r = 1 .. n + 1 /\ r[n + 1] = f[e]
      /\ \A i \in 1 .. n : r[i] = m[i]
  BY <1>2, <1>5, AppendProperties
<1> HIDE DEF r
<1>7. \A i \in 1 .. n + 1 : i = n + 1 \/ i \in 1 .. n
  BY <1>1
<1>8. \A i \in 1 .. n + 1 : l[i] = r[i]
  BY <1>1, <1>3, <1>4, <1>6, <1>7
<1>9. l = [i \in 1 .. n + 1 |-> l[i]] /\ r = [i \in 1 .. n + 1 |-> r[i]]
  BY <1>4, <1>6 DEF l
<1>10. l = r
  BY <1>8, <1>9
<1> QED
  BY <1>2, <1>10 DEF q, m, l, r, Mapped

\* A function from texts to texts.
LEMMA MapTexts ==
  ASSUME NEW f, Maps(f, AllTexts, AllTexts), NEW vs \in Seq(AllTexts), NEW v \in AllTexts
  PROVE  /\ Mapped(f, vs) \in Seq(AllTexts)
         /\ Mapped(f, Append(vs, v)) = Append(Mapped(f, vs), f[v])
BY MapAppend

\* The texts of the elements of a sequence, one after the other.
LEMMA FlattenMap ==
  ASSUME NEW S, NEW P, NEW f, NEW s \in Seq(S), NEW e \in S, Maps(f, S, Seq(P))
  PROVE  /\ FlattenSeq(Mapped(f, <<>>)) = <<>>
         /\ FlattenSeq(Mapped(f, s)) \in Seq(P)
         /\ FlattenSeq(Mapped(f, Append(s, e))) = FlattenSeq(Mapped(f, s)) \o f[e]
<1> DEFINE m == Mapped(f, s)
           l == Mapped(f, Append(s, e))
<1>1. m \in Seq(Seq(P)) /\ l = Append(m, f[e])
  BY MapAppend
<1>2. f[e] \in Seq(P)
  BY DEF Maps
<1> HIDE DEF m, l
<1>3. FlattenSeq(m) \in Seq(P) /\ FlattenSeq(Append(m, f[e])) = FlattenSeq(m) \o f[e]
  BY <1>1, <1>2, FlattenByLast
<1>4. FlattenSeq(l) = FlattenSeq(m) \o f[e]
  BY <1>1, <1>3
<1>5. Mapped(f, <<>>) = <<>>
  BY DEF Mapped
<1>6. FlattenSeq(<<>>) = <<>>
  BY <1>1, <1>2, FlattenByLast
<1> QED
  BY <1>3, <1>4, <1>5, <1>6 DEF m, l

\* A text with every mark of a kind doubled, as a literal and a CSV field have it.
Doubled(mark, text) ==
  FlattenSeq([i \in DOMAIN text |->
                IF text[i] = mark THEN <<mark, mark>> ELSE <<text[i]>>])

\* It grows piece by piece.
LEMMA DoubledAppend ==
  ASSUME NEW mark \in Pieces, NEW s \in Seq(Pieces), NEW p \in Pieces
  PROVE  /\ Doubled(mark, <<>>) = <<>>
         /\ Doubled(mark, s) \in Seq(Pieces)
         /\ Doubled(mark, Append(s, p)) =
              Doubled(mark, s) \o (IF p = mark THEN <<mark, mark>> ELSE <<p>>)
<1> DEFINE D(x) == IF x = mark THEN <<mark, mark>> ELSE <<x>>
           f == [x \in Pieces |-> D(x)]
<1>1. \A x \in Pieces : D(x) \in Seq(Pieces)
  OBVIOUS
<1> HIDE DEF D
<1>2. f \in [Pieces -> Seq(Pieces)] /\ \A x \in Pieces : f[x] = D(x)
  BY <1>1
<1>3. ASSUME NEW r \in Seq(Pieces)
      PROVE  Doubled(mark, r) = FlattenSeq(Mapped(f, r))
  <2>1. \A i \in DOMAIN r : r[i] \in Pieces
    OBVIOUS
  <2> HIDE DEF f
  <2>2. \A i \in DOMAIN r : f[r[i]] = D(r[i])
    BY <1>2, <2>1
  <2>3. [i \in DOMAIN r |-> f[r[i]]] = [i \in DOMAIN r |-> D(r[i])]
    BY <2>2
  <2> QED
    BY <2>3, Zenon DEF Doubled, D, Mapped
<1> HIDE DEF f
<1>4. Append(s, p) \in Seq(Pieces) /\ <<>> \in Seq(Pieces)
  OBVIOUS
<1>5. /\ FlattenSeq(Mapped(f, <<>>)) = <<>>
      /\ FlattenSeq(Mapped(f, s)) \in Seq(Pieces)
      /\ FlattenSeq(Mapped(f, Append(s, p))) = FlattenSeq(Mapped(f, s)) \o f[p]
  <2>1. Maps(f, Pieces, Seq(Pieces))
    BY <1>2 DEF Maps
  <2> QED
    BY <2>1, FlattenMap
<1>6. /\ Doubled(mark, s) = FlattenSeq(Mapped(f, s))
      /\ Doubled(mark, Append(s, p)) = FlattenSeq(Mapped(f, Append(s, p)))
      /\ Doubled(mark, <<>>) = FlattenSeq(Mapped(f, <<>>))
  BY <1>3, <1>4, Zenon
<1> QED
  BY <1>2, <1>5, <1>6, Zenon DEF D

\* A token spelled out, in terms of Doubled.
LEMMA SpelledTypes ==
  ASSUME NEW t \in InnerTokens
  PROVE  /\ Spelled(t) \in Seq(Pieces)
         /\ Spelled(t) = IF t.type # "string" THEN t.text
                         ELSE <<Quote>> \o Doubled(Quote, t.text) \o <<Quote>>
<1>1. t.text \in Seq(Pieces) /\ Quote \in Pieces
  BY DEF InnerTokens, AllTexts, Pieces
<1>2. Doubled(Quote, t.text) \in Seq(Pieces) /\ <<Quote>> \in Seq(Pieces)
  <2> DEFINE x == t.text
  <2>1. x \in Seq(Pieces) /\ Quote \in Pieces
    BY <1>1
  <2> HIDE DEF x
  <2>2. Doubled(Quote, x) \in Seq(Pieces)
    BY <2>1, DoubledAppend, Zenon
  <2>3. <<Quote>> \in Seq(Pieces)
    BY <2>1
  <2> QED
    BY <2>2, <2>3 DEF x
<1>3. Spelled(t) = IF t.type # "string" THEN t.text
                   ELSE <<Quote>> \o Doubled(Quote, t.text) \o <<Quote>>
  BY Zenon DEF Spelled, Doubled
<1>4. <<Quote>> \o Doubled(Quote, t.text) \o <<Quote>> \in Seq(Pieces)
  BY <1>2, ConcatProperties
<1> QED
  BY <1>1, <1>3, <1>4

\* The spelling of the tokens grows token by token.
LEMMA SpelledAppend ==
  ASSUME NEW s \in Seq(InnerTokens), NEW t \in InnerTokens
  PROVE  /\ SpelledAll(<<>>) = <<>>
         /\ SpelledAll(s) \in Seq(Pieces)
         /\ SpelledAll(Append(s, t)) = SpelledAll(s) \o Spelled(t)
<1> DEFINE f == [x \in InnerTokens |-> Spelled(x)]
<1>1. /\ f \in [InnerTokens -> Seq(Pieces)]
      /\ \A x \in InnerTokens : f[x] = Spelled(x)
  BY SpelledTypes
<1>2. ASSUME NEW r \in Seq(InnerTokens)
      PROVE  SpelledAll(r) = FlattenSeq(Mapped(f, r))
  <2>1. \A i \in DOMAIN r : r[i] \in InnerTokens
    OBVIOUS
  <2> HIDE DEF f
  <2>2. \A i \in DOMAIN r : f[r[i]] = Spelled(r[i])
    BY <1>1, <2>1
  <2>3. [i \in DOMAIN r |-> f[r[i]]] = [i \in DOMAIN r |-> Spelled(r[i])]
    BY <2>2
  <2> QED
    BY <2>3, Zenon DEF SpelledAll, Mapped
<1> HIDE DEF f
<1>3. Append(s, t) \in Seq(InnerTokens) /\ <<>> \in Seq(InnerTokens)
  OBVIOUS
<1>4. /\ FlattenSeq(Mapped(f, <<>>)) = <<>>
      /\ FlattenSeq(Mapped(f, s)) \in Seq(Pieces)
      /\ FlattenSeq(Mapped(f, Append(s, t))) = FlattenSeq(Mapped(f, s)) \o f[t]
  <2>1. Maps(f, InnerTokens, Seq(Pieces))
    BY <1>1 DEF Maps
  <2> QED
    BY <2>1, FlattenMap
<1>5. /\ SpelledAll(s) = FlattenSeq(Mapped(f, s))
      /\ SpelledAll(Append(s, t)) = FlattenSeq(Mapped(f, Append(s, t)))
      /\ SpelledAll(<<>>) = FlattenSeq(Mapped(f, <<>>))
  BY <1>2, <1>3, Zenon
<1> QED
  BY <1>1, <1>4, <1>5, Zenon

\* Where the next piece of a text is.
Odd(text) == Inside(text, Len(text) + 1)

\* Whether a piece is inside a literal is decided by the pieces before it.
LEMMA InsideSame ==
  ASSUME NEW s \in Seq(Pieces), NEW p \in Pieces, NEW n \in 1 .. Len(s) + 1
  PROVE  Inside(Append(s, p), n) <=> Inside(s, n)
<1>1. n \in Int /\ Len(s) \in Nat /\ \A i \in 1 .. n - 1 : Append(s, p)[i] = s[i]
  OBVIOUS
<1>2. {i \in 1 .. n - 1 : Append(s, p)[i] = Quote} = {i \in 1 .. n - 1 : s[i] = Quote}
  BY <1>1
<1> QED
  BY <1>2, Zenon DEF Inside, QuotesBefore

\* A quote opens or closes a literal.
LEMMA OddNext ==
  ASSUME NEW s \in Seq(Pieces), NEW p \in Pieces
  PROVE  /\ ~Odd(<<>>)
         /\ Odd(Append(s, p)) <=> IF p = Quote THEN ~Odd(s) ELSE Odd(s)
<1> DEFINE q == Append(s, p)
           n == Len(s)
           A == {i \in 1 .. n : s[i] = Quote}
           B == {i \in 1 .. n + 1 : q[i] = Quote}
<1>1. n \in Nat /\ Len(q) = n + 1 /\ q[n + 1] = p /\ \A i \in 1 .. n : q[i] = s[i]
  OBVIOUS
<1>2. (n + 1) - 1 = n /\ (Len(q) + 1) - 1 = n + 1
  BY <1>1
<1>3. Odd(s) <=> Cardinality(A) % 2 = 1
  BY <1>2, Zenon DEF Odd, Inside, QuotesBefore
<1>4. Odd(q) <=> Cardinality(B) % 2 = 1
  BY <1>2, Zenon DEF Odd, Inside, QuotesBefore
<1>5. IsFiniteSet(A)
  <2>1. A \subseteq 1 .. n /\ 1 \in Int /\ n \in Int
    BY <1>1
  <2>2. IsFiniteSet(1 .. n)
    BY <2>1, FS_Interval
  <2> QED
    BY <2>1, <2>2, FS_Subset
<1>6. Cardinality(A) \in Nat
  BY <1>5, FS_CardinalityType
<1>7. ASSUME p = Quote
      PROVE  Odd(q) <=> ~Odd(s)
  <2>1. B = A \cup {n + 1} /\ n + 1 \notin A
    BY <1>1, <1>7
  <2> HIDE DEF A, B
  <2>2. Cardinality(B) = Cardinality(A) + 1
    BY <1>5, <2>1, FS_AddElement
  <2>3. (Cardinality(A) + 1) % 2 = 1 <=> ~(Cardinality(A) % 2 = 1)
    BY <1>6
  <2> QED
    BY <1>3, <1>4, <2>2, <2>3, Zenon
<1>8. ASSUME p # Quote
      PROVE  Odd(q) <=> Odd(s)
  <2>1. B = A
    BY <1>1, <1>8
  <2> HIDE DEF A, B
  <2> QED
    BY <1>3, <1>4, <2>1, Zenon
<1>9. ~Odd(<<>>)
  <2>1. {i \in 1 .. (Len(<<>>) + 1) - 1 : <<>>[i] = Quote} = {}
    OBVIOUS
  <2>2. Cardinality({}) = 0
    BY FS_EmptySet
  <2> QED
    BY <2>1, <2>2 DEF Odd, Inside, QuotesBefore
<1> QED
  BY <1>7, <1>8, <1>9 DEF q

\* The positions that Squeezed keeps.
KeptIn(text) == {n \in DOMAIN text : text[n] \notin Spaces \/ Inside(text, n)}

\* The text without the white space between its tokens, piece by piece.
LEMMA SqueezedNext ==
  ASSUME NEW s \in Seq(Pieces), NEW p \in Pieces
  PROVE  /\ Squeezed(<<>>) = <<>>
         /\ Squeezed(s) \in Seq(Pieces)
         /\ Squeezed(Append(s, p)) =
              IF p \notin Spaces \/ Odd(s) THEN Append(Squeezed(s), p) ELSE Squeezed(s)
<1> DEFINE q == Append(s, p)
           n == Len(s)
           kept == InOrder(n, KeptIn(s))
           more == InOrder(n + 1, KeptIn(q))
<1>1. /\ q \in Seq(Pieces) /\ n \in Nat /\ Len(q) = n + 1 /\ q[n + 1] = p
      /\ \A i \in 1 .. n : q[i] = s[i] /\ s[i] \in Pieces
      /\ DOMAIN s = 1 .. n /\ DOMAIN q = 1 .. n + 1
  OBVIOUS
<1>2. /\ Squeezed(s) = [i \in DOMAIN kept |-> s[kept[i]]]
      /\ Squeezed(q) = [i \in DOMAIN more |-> q[more[i]]]
  BY <1>1, Zenon DEF Squeezed, KeptIn
<1>3. kept \in Seq(1 .. n)
  <2>1. kept \in Seq(KeptIn(s) \cap (1 .. n))
    BY <1>1, InOrderLists
  <2> HIDE DEF kept
  <2> QED
    BY <2>1
<1>4. \A i \in 1 .. n : i \in KeptIn(q) <=> i \in KeptIn(s)
  <2> SUFFICES ASSUME NEW i \in 1 .. n
               PROVE  i \in KeptIn(q) <=> i \in KeptIn(s)
    OBVIOUS
  <2>1. Inside(q, i) <=> Inside(s, i)
    <3>1. i \in 1 .. Len(s) + 1
      BY <1>1
    <3> QED
      BY <3>1, InsideSame
  <2>2. i \in DOMAIN s /\ i \in DOMAIN q /\ q[i] = s[i]
    BY <1>1
  <2> HIDE DEF q
  <2> QED
    BY <2>1, <2>2 DEF KeptIn
<1>5. n + 1 \in KeptIn(q) <=> p \notin Spaces \/ Odd(s)
  <2>1. Inside(q, n + 1) <=> Inside(s, n + 1)
    <3>1. n + 1 \in 1 .. Len(s) + 1
      BY <1>1
    <3> QED
      BY <3>1, InsideSame
  <2>2. n + 1 \in DOMAIN q
    BY <1>1
  <2> HIDE DEF q
  <2> QED
    BY <1>1, <2>1, <2>2 DEF KeptIn, Odd
<1>6. InOrder(n, KeptIn(q)) = kept
  BY <1>1, <1>4, InOrderSame
<1>7. more = IF n + 1 \in KeptIn(q) THEN Append(kept, n + 1) ELSE kept
  BY <1>1, <1>6, InOrderNext, Zenon
<1> HIDE DEF kept, more, q, n
<1>8. /\ DOMAIN kept = 1 .. Len(kept) /\ Len(kept) \in Nat
      /\ \A i \in 1 .. Len(kept) : kept[i] \in 1 .. n
  BY <1>3, LenProperties, ElementOfSeq
<1>9. Squeezed(s) \in Seq(Pieces) /\ Len(Squeezed(s)) = Len(kept)
      /\ \A i \in 1 .. Len(kept) : Squeezed(s)[i] = s[kept[i]]
  <2>1. Squeezed(s) \in [1 .. Len(kept) -> Pieces]
    BY <1>1, <1>2, <1>8
  <2>2. \A i \in 1 .. Len(kept) : Squeezed(s)[i] = s[kept[i]]
    BY <1>2, <1>8
  <2> QED
    BY <1>8, <2>1, <2>2
<1>10. ASSUME n + 1 \in KeptIn(q)
       PROVE  Squeezed(q) = Append(Squeezed(s), p)
  <2>1. /\ DOMAIN more = 1 .. Len(kept) + 1 /\ more[Len(kept) + 1] = n + 1
        /\ \A i \in 1 .. Len(kept) : more[i] = kept[i]
    <3>1. more = Append(kept, n + 1)
      BY <1>7, <1>10
    <3>2. kept \in Seq(Nat) /\ n + 1 \in Nat
      BY <1>1, <1>3
    <3> QED
      BY <3>1, <3>2, AppendProperties
  <2> DEFINE left == Squeezed(q)
             right == Append(Squeezed(s), p)
  <2>2. /\ DOMAIN left = 1 .. Len(kept) + 1
        /\ \A i \in 1 .. Len(kept) + 1 : left[i] = q[more[i]]
    BY <1>2, <2>1
  <2>3. /\ DOMAIN right = 1 .. Len(kept) + 1 /\ right[Len(kept) + 1] = p
        /\ right \in Seq(Pieces) /\ \A i \in 1 .. Len(kept) : right[i] = s[kept[i]]
    BY <1>9, AppendProperties
  <2>4. \A i \in 1 .. Len(kept) + 1 : left[i] = right[i]
    <3>1. \A i \in 1 .. Len(kept) + 1 : i \in 1 .. Len(kept) \/ i = Len(kept) + 1
      BY <1>8
    <3>2. \A i \in 1 .. Len(kept) : q[kept[i]] = s[kept[i]]
      BY <1>1, <1>8
    <3> HIDE DEF left, right
    <3> QED
      BY <1>1, <2>1, <2>2, <2>3, <3>1, <3>2
  <2>5. left = [i \in 1 .. Len(kept) + 1 |-> left[i]]
    BY <1>2, <2>1
  <2> HIDE DEF right
  <2>6. right = [i \in 1 .. Len(kept) + 1 |-> right[i]]
    BY <2>3
  <2> HIDE DEF left
  <2>7. left = right
    BY <2>4, <2>5, <2>6
  <2> QED
    BY <2>7 DEF left, right
<1>11. ASSUME n + 1 \notin KeptIn(q)
       PROVE  Squeezed(q) = Squeezed(s)
  <2>1. more = kept
    BY <1>7, <1>11
  <2>2. \A i \in DOMAIN kept : q[kept[i]] = s[kept[i]]
    BY <1>1, <1>8
  <2> QED
    BY <1>2, <2>1, <2>2
<1>12. Squeezed(<<>>) = <<>>
  <2> DEFINE e == <<>>
             none == InOrder(Len(e), KeptIn(e))
  <2>1. InOrder(0, KeptIn(e)) = <<>> /\ Len(e) = 0
    BY <1>1, InOrderNext
  <2>2. none = <<>>
    BY <2>1
  <2> HIDE DEF e
  <2>3. Squeezed(e) = [i \in DOMAIN none |-> e[none[i]]]
    BY Zenon DEF Squeezed, KeptIn
  <2> HIDE DEF none
  <2>4. Squeezed(e) = <<>>
    BY <2>2, <2>3
  <2> QED
    BY <2>4 DEF e
<1>13. Squeezed(q) = IF p \notin Spaces \/ Odd(s) THEN Append(Squeezed(s), p)
                     ELSE Squeezed(s)
  BY <1>5, <1>10, <1>11
<1> QED
  BY <1>9, <1>12, <1>13 DEF q

(* What lex_sql has read is what its tokens, and the literal it is in,     *)
(* spell; it is in a literal exactly after an odd number of quotes.        *)
SpellInv(text, lexer) ==
  LET spelled == SpelledAll(lexer.tokens)
      literal == <<Quote>> \o Doubled(Quote, lexer.buffer)
  IN  /\ lexer.mode = "between" => ~Odd(text) /\ spelled = Squeezed(text)
      /\ lexer.mode = "string" => Odd(text) /\ spelled \o literal = Squeezed(text)
      /\ lexer.mode = "quote" =>
           ~Odd(text) /\ spelled \o (literal \o <<Quote>>) = Squeezed(text)

\* The conjuncts of SpellInv by the mode.
LEMMA SpellModes ==
  ASSUME NEW text, NEW lexer
  PROVE  /\ lexer.mode = "between" =>
              (SpellInv(text, lexer) <=>
                 ~Odd(text) /\ SpelledAll(lexer.tokens) = Squeezed(text))
         /\ lexer.mode = "string" =>
              (SpellInv(text, lexer) <=>
                 /\ Odd(text)
                 /\ SpelledAll(lexer.tokens)
                      \o (<<Quote>> \o Doubled(Quote, lexer.buffer)) = Squeezed(text))
         /\ lexer.mode = "quote" =>
              (SpellInv(text, lexer) <=>
                 /\ ~Odd(text)
                 /\ SpelledAll(lexer.tokens)
                      \o ((<<Quote>> \o Doubled(Quote, lexer.buffer)) \o <<Quote>>)
                      = Squeezed(text))
         /\ lexer.mode = "error" => SpellInv(text, lexer)
BY DEF SpellInv

\* The end of a literal, and the literal as a token.
LEMMA SpellString ==
  ASSUME NEW lexer \in TextLexers
  PROVE  SpelledAll(Push(lexer, "string", lexer.buffer).tokens)
           = SpelledAll(lexer.tokens)
               \o ((<<Quote>> \o Doubled(Quote, lexer.buffer)) \o <<Quote>>)
<1> DEFINE token == Token("string", lexer.buffer)
<1>1. lexer.buffer \in AllTexts /\ lexer.tokens \in Seq(InnerTokens)
  BY DEF TextLexers
<1>2. token \in InnerTokens /\ token.type = "string" /\ token.text = lexer.buffer
  BY <1>1 DEF Token, InnerTokens, TokenTypes
<1>3. Push(lexer, "string", lexer.buffer).tokens = Append(lexer.tokens, token)
  BY DEF Push
<1> HIDE DEF token
<1>4. Spelled(token) = (<<Quote>> \o Doubled(Quote, lexer.buffer)) \o <<Quote>>
  BY <1>2, SpelledTypes
<1>5. SpelledAll(Append(lexer.tokens, token)) = SpelledAll(lexer.tokens) \o Spelled(token)
  BY <1>1, <1>2, SpelledAppend
<1> QED
  BY <1>3, <1>4, <1>5, Zenon

\* Between two tokens.
LEMMA SpellBetween ==
  ASSUME NEW text \in Seq(Pieces), NEW p \in Pieces, NEW lexer \in TextLexers,
         lexer.mode = "between", lexer.buffer = <<>>,
         SpelledAll(lexer.tokens) = Squeezed(text), ~Odd(text)
  PROVE  SpellInv(Append(text, p), Between(lexer, p))
<1> DEFINE q == Append(text, p)
<1>1. /\ Squeezed(text) \in Seq(Pieces)
      /\ Squeezed(q) = IF p \notin Spaces \/ Odd(text) THEN Append(Squeezed(text), p)
                       ELSE Squeezed(text)
      /\ Odd(q) <=> IF p = Quote THEN ~Odd(text) ELSE Odd(text)
  BY SqueezedNext, OddNext
<1> HIDE DEF q
<1>2. /\ p \in Spaces => ~Odd(q) /\ Squeezed(q) = Squeezed(text)
      /\ p \notin Spaces => Squeezed(q) = Append(Squeezed(text), p)
      /\ p # Quote => ~Odd(q)
      /\ p = Quote => Odd(q)
  <2>1. Quote \notin Spaces
    BY Zenon DEF Quote, Spaces, Blank
  <2> QED
    BY <1>1, <2>1, Zenon
<1>3. ASSUME NEW type \in TokenTypes \ {"end"}, type # "string",
             p \notin Spaces, p # Quote
      PROVE  SpellInv(q, Push(lexer, type, <<p>>))
  <2> DEFINE token == Token(type, <<p>>)
             pushed == Push(lexer, type, <<p>>)
  <2>1. lexer.tokens \in Seq(InnerTokens) /\ <<p>> \in AllTexts
    BY PieceText DEF TextLexers
  <2>2. token \in InnerTokens /\ token.type # "string" /\ token.text = <<p>>
    BY <1>3, <2>1 DEF Token, InnerTokens
  <2>3. pushed.mode = "between" /\ pushed.tokens = Append(lexer.tokens, token)
    BY DEF Push
  <2> HIDE DEF token, pushed
  <2>4. Spelled(token) = <<p>>
    BY <2>2, SpelledTypes
  <2>5. SpelledAll(Append(lexer.tokens, token)) = SpelledAll(lexer.tokens) \o Spelled(token)
    BY <2>1, <2>2, SpelledAppend
  <2>6. Squeezed(text) \o <<p>> = Append(Squeezed(text), p)
    BY <1>1, AppendIsConcat
  <2>7. SpelledAll(pushed.tokens) = Squeezed(q) /\ ~Odd(q)
    BY <1>2, <1>3, <2>3, <2>4, <2>5, <2>6, Zenon
  <2>8. SpellInv(q, pushed)
    BY <2>3, <2>7, SpellModes
  <2> QED
    BY <2>8 DEF pushed
<1>4. CASE p \in Spaces
  <2>1. SpellInv(q, lexer)
    BY <1>2, <1>4, SpellModes
  <2>2. Between(lexer, p) = lexer
    <3>1. p \notin Words /\ p \notin NumberWords
      BY <1>4, WordsApart, TextAssumption
    <3>2. p \notin Symbols /\ p # Quote
      BY <1>4, Zenon DEF Quote, Spaces, Blank, Symbols, Comma, Semicolon
    <3> QED
      BY <1>4, <3>1, <3>2 DEF Between
  <2> QED
    BY <2>1, <2>2 DEF q
<1>5. CASE p = Quote
  <2> DEFINE opened == [lexer EXCEPT !.mode = "string"]
  <2>1. opened.mode = "string" /\ opened.tokens = lexer.tokens /\ opened.buffer = <<>>
    BY DEF TextLexers
  <2>2. p \notin Spaces /\ p \notin Symbols /\ p \notin Words
    <3>1. Quote \notin Spaces /\ Quote \notin Symbols
      BY Zenon DEF Quote, Spaces, Blank, Symbols, Comma, Semicolon
    <3> QED
      BY <1>5, <3>1, WordsApart
  <2>3. Between(lexer, p) = opened
    BY <1>5, <2>2, TextAssumption DEF Between
  <2> HIDE DEF opened
  <2>4. Doubled(Quote, <<>>) = <<>>
    BY <1>1, <1>5, DoubledAppend, Zenon
  <2>5. <<Quote>> \o <<>> = <<Quote>>
    BY <1>5
  <2>6. Squeezed(text) \o <<Quote>> = Append(Squeezed(text), Quote)
    BY <1>1, <1>5, AppendIsConcat
  <2>7. SpelledAll(opened.tokens) \o (<<Quote>> \o Doubled(Quote, opened.buffer))
          = Squeezed(q)
    BY <1>2, <1>5, <2>1, <2>2, <2>4, <2>5, <2>6, Zenon
  <2>8. SpellInv(q, opened)
    BY <1>2, <1>5, <2>1, <2>7, SpellModes
  <2> QED
    BY <2>3, <2>8 DEF q
<1>6. CASE p \notin Spaces /\ p # Quote
  <2>1. {"number", "identifier"} \subseteq TokenTypes \ {"end"}
    BY DEF TokenTypes
  <2>2. p \in Symbols => p \in TokenTypes \ {"end"} /\ p # "string"
    <3>1. "end" \notin Symbols /\ "string" \notin Symbols
      BY Marks DEF Symbols
    <3> QED
      BY <3>1 DEF TokenTypes
  <2>3. SpellInv(q, [lexer EXCEPT !.mode = "error"])
    <3>1. [lexer EXCEPT !.mode = "error"].mode = "error"
      BY DEF TextLexers
    <3> QED
      BY <3>1, SpellModes, Zenon
  <2>4. /\ SpellInv(q, Push(lexer, "number", <<p>>))
        /\ SpellInv(q, Push(lexer, "identifier", <<p>>))
        /\ p \in Symbols => SpellInv(q, Push(lexer, p, <<p>>))
    BY <1>3, <1>6, <2>1, <2>2
  <2>5. SpellInv(q, Between(lexer, p))
    BY <1>6, <2>3, <2>4 DEF Between
  <2> QED
    BY <2>5 DEF q
<1> QED
  BY <1>4, <1>5, <1>6

\* Every piece keeps the account of what has been read.
LEMMA SpellPiece ==
  ASSUME NEW text \in Seq(Pieces), NEW p \in Pieces, NEW lexer,
         LexInv(text, lexer), SpellInv(text, lexer)
  PROVE  SpellInv(Append(text, p), LexPiece(lexer, p))
<1> DEFINE q == Append(text, p)
           spelled == SpelledAll(lexer.tokens)
           doubled == Doubled(Quote, lexer.buffer)
           sq == Squeezed(text)
<1>1. /\ sq \in Seq(Pieces)
      /\ Squeezed(q) = IF p \notin Spaces \/ Odd(text) THEN Append(sq, p) ELSE sq
      /\ Odd(q) <=> IF p = Quote THEN ~Odd(text) ELSE Odd(text)
  BY SqueezedNext, OddNext
<1>2. /\ lexer \in TextLexers /\ lexer.buffer \in Seq(Pieces)
      /\ lexer.tokens \in Seq(InnerTokens)
      /\ lexer.mode \in {"between", "string", "quote", "error"}
      /\ lexer.mode = "between" => lexer.buffer = <<>>
  BY DEF LexInv, TextLexers, AllTexts
<1>3. Quote \in Pieces /\ Quote \notin Spaces
  <2>1. Quote \notin Spaces
    BY Zenon DEF Quote, Spaces, Blank
  <2> QED
    BY <2>1 DEF Pieces
<1>4. <<Quote>> \in Seq(Pieces) /\ <<p>> \in Seq(Pieces)
  BY <1>3
<1>5. spelled \in Seq(Pieces)
  <2>1. Token("number", <<>>) \in InnerTokens
    BY DEF Token, InnerTokens, TokenTypes, AllTexts, IsText
  <2> QED
    BY <1>2, <2>1, SpelledAppend
<1>6. /\ doubled \in Seq(Pieces)
      /\ Doubled(Quote, Append(lexer.buffer, p))
           = doubled \o (IF p = Quote THEN <<Quote, Quote>> ELSE <<p>>)
  BY <1>2, <1>3, DoubledAppend, Zenon
<1> HIDE DEF q, spelled, doubled, sq
<1>7. Collect(lexer, p).mode = "string" /\ Collect(lexer, p).tokens = lexer.tokens
      /\ Collect(lexer, p).buffer = Append(lexer.buffer, p)
  BY <1>2 DEF Collect, TextLexers
<1>8. CASE lexer.mode = "between"
  <2>1. lexer.buffer = <<>> /\ spelled = sq /\ ~Odd(text)
    BY <1>2, <1>8, SpellModes DEF spelled, sq
  <2>2. SpellInv(q, Between(lexer, p))
    BY <1>2, <1>8, <2>1, SpellBetween DEF q, spelled, sq
  <2> QED
    BY <1>8, <2>2 DEF LexPiece, q
<1>9. CASE lexer.mode = "string" /\ p # Quote
  <2>1. Odd(text) /\ spelled \o (<<Quote>> \o doubled) = sq
    BY <1>9, SpellModes DEF spelled, doubled, sq
  <2>2. Odd(q) /\ Squeezed(q) = Append(sq, p)
    BY <1>1, <1>9, <2>1
  <2>3. spelled \o (<<Quote>> \o (doubled \o <<p>>))
          = (spelled \o (<<Quote>> \o doubled)) \o <<p>>
    BY <1>4, <1>5, <1>6, ConcatAssociative, ConcatProperties
  <2>4. Append(sq, p) = sq \o <<p>>
    BY <1>1, AppendIsConcat
  <2>5. SpelledAll(Collect(lexer, p).tokens)
          \o (<<Quote>> \o Doubled(Quote, Collect(lexer, p).buffer)) = Squeezed(q)
    BY <1>6, <1>7, <1>9, <2>1, <2>2, <2>3, <2>4, Zenon DEF spelled
  <2>6. SpellInv(q, Collect(lexer, p))
    BY <1>7, <2>2, <2>5, SpellModes
  <2> QED
    BY <1>9, <2>6 DEF LexPiece, q
<1>10. CASE lexer.mode = "string" /\ p = Quote
  <2> DEFINE next == [lexer EXCEPT !.mode = "quote"]
  <2>1. Odd(text) /\ spelled \o (<<Quote>> \o doubled) = sq
    BY <1>10, SpellModes DEF spelled, doubled, sq
  <2>2. ~Odd(q) /\ Squeezed(q) = Append(sq, Quote)
    BY <1>1, <1>3, <1>10, <2>1
  <2>3. spelled \o ((<<Quote>> \o doubled) \o <<Quote>>)
          = (spelled \o (<<Quote>> \o doubled)) \o <<Quote>>
    BY <1>4, <1>5, <1>6, ConcatAssociative, ConcatProperties
  <2>4. Append(sq, Quote) = sq \o <<Quote>>
    BY <1>1, <1>3, AppendIsConcat
  <2>5. next.mode = "quote" /\ next.tokens = lexer.tokens /\ next.buffer = lexer.buffer
    BY <1>2 DEF TextLexers
  <2>6. LexPiece(lexer, p) = next
    BY <1>10 DEF LexPiece
  <2> HIDE DEF next
  <2>7. SpelledAll(next.tokens)
          \o ((<<Quote>> \o Doubled(Quote, next.buffer)) \o <<Quote>>) = Squeezed(q)
    BY <2>1, <2>2, <2>3, <2>4, <2>5, Zenon DEF spelled, doubled
  <2>8. SpellInv(q, next)
    BY <2>2, <2>5, <2>7, SpellModes
  <2> QED
    BY <2>6, <2>8 DEF q
<1>11. CASE lexer.mode = "quote" /\ p = Quote
  <2>1. ~Odd(text) /\ spelled \o ((<<Quote>> \o doubled) \o <<Quote>>) = sq
    BY <1>11, SpellModes DEF spelled, doubled, sq
  <2>2. Odd(q) /\ Squeezed(q) = Append(sq, Quote)
    BY <1>1, <1>3, <1>11, <2>1
  <2>3. <<Quote, Quote>> = <<Quote>> \o <<Quote>>
    BY <1>3
  <2>4. spelled \o (<<Quote>> \o (doubled \o (<<Quote>> \o <<Quote>>)))
          = (spelled \o ((<<Quote>> \o doubled) \o <<Quote>>)) \o <<Quote>>
    <3> DEFINE one == <<Quote>>
               lit == one \o doubled
    <3>1. one \in Seq(Pieces)
      BY <1>4
    <3> HIDE DEF one
    <3>2. lit \in Seq(Pieces) /\ lit \o one \in Seq(Pieces) /\ one \o one \in Seq(Pieces)
      BY <1>6, <3>1, ConcatProperties
    <3> DEFINE two == one \o one
    <3>3. one \o (doubled \o two) = (one \o doubled) \o two
      <4>1. two \in Seq(Pieces) /\ doubled \in Seq(Pieces)
        BY <1>6, <3>2
      <4> HIDE DEF two
      <4> QED
        BY <3>1, <4>1, JoinTwice
    <3> HIDE DEF lit
    <3>4. lit \o two = (lit \o one) \o one
      BY <3>1, <3>2, JoinTwice
    <3> DEFINE closed == lit \o one
    <3>5. spelled \o (closed \o one) = (spelled \o closed) \o one
      <4>1. closed \in Seq(Pieces) /\ spelled \in Seq(Pieces) /\ one \in Seq(Pieces)
        BY <1>5, <3>1, <3>2
      <4> HIDE DEF closed, spelled
      <4>2. (spelled \o closed) \o one = spelled \o (closed \o one)
        BY <4>1, JoinTwice
      <4> QED
        BY <4>2
    <3> QED
      BY <3>3, <3>4, <3>5, Zenon DEF one, two, lit, closed
  <2>5. Append(sq, Quote) = sq \o <<Quote>>
    BY <1>1, <1>3, AppendIsConcat
  <2>6. SpelledAll(Collect(lexer, p).tokens)
          \o (<<Quote>> \o Doubled(Quote, Collect(lexer, p).buffer)) = Squeezed(q)
    BY <1>6, <1>7, <1>11, <2>1, <2>2, <2>3, <2>4, <2>5, Zenon DEF spelled
  <2>7. SpellInv(q, Collect(lexer, p))
    BY <1>7, <2>2, <2>6, SpellModes
  <2> QED
    BY <1>11, <2>7 DEF LexPiece, PastQuote, q
<1>12. CASE lexer.mode = "quote" /\ p # Quote
  <2> DEFINE pushed == Push(lexer, "string", lexer.buffer)
  <2>1. ~Odd(text) /\ spelled \o ((<<Quote>> \o doubled) \o <<Quote>>) = sq
    BY <1>12, SpellModes DEF spelled, doubled, sq
  <2>2. pushed \in TextLexers /\ pushed.mode = "between" /\ pushed.buffer = <<>>
    <3>1. lexer.buffer \in AllTexts /\ "string" \in TokenTypes \ {"end"}
      BY <1>2 DEF TextLexers, TokenTypes
    <3> QED
      BY <1>2, <3>1, PushTexts
  <2>3. SpelledAll(pushed.tokens) = sq
    BY <1>2, <2>1, SpellString DEF spelled, doubled
  <2> HIDE DEF pushed
  <2>4. SpellInv(q, Between(pushed, p))
    BY <2>1, <2>2, <2>3, SpellBetween DEF q, sq
  <2> QED
    BY <1>12, <2>4 DEF LexPiece, PastQuote, pushed, q
<1>13. CASE lexer.mode = "error"
  <2>1. SpellInv(q, lexer)
    BY <1>13, SpellModes
  <2> QED
    BY <1>13, <2>1 DEF LexPiece, q
<1> QED
  BY <1>2, <1>8, <1>9, <1>10, <1>11, <1>12, <1>13

\* lex_sql spells every text.
LEMMA LexSpells ==
  \A text \in Seq(Pieces) : IsText(text) => SpellInv(text, Lexed(text))
<1> DEFINE T == {text \in Seq(Pieces) : IsText(text) => SpellInv(text, Lexed(text))}
<1>1. <<>> \in T
  <2>1. Quote \in Pieces /\ <<>> \in Seq(Pieces)
    BY DEF Pieces
  <2>2. Lexed(<<>>) = LexStart
    BY <2>1, Lexeds
  <2>3. SpelledAll(<<>>) = <<>>
    <3>1. Token("number", <<>>) \in InnerTokens /\ <<>> \in Seq(InnerTokens)
      BY DEF Token, InnerTokens, TokenTypes, AllTexts, IsText
    <3> QED
      BY <3>1, SpelledAppend
  <2>4. Squeezed(<<>>) = <<>> /\ ~Odd(<<>>)
    BY <2>1, SqueezedNext, OddNext, Zenon
  <2>5. LexStart.mode = "between" /\ LexStart.tokens = <<>>
    BY DEF LexStart
  <2>6. SpellInv(<<>>, LexStart)
    BY <2>3, <2>4, <2>5, SpellModes
  <2> QED
    BY <2>1, <2>2, <2>6
<1>2. ASSUME NEW s \in Seq(Pieces), NEW e \in Pieces, s \in T
      PROVE  Append(s, e) \in T
  <2>1. Append(s, e) \in Seq(Pieces)
    OBVIOUS
  <2>2. ASSUME IsText(Append(s, e))
        PROVE  SpellInv(Append(s, e), Lexed(Append(s, e)))
    <3>1. IsText(s)
      BY <2>2, TextAppend
    <3>2. LexInv(s, Lexed(s)) /\ SpellInv(s, Lexed(s))
      BY <1>2, <3>1, LexTexts
    <3>3. Lexed(Append(s, e)) = LexPiece(Lexed(s), e)
      BY Lexeds
    <3> QED
      BY <3>2, <3>3, SpellPiece
  <2> QED
    BY <2>1, <2>2
<1> HIDE DEF T
<1>3. \A s \in Seq(Pieces) : s \in T
  BY <1>1, <1>2, InductionByLast
<1> QED
  BY <1>3 DEF T

\* All but the last of a sequence with one more element.
LEMMA FrontAppend ==
  ASSUME NEW S, NEW s \in Seq(S), NEW e
  PROVE  Front(Append(s, e)) = s
<1> DEFINE q == Append(s, e)
           n == Len(s)
           T == S \cup {e}
<1>1. /\ s \in Seq(T) /\ q \in Seq(T) /\ n \in Nat /\ Len(q) = n + 1
      /\ \A i \in 1 .. n : q[i] = s[i] /\ q[i] \in T
  OBVIOUS
<1>2. Front(q) = SubSeq(q, 1, n)
  BY <1>1 DEF Front
<1> HIDE DEF q, T
<1>3. /\ SubSeq(q, 1, n) \in Seq(T) /\ Len(SubSeq(q, 1, n)) = n
      /\ \A i \in 1 .. n : SubSeq(q, 1, n)[i] = q[i]
  BY <1>1, SubSeqProperties
<1>4. SubSeq(q, 1, n) = s
  BY <1>1, <1>3, SeqEqual
<1> QED
  BY <1>2, <1>4 DEF q

\* A sentence of the grammar ends with a semicolon.
LEMMA SentenceEnds ==
  ASSUME NEW t, Readings(t) # {}, Len(t) \in Nat
  PROVE  Len(t) - 1 \in 1 .. Len(t) /\ t[Len(t) - 1].type = Semicolon
<1>1. CASE InsertReadings(t) # {}
  <2>1. PICK n \in 1 .. Len(t), m \in 1 .. Len(t) :
          /\ Len(t) = 8 + 2 * n + 2 * m
          /\ TypesAt(t, 6 + 2 * n + 2 * m, <<")", Semicolon, "end">>)
    BY <1>1, Zenon DEF InsertReadings
  <2>2. t[(6 + 2 * n + 2 * m) + 2 - 1].type = Semicolon
    <3>1. 2 \in DOMAIN <<")", Semicolon, "end">> /\ <<")", Semicolon, "end">>[2] = Semicolon
      OBVIOUS
    <3> QED
      BY <2>1, <3>1, Zenon DEF TypesAt
  <2>3. (6 + 2 * n + 2 * m) + 2 - 1 = Len(t) - 1 /\ Len(t) - 1 \in 1 .. Len(t)
    BY <2>1
  <2> QED
    BY <2>2, <2>3, Zenon
<1>2. CASE SelectReadings(t) # {}
  <2>1. PICK n \in 0 .. Len(t), from \in 1 .. Len(t), where \in BOOLEAN :
          /\ Len(t) = from + (IF where THEN 7 ELSE 3)
          /\ TypesAt(t, Len(t) - 1, <<Semicolon, "end">>)
    BY <1>2, Zenon DEF SelectReadings
  <2>2. t[(Len(t) - 1) + 1 - 1].type = Semicolon
    <3>1. 1 \in DOMAIN <<Semicolon, "end">> /\ <<Semicolon, "end">>[1] = Semicolon
      OBVIOUS
    <3> QED
      BY <2>1, <3>1, Zenon DEF TypesAt
  <2>3. (Len(t) - 1) + 1 - 1 = Len(t) - 1 /\ Len(t) - 1 \in 1 .. Len(t)
    BY <2>1
  <2> QED
    BY <2>2, <2>3, Zenon
<1> QED
  BY <1>1, <1>2 DEF Readings

(* The tokens of a statement that parse_statement accepts spell its text,  *)
(* but for the white space outside its literals, and every literal of the  *)
(* text is closed: for texts and literals of any length, with any quotes.  *)
THEOREM LexExact ==
  ASSUME NEW text \in AllTexts, Lex(text).ok, Parse(Lex(text).tokens).at = "done"
  PROVE  LiteralsClosed(text) /\ SpelledAll(Front(Lex(text).tokens)) = Squeezed(text)
<1> DEFINE l == Lexed(text)
           lexer == LexEnd(l, text)
           all == Append(lexer.tokens, Token("end", <<>>))
<1>1. LexInv(text, l) /\ SpellInv(text, l) /\ text \in Seq(Pieces)
  BY LexTexts, LexSpells DEF AllTexts
<1>2. l \in TextLexers /\ l.mode \in {"between", "string", "quote", "error"}
  BY <1>1 DEF LexInv, TextLexers
<1>3. Lex(text) = IF lexer.mode = "error" THEN [ok |-> FALSE, tokens |-> <<>>]
                  ELSE [ok |-> TRUE, tokens |-> all]
  BY DEF Lex, Lexed
<1>4. lexer.mode # "error" /\ Lex(text).tokens = all
  BY <1>3
<1>5. all \in Seq(Tokens) /\ \A i \in 1 .. Len(all) : all[i].type = "end" => i = Len(all)
  <2>1. /\ Lex(text).tokens \in Seq(Tokens)
        /\ \A i \in 1 .. Len(Lex(text).tokens) :
             Lex(text).tokens[i].type = "end" => i = Len(Lex(text).tokens)
    BY LexTokens
  <2> QED
    BY <1>4, <2>1
<1>6. Readings(all) # {}
  <2>1. Parse(all).at = "done"
    BY <1>4
  <2> HIDE DEF all
  <2>2. Readings(all) = {Parse(all).statement}
    BY <1>5, <2>1, ParseExact
  <2> QED
    BY <2>2
<1>7. lexer.tokens \in Seq(InnerTokens)
  <2>1. l.buffer \in AllTexts /\ "string" \in TokenTypes \ {"end"}
    BY <1>2 DEF TextLexers, TokenTypes
  <2> HIDE DEF l
  <2>2. Push(l, "string", l.buffer) \in TextLexers
    BY <1>2, <2>1, PushTexts
  <2>3. lexer \in TextLexers
    BY <1>2, <1>4, <2>2 DEF LexEnd, TextLexers
  <2> QED
    BY <2>3 DEF TextLexers
<1> HIDE DEF l, lexer
<1>8. /\ Len(all) = Len(lexer.tokens) + 1 /\ Len(lexer.tokens) \in Nat
      /\ \A i \in 1 .. Len(lexer.tokens) : all[i] = lexer.tokens[i]
  BY <1>7
<1>9. Len(lexer.tokens) > 0 /\ lexer.tokens[Len(lexer.tokens)].type = Semicolon
  <2> HIDE DEF all
  <2>1. Len(all) - 1 \in 1 .. Len(all) /\ all[Len(all) - 1].type = Semicolon
    BY <1>6, <1>8, SentenceEnds
  <2>2. Len(all) - 1 = Len(lexer.tokens) /\ Len(lexer.tokens) \in 1 .. Len(lexer.tokens)
    BY <1>8, <2>1
  <2> QED
    BY <1>8, <2>1, <2>2
<1>10. Front(all) = lexer.tokens
  BY <1>7, FrontAppend
<1>11. ~Odd(text) /\ SpelledAll(lexer.tokens) = Squeezed(text)
  <2>1. CASE l.mode = "between"
    <3>1. lexer = l
      BY <2>1 DEF LexEnd, lexer
    <3> QED
      BY <1>1, <2>1, <3>1, SpellModes
  <2>2. CASE l.mode = "quote"
    <3>1. lexer = Push(l, "string", l.buffer)
      BY <2>2 DEF LexEnd, lexer
    <3>2. SpelledAll(lexer.tokens)
            = SpelledAll(l.tokens) \o ((<<Quote>> \o Doubled(Quote, l.buffer)) \o <<Quote>>)
      BY <1>2, <3>1, SpellString
    <3> QED
      BY <1>1, <2>2, <3>2, SpellModes
  <2>3. CASE l.mode = "string"
    <3>1. CASE Last(text) = Quote
      <4>1. lexer = Push(l, "string", l.buffer)
        BY <2>3, <3>1 DEF LexEnd, lexer
      <4>2. lexer.tokens = Append(l.tokens, Token("string", l.buffer))
        BY <4>1 DEF Push
      <4>3. l.tokens \in Seq(InnerTokens)
        BY <1>2 DEF TextLexers
      <4>4. lexer.tokens[Len(lexer.tokens)] = Token("string", l.buffer)
        BY <4>2, <4>3
      <4>5. Token("string", l.buffer).type = "string"
        BY DEF Token
      <4> QED
        BY <1>9, <4>4, <4>5, Marks
    <3>2. CASE Last(text) # Quote
      BY <1>2, <1>4, <2>3, <3>2 DEF LexEnd, lexer, TextLexers
    <3> QED
      BY <3>1, <3>2
  <2>4. CASE l.mode = "error"
    BY <1>4, <2>4 DEF LexEnd, lexer
  <2> QED
    BY <1>2, <2>1, <2>2, <2>3, <2>4
<1>12. LiteralsClosed(text)
  BY <1>11 DEF LiteralsClosed, Odd
<1>13. SpelledAll(Front(all)) = Squeezed(text)
  BY <1>10, <1>11
<1> HIDE DEF all
<1> QED
  BY <1>4, <1>12, <1>13

-----------------------------------------------------------------------------
(* The lines of a file. *)

\* The line that starts at a position ends before another one.
LineEnds(file, i, end) ==
  /\ end \in i .. Len(file) + 1
  /\ \A k \in i .. end - 1 : file[k] # "newline"
  /\ end = Len(file) + 1 \/ file[end] = "newline"

\* Where the line at a position ends.
LEMMA LineEndExists ==
  ASSUME NEW file \in Seq(Pieces), NEW i \in 1 .. Len(file)
  PROVE  \E end \in 1 .. Len(file) + 1 : LineEnds(file, i, end)
<1> DEFINE n == Len(file)
           I == {k \in i .. n : file[k] = "newline"}
<1>1. n \in Nat /\ i \in 1 .. n
  OBVIOUS
<1>2. CASE I = {}
  <2>1. LineEnds(file, i, n + 1)
    BY <1>1, <1>2 DEF LineEnds
  <2> QED
    BY <1>1, <2>1
<1>3. CASE I # {}
  <2>1. I \in SUBSET Nat
    BY <1>1
  <2>2. PICK x \in I : \A y \in I : x <= y
    <3> HIDE DEF I
    <3> QED
      BY <1>3, <2>1, LeastNumber
  <2>3. \A k \in i .. x - 1 : k \notin I
    BY <1>1, <2>1, <2>2
  <2>4. LineEnds(file, i, x)
    BY <1>1, <2>2, <2>3 DEF LineEnds
  <2> QED
    BY <1>1, <2>2, <2>4
<1> QED
  BY <1>2, <1>3

\* What fgets returns of a line.
LEMMA LineAtIs ==
  ASSUME NEW file \in Seq(Pieces), NEW i \in 1 .. Len(file), NEW end,
         LineEnds(file, i, end)
  PROVE  LineAt(file, i) = SubSeq(file, i, end - 1)
<1> DEFINE n == Len(file)
           I == {k \in i .. n : file[k] = "newline"}
           m == IF I # {} THEN Min(I) ELSE 0
<1>1. n \in Nat /\ i \in 1 .. n /\ end \in i .. n + 1
  BY DEF LineEnds
<1>2. LineAt(file, i) = SubSeq(file, i, IF m = 0 THEN n ELSE m - 1)
  BY DEF LineAt, SelectInSubSeq
<1>3. I \subseteq 1 .. n
  BY <1>1
<1>4. CASE I = {}
  <2>1. end = n + 1
    BY <1>1, <1>4 DEF LineEnds
  <2>2. m = 0 /\ end - 1 = n
    BY <1>1, <1>4, <2>1
  <2> HIDE DEF m
  <2> QED
    BY <1>2, <2>2
<1>5. CASE I # {}
  <2>1. Min(I) \in I /\ \A k \in I : Min(I) <= k
    <3> HIDE DEF I
    <3> QED
      BY <1>1, <1>3, <1>5, FirstAndLast
  <2>2. m = Min(I)
    BY <1>5
  <2> DEFINE x == Min(I)
  <2>3. x \in I /\ x \in i .. n /\ file[x] = "newline" /\ \A k \in I : x <= k
    BY <2>1
  <2> HIDE DEF x
  <2>4. end \in I
    BY <1>1, <2>3 DEF LineEnds
  <2>5. end = x
    BY <1>1, <2>3, <2>4 DEF LineEnds
  <2>6. m = end /\ m # 0
    BY <1>1, <2>2, <2>5 DEF x
  <2> HIDE DEF m
  <2> QED
    BY <1>2, <2>6
<1> QED
  BY <1>4, <1>5

\* Only a position with an end of line is an empty line.
LEMMA LineAtTypes ==
  ASSUME NEW file \in Seq(Pieces), NEW i \in 1 .. Len(file)
  PROVE  /\ LineAt(file, i) \in Seq(Pieces)
         /\ IsText(file) => IsText(LineAt(file, i))
         /\ LineAt(file, i) # <<>> <=> file[i] # "newline"
         /\ \A k \in 1 .. Len(LineAt(file, i)) : LineAt(file, i)[k] # "newline"
<1>1. PICK end \in 1 .. Len(file) + 1 : LineEnds(file, i, end)
  BY LineEndExists
<1> DEFINE n == Len(file)
           q == SubSeq(file, i, end - 1)
<1>2. n \in Nat /\ end \in i .. n + 1 /\ i \in 1 .. n + 1 /\ end - 1 \in 0 .. n
  BY <1>1 DEF LineEnds
<1>3. LineAt(file, i) = q
  BY <1>1, LineAtIs
<1>4. q \in Seq(Pieces) /\ (IsText(file) => IsText(q))
  BY <1>2, PartTypes
<1>5. /\ Len(q) = (IF i <= end - 1 THEN (end - 1) - i + 1 ELSE 0)
      /\ \A k \in 1 .. (end - 1) - i + 1 : q[k] = file[i + k - 1]
  <2>1. \A k \in i .. end - 1 : file[k] \in Pieces
    BY <1>2
  <2> QED
    BY <1>2, <2>1, SubSeqProperties
<1>6. q # <<>> <=> Len(q) # 0
  BY <1>4, EmptySeq
<1>7. file[i] # "newline" <=> end # i
  BY <1>1, <1>2 DEF LineEnds
<1>8. Len(q) = end - i
  BY <1>2, <1>5
<1> HIDE DEF q
<1>9. ASSUME NEW k \in 1 .. Len(q)
      PROVE  q[k] # "newline"
  <2>1. k \in 1 .. (end - 1) - i + 1 /\ i + k - 1 \in i .. end - 1
    BY <1>2, <1>8
  <2> QED
    BY <1>1, <1>5, <2>1 DEF LineEnds
<1>10. q # <<>> <=> file[i] # "newline"
  BY <1>2, <1>6, <1>7, <1>8
<1> QED
  BY <1>3, <1>4, <1>9, <1>10

\* The positions that RowStarts lists.
RowPlaces(file) == {i \in LineStarts(file) \ {1} : LineAt(file, i) # <<>>}

\* A row starts behind an end of line, at a piece that is none.
LEMMA RowPlacesAre ==
  ASSUME NEW file \in Seq(Pieces), NEW i \in 1 .. Len(file)
  PROVE  i \in RowPlaces(file) <=>
           i # 1 /\ file[i - 1] = "newline" /\ file[i] # "newline"
<1>1. DOMAIN file = 1 .. Len(file)
  OBVIOUS
<1>2. LineAt(file, i) # <<>> <=> file[i] # "newline"
  BY LineAtTypes
<1> QED
  BY <1>1, <1>2 DEF RowPlaces, LineStarts

\* The rows of a file start inside it.
LEMMA RowStartTypes ==
  ASSUME NEW file \in Seq(Pieces)
  PROVE  /\ RowStarts(file) = InOrder(Len(file), RowPlaces(file))
         /\ RowStarts(file) \in Seq(RowPlaces(file) \cap (1 .. Len(file)))
         /\ RowStarts(file) \in Seq(1 .. Len(file))
<1>1. RowStarts(file) = InOrder(Len(file), RowPlaces(file))
  BY Zenon DEF RowStarts, RowPlaces
<1>2. Len(file) \in Nat
  OBVIOUS
<1>3. InOrder(Len(file), RowPlaces(file)) \in Seq(RowPlaces(file) \cap (1 .. Len(file)))
  BY <1>2, InOrderLists
<1> DEFINE q == RowStarts(file)
           R == 1 .. Len(file)
           P == RowPlaces(file) \cap R
<1>4. q \in Seq(P) /\ P \subseteq R
  BY <1>1, <1>3
<1> HIDE DEF q, P, R
<1>5. q \in Seq(R)
  BY <1>4
<1> QED
  BY <1>1, <1>3, <1>5 DEF q, R

(* append_row_csv. *)

\* What is where in two sequences together.
IsJoin(q, a, b) ==
  /\ Len(q) = Len(a) + Len(b) /\ Len(a) \in Nat /\ Len(b) \in Nat
  /\ \A i \in 1 .. Len(a) : q[i] = a[i]
  /\ \A i \in 1 .. Len(b) : q[Len(a) + i] = b[i]

\* Joining two sequences.
LEMMA JoinedTypes ==
  ASSUME NEW S, NEW a \in Seq(S), NEW b \in Seq(S)
  PROVE  a \o b \in Seq(S) /\ IsJoin(a \o b, a, b)
<1>1. /\ a \o b \in Seq(S) /\ Len(a \o b) = Len(a) + Len(b)
      /\ Len(a) \in Nat /\ Len(b) \in Nat
      /\ \A i \in 1 .. Len(a) + Len(b) :
           (a \o b)[i] = IF i <= Len(a) THEN a[i] ELSE b[i - Len(a)]
  BY ConcatProperties, LenProperties
<1>2. \A i \in 1 .. Len(a) : i \in 1 .. Len(a) + Len(b) /\ i <= Len(a)
  BY <1>1
<1>3. ASSUME NEW i \in 1 .. Len(b)
      PROVE  (a \o b)[Len(a) + i] = b[i]
  <2>1. /\ Len(a) + i \in 1 .. Len(a) + Len(b) /\ ~(Len(a) + i <= Len(a))
        /\ (Len(a) + i) - Len(a) = i
    BY <1>1
  <2> QED
    BY <1>1, <2>1
<1> QED
  BY <1>1, <1>2, <1>3 DEF IsJoin

\* A row without an end of line, and at least one piece of it.
IsRowText(line) ==
  /\ line \in Seq(Pieces) /\ line # <<>>
  /\ \A k \in 1 .. Len(line) : line[k] # "newline"

\* A file with one more line, as append_row_csv leaves it.
Extended(file, line) ==
  file \o (IF AppendStart(file) = Len(file) + 2 THEN <<"newline">> ELSE <<>>) \o line

\* What is where in the new file.
IsExtended(new, file, line, a) ==
  /\ new \in Seq(Pieces) /\ Len(file) \in Nat /\ Len(new) \in Nat
  /\ a \in {Len(file) + 1, Len(file) + 2} /\ a \in 2 .. Len(new)
  /\ Len(new) = a - 1 + Len(line)
  /\ \A i \in 1 .. Len(file) : new[i] = file[i]
  /\ new[a - 1] = "newline"
  /\ \A i \in 1 .. Len(line) : new[a - 1 + i] = line[i]
  /\ \A i \in a .. Len(new) : new[i] # "newline"

\* append_row_csv supplies an end of line where one is missing.
LEMMA ExtendedPlaces ==
  ASSUME NEW file \in Seq(Pieces), file # <<>>, NEW line, IsRowText(line)
  PROVE  IsExtended(Extended(file, line), file, line, AppendStart(file))
<1> DEFINE n == Len(file)
           a == AppendStart(file)
           gap == IF a = n + 2 THEN <<"newline">> ELSE <<>>
           base == file \o gap
           new == base \o line
<1>1. n \in Nat /\ n # 0 /\ line \in Seq(Pieces) /\ Len(line) \in Nat /\ Len(line) # 0
  BY EmptySeq DEF IsRowText
<1>2. a = IF file[n] # "newline" THEN n + 2 ELSE n + 1
  BY <1>1 DEF AppendStart, Last
<1>3. "newline" \in Pieces
  BY DEF Pieces, Spaces
<1>4. gap \in Seq(Pieces) /\ Len(gap) = a - 1 - n /\ (a = n + 2 => gap[1] = "newline")
  BY <1>1, <1>2, <1>3
<1>5. a \in {n + 1, n + 2}
  BY <1>2
<1> HIDE DEF gap
<1>6. /\ base \in Seq(Pieces) /\ Len(base) = a - 1
      /\ \A i \in 1 .. n : base[i] = file[i]
      /\ \A i \in 1 .. Len(gap) : base[n + i] = gap[i]
  <2>1. /\ base \in Seq(Pieces) /\ Len(base) = n + Len(gap)
        /\ \A i \in 1 .. n : base[i] = file[i]
        /\ \A i \in 1 .. Len(gap) : base[n + i] = gap[i]
    <3>1. base \in Seq(Pieces) /\ IsJoin(base, file, gap)
      BY <1>4, JoinedTypes
    <3> HIDE DEF base
    <3> QED
      BY <3>1 DEF IsJoin
  <2>2. n + Len(gap) = a - 1
    BY <1>1, <1>4, <1>5
  <2> QED
    BY <2>1, <2>2
<1>7. base[a - 1] = "newline"
  <2>1. CASE a = n + 2
    <3>1. 1 \in 1 .. Len(gap) /\ n + 1 = a - 1
      BY <1>1, <1>4, <2>1
    <3> QED
      BY <1>4, <1>6, <2>1, <3>1
  <2>2. CASE a = n + 1
    <3>1. a - 1 = n /\ n \in 1 .. n /\ file[n] = "newline"
      BY <1>1, <1>2, <2>2
    <3> QED
      BY <1>6, <3>1
  <2> QED
    BY <1>5, <2>1, <2>2
<1> HIDE DEF base
<1>8. /\ new \in Seq(Pieces) /\ Len(new) = a - 1 + Len(line)
      /\ \A i \in 1 .. a - 1 : new[i] = base[i]
      /\ \A i \in 1 .. Len(line) : new[a - 1 + i] = line[i]
  <2>1. /\ new \in Seq(Pieces) /\ Len(new) = Len(base) + Len(line)
        /\ \A i \in 1 .. Len(base) : new[i] = base[i]
        /\ \A i \in 1 .. Len(line) : new[Len(base) + i] = line[i]
    <3>1. new \in Seq(Pieces) /\ IsJoin(new, base, line)
      BY <1>1, <1>6, JoinedTypes
    <3> HIDE DEF new
    <3> QED
      BY <3>1 DEF IsJoin
  <2> QED
    BY <1>6, <2>1
<1>9. Extended(file, line) = new
  BY DEF Extended, base, gap
<1> HIDE DEF new, a
<1>10. a \in 2 .. Len(new) /\ \A i \in 1 .. n : new[i] = file[i]
  <2> DEFINE l == Len(new)
             k == Len(line)
  <2>1. l = a - 1 + k /\ n \in Nat /\ n > 0 /\ k \in Nat /\ k > 0 /\ a \in {n + 1, n + 2}
    BY <1>1, <1>5, <1>8
  <2> HIDE DEF l, k, n
  <2>2. a \in 2 .. l /\ \A i \in 1 .. n : i \in 1 .. a - 1
    BY <2>1
  <2> QED
    BY <1>6, <1>8, <2>2 DEF l, n
<1>11. new[a - 1] = "newline"
  BY <1>1, <1>5, <1>7, <1>8
<1>12. ASSUME NEW i \in a .. Len(new)
       PROVE  new[i] # "newline"
  <2>1. i - (a - 1) \in 1 .. Len(line) /\ a - 1 + (i - (a - 1)) = i
    BY <1>1, <1>5, <1>8
  <2> QED
    BY <1>8, <2>1 DEF IsRowText
<1>13. Len(new) \in Nat
  BY <1>8
<1> QED
  BY <1>1, <1>5, <1>8, <1>9, <1>10, <1>11, <1>12, <1>13 DEF a, IsExtended

\* The new row starts where append_row_csv put it, and the others where they did.
LEMMA StartsGrow ==
  ASSUME NEW file \in Seq(Pieces), file # <<>>, NEW line, IsRowText(line)
  PROVE  RowStarts(Extended(file, line)) = Append(RowStarts(file), AppendStart(file))
<1> DEFINE n == Len(file)
           a == AppendStart(file)
           new == Extended(file, line)
           P == RowPlaces(file)
           Q == RowPlaces(new)
<1>0. IsExtended(new, file, line, a)
  BY ExtendedPlaces
<1>1. /\ new \in Seq(Pieces) /\ n \in Nat
      /\ a \in {n + 1, n + 2} /\ a \in 2 .. Len(new) /\ Len(new) \in Nat
      /\ \A i \in 1 .. n : new[i] = file[i]
      /\ new[a - 1] = "newline"
      /\ \A i \in a .. Len(new) : new[i] # "newline"
  BY <1>0 DEF IsExtended
<1>2. /\ RowStarts(file) = InOrder(n, P)
      /\ RowStarts(new) = InOrder(Len(new), Q)
  BY <1>1, RowStartTypes
<1>3. /\ \A i \in 1 .. n :
           i \in P <=> i # 1 /\ file[i - 1] = "newline" /\ file[i] # "newline"
      /\ \A i \in 1 .. Len(new) :
           i \in Q <=> i # 1 /\ new[i - 1] = "newline" /\ new[i] # "newline"
  BY <1>1, RowPlacesAre
<1> HIDE DEF a, new, P, Q
<1>4. \A i \in 1 .. n : i \in P <=> i \in Q
  <2> SUFFICES ASSUME NEW i \in 1 .. n
               PROVE  i \in P <=> i \in Q
    OBVIOUS
  <2>1. i \in 1 .. Len(new) /\ new[i] = file[i]
    BY <1>1
  <2>2. i # 1 => i - 1 \in 1 .. n /\ new[i - 1] = file[i - 1]
    BY <1>1
  <2> QED
    BY <1>3, <2>1, <2>2
<1>5. a \in Q
  BY <1>1, <1>3
<1>6. \A i \in a + 1 .. Len(new) : i \notin Q
  <2> SUFFICES ASSUME NEW i \in a + 1 .. Len(new)
               PROVE  i \notin Q
    OBVIOUS
  <2>1. i - 1 \in a .. Len(new) /\ i \in 1 .. Len(new)
    BY <1>1
  <2> QED
    BY <1>1, <1>3, <2>1
<1>7. \A i \in n + 1 .. a - 1 : i \notin Q
  <2> SUFFICES ASSUME NEW i \in n + 1 .. a - 1
               PROVE  i \notin Q
    OBVIOUS
  <2>1. i = a - 1 /\ i \in 1 .. Len(new)
    BY <1>1
  <2> QED
    BY <1>1, <1>3, <2>1
<1>8. InOrder(Len(new), Q) = InOrder(a, Q)
  <2>1. a \in Nat /\ a <= Len(new)
    BY <1>1
  <2> QED
    BY <1>1, <1>6, <2>1, InOrderSkips
<1>9. InOrder(a, Q) = Append(InOrder(a - 1, Q), a)
  <2>1. a - 1 \in Nat /\ (a - 1) + 1 = a
    BY <1>1
  <2>2. InOrder((a - 1) + 1, Q) = IF (a - 1) + 1 \in Q
                                  THEN Append(InOrder(a - 1, Q), (a - 1) + 1)
                                  ELSE InOrder(a - 1, Q)
    BY <2>1, InOrderNext
  <2> QED
    BY <1>5, <2>1, <2>2
<1>10. InOrder(a - 1, Q) = InOrder(n, Q)
  <2>1. a - 1 \in Nat /\ n <= a - 1
    BY <1>1
  <2> QED
    BY <1>1, <1>7, <2>1, InOrderSkips
<1>11. InOrder(n, P) = InOrder(n, Q)
  BY <1>1, <1>4, InOrderSame
<1>12. RowStarts(new) = Append(RowStarts(file), a)
  BY <1>2, <1>8, <1>9, <1>10, <1>11
<1> QED
  BY <1>12 DEF new, a

\* The lines of the old file stay, and the new one is the row.
LEMMA LinesGrow ==
  ASSUME NEW file \in Seq(Pieces), file # <<>>, NEW line, IsRowText(line)
  PROVE  /\ \A i \in 1 .. Len(file) :
              LineAt(Extended(file, line), i) = LineAt(file, i)
         /\ LineAt(Extended(file, line), AppendStart(file)) = line
<1> DEFINE n == Len(file)
           a == AppendStart(file)
           new == Extended(file, line)
<1>0. IsExtended(new, file, line, a)
  BY ExtendedPlaces
<1>1. /\ new \in Seq(Pieces) /\ n \in Nat /\ Len(new) = a - 1 + Len(line)
      /\ a \in {n + 1, n + 2} /\ a \in 2 .. Len(new) /\ Len(new) \in Nat
      /\ \A i \in 1 .. n : new[i] = file[i]
      /\ new[a - 1] = "newline"
      /\ \A i \in 1 .. Len(line) : new[a - 1 + i] = line[i]
      /\ \A i \in a .. Len(new) : new[i] # "newline"
  BY <1>0 DEF IsExtended
<1> HIDE DEF a, new
<1>2. ASSUME NEW i \in 1 .. n
      PROVE  LineAt(new, i) = LineAt(file, i)
  <2>1. PICK end \in 1 .. n + 1 : LineEnds(file, i, end)
    BY LineEndExists
  <2>2. /\ end \in i .. n + 1 /\ \A k \in i .. end - 1 : file[k] # "newline"
        /\ end = n + 1 \/ file[end] = "newline"
    BY <2>1 DEF LineEnds
  <2>3. i \in 1 .. Len(new)
    BY <1>1
  <2>4. LineEnds(new, i, end)
    <3>1. end \in i .. Len(new) + 1
      BY <1>1, <2>2
    <3>2. \A k \in i .. end - 1 : new[k] # "newline"
      <4>1. \A k \in i .. end - 1 : k \in 1 .. n
        BY <1>1, <2>2
      <4> QED
        BY <1>1, <2>2, <4>1
    <3>3. new[end] = "newline"
      <4>1. CASE end = n + 1
        <5>1. CASE a = n + 2
          BY <1>1, <4>1, <5>1
        <5>2. CASE a = n + 1
          <6>1. n \in i .. end - 1 /\ n \in 1 .. n /\ a - 1 = n
            BY <1>1, <4>1, <5>2
          <6> QED
            BY <1>1, <3>2, <6>1
        <5> QED
          BY <1>1, <5>1, <5>2
      <4>2. CASE end # n + 1
        <5>1. end \in 1 .. n
          <6>1. n \in Nat /\ i \in 1 .. n /\ end \in i .. n + 1
            BY <1>1, <2>2
          <6> HIDE DEF n
          <6> QED
            BY <4>2, <6>1
        <5> QED
          BY <1>1, <2>2, <4>2, <5>1
      <4> QED
        BY <4>1, <4>2
    <3> QED
      BY <3>1, <3>2, <3>3 DEF LineEnds
  <2>5. LineAt(file, i) = SubSeq(file, i, end - 1) /\ LineAt(new, i) = SubSeq(new, i, end - 1)
    BY <1>1, <2>1, <2>3, <2>4, LineAtIs
  <2>6. SubSeq(file, i, end - 1) = SubSeq(new, i, end - 1)
    <3> DEFINE l == SubSeq(file, i, end - 1)
               r == SubSeq(new, i, end - 1)
               m == (end - 1) - i + 1
    <3>1. \A k \in i .. end - 1 : k \in 1 .. n /\ file[k] \in Pieces /\ new[k] = file[k]
      BY <1>1, <2>2
    <3>2. i \in Int /\ end - 1 \in Int /\ m \in Nat
      BY <1>1, <2>2
    <3>3. /\ l \in Seq(Pieces) /\ Len(l) = (IF i <= end - 1 THEN m ELSE 0)
          /\ \A k \in 1 .. m : l[k] = file[i + k - 1]
      BY <3>1, <3>2, SubSeqProperties
    <3>4. /\ r \in Seq(Pieces) /\ Len(r) = (IF i <= end - 1 THEN m ELSE 0)
          /\ \A k \in 1 .. m : r[k] = new[i + k - 1]
      BY <3>1, <3>2, SubSeqProperties
    <3>5. \A k \in 1 .. m : i + k - 1 \in i .. end - 1
      BY <3>2
    <3>6. Len(l) <= m
      BY <3>2, <3>3
    <3> HIDE DEF l, r, m
    <3>7. \A k \in 1 .. Len(l) : l[k] = r[k]
      <4>1. \A k \in 1 .. Len(l) : k \in 1 .. m
        BY <3>2, <3>3, <3>6
      <4> QED
        BY <3>1, <3>3, <3>4, <3>5, <4>1
    <3>8. Len(l) = Len(r)
      BY <3>3, <3>4
    <3>9. l = r
      BY <3>3, <3>4, <3>7, <3>8, SeqEqual
    <3> QED
      BY <3>9 DEF l, r
  <2> QED
    BY <2>5, <2>6
<1>3. LineAt(new, a) = line
  <2> DEFINE end == Len(new) + 1
             l == SubSeq(new, a, end - 1)
             m == (end - 1) - a + 1
  <2>1. LineEnds(new, a, end) /\ a \in 1 .. Len(new)
    BY <1>1 DEF LineEnds
  <2>2. LineAt(new, a) = l
    BY <1>1, <2>1, LineAtIs
  <2>3. line \in Seq(Pieces) /\ Len(line) \in Nat
    BY DEF IsRowText
  <2>4. m = Len(line) /\ a <= end - 1 /\ a \in Int /\ end - 1 \in Int
    BY <1>1, <2>3
  <2>5. \A k \in a .. end - 1 : new[k] \in Pieces
    BY <1>1
  <2>6. /\ l \in Seq(Pieces) /\ Len(l) = (IF a <= end - 1 THEN m ELSE 0)
        /\ \A k \in 1 .. m : l[k] = new[a + k - 1]
    BY <1>1, <2>4, <2>5, SubSeqProperties
  <2>7. \A k \in 1 .. m : a + k - 1 = a - 1 + k
    BY <1>1, <2>3, <2>4
  <2> HIDE DEF l, m, end
  <2>8. Len(l) = Len(line) /\ \A k \in 1 .. Len(l) : l[k] = line[k]
    BY <1>1, <2>4, <2>6, <2>7
  <2>9. l = line
    BY <2>3, <2>6, <2>8, SeqEqual
  <2> QED
    BY <2>2, <2>9
<1> QED
  BY <1>2, <1>3 DEF new, a

\* A row more, and the others as they were.
LEMMA RowsGrow ==
  ASSUME NEW file \in Seq(Pieces), file # <<>>, NEW line, IsRowText(line)
  PROVE  RowsOf(Extended(file, line)) = Append(RowsOf(file), ParseLine(line))
<1> DEFINE n == Len(file)
           a == AppendStart(file)
           new == Extended(file, line)
           starts == RowStarts(file)
           more == RowStarts(new)
           L == Len(starts)
<1>1. more = Append(starts, a)
  BY StartsGrow
<1>2. starts \in Seq(1 .. n) /\ n \in Nat
  <2>1. n \in Nat
    OBVIOUS
  <2> QED
    BY <2>1, RowStartTypes, Zenon
<1>3. /\ \A i \in 1 .. n : LineAt(new, i) = LineAt(file, i)
      /\ LineAt(new, a) = line
  BY LinesGrow
<1>4. /\ RowsOf(file) = [k \in DOMAIN starts |-> ParseLine(LineAt(file, starts[k]))]
      /\ RowsOf(new) = [k \in DOMAIN more |-> ParseLine(LineAt(new, more[k]))]
  BY Zenon DEF RowsOf
<1> HIDE DEF a, new, starts, more
<1>5. L \in Nat /\ DOMAIN starts = 1 .. L /\ \A k \in 1 .. L : starts[k] \in 1 .. n
  BY <1>2, LenProperties, ElementOfSeq
<1>6. /\ DOMAIN more = 1 .. L + 1 /\ more[L + 1] = a
      /\ \A k \in 1 .. L : more[k] = starts[k]
  <2> DEFINE S == (1 .. n) \cup {a}
  <2>1. starts \in Seq(S) /\ a \in S
    <3> DEFINE R == 1 .. n
    <3>1. starts \in Seq(R)
      BY <1>2
    <3> HIDE DEF R
    <3>2. starts \in Seq(R \cup {a}) /\ a \in R \cup {a}
      BY <3>1
    <3> QED
      BY <3>2 DEF R
  <2> HIDE DEF S
  <2> QED
    BY <1>1, <2>1, AppendProperties, LenProperties
<1> DEFINE T == {ParseLine(LineAt(file, i)) : i \in 1 .. n} \cup {ParseLine(line)}
           rows == RowsOf(file)
           left == RowsOf(new)
           right == Append(rows, ParseLine(line))
<1>7. rows \in Seq(T) /\ Len(rows) = L /\ ParseLine(line) \in T
  <2>1. rows \in [1 .. L -> T]
    BY <1>4, <1>5
  <2> HIDE DEF rows, T
  <2>2. rows \in Seq(T) /\ Len(rows) = L
    BY <1>5, <2>1
  <2> QED
    BY <2>2 DEF T
<1>8. \A k \in 1 .. L : rows[k] = ParseLine(LineAt(file, starts[k]))
  BY <1>4, <1>5
<1>9. /\ left = [k \in 1 .. L + 1 |-> left[k]]
      /\ \A k \in 1 .. L + 1 : left[k] = ParseLine(LineAt(new, more[k]))
  BY <1>4, <1>6
<1> HIDE DEF rows, left, T
<1>10. /\ right \in Seq(T) /\ DOMAIN right = 1 .. L + 1 /\ right[L + 1] = ParseLine(line)
       /\ \A k \in 1 .. L : right[k] = rows[k]
  BY <1>7, AppendProperties
<1> HIDE DEF right
<1>11. right = [k \in 1 .. L + 1 |-> right[k]]
  BY <1>10
<1>12. \A k \in 1 .. L + 1 : left[k] = right[k]
  <2>1. \A k \in 1 .. L + 1 : k \in 1 .. L \/ k = L + 1
    BY <1>5
  <2> QED
    BY <1>3, <1>5, <1>6, <1>8, <1>9, <1>10, <2>1
<1>13. left = right
  BY <1>9, <1>11, <1>12
<1> QED
  BY <1>13 DEF left, right, rows, new

-----------------------------------------------------------------------------
(* Texts put together. *)

\* Two texts are a text together unless two words meet.
LEMMA TextJoin ==
  ASSUME NEW a \in AllTexts, NEW b \in AllTexts,
         a # <<>> /\ b # <<>> => ~(Last(a) \in Words /\ b[1] \in Words)
  PROVE  a \o b \in AllTexts
<1> DEFINE q == a \o b
           m == Len(a)
           n == Len(b)
<1>1. /\ a \in Seq(Pieces) /\ b \in Seq(Pieces)
      /\ \A i \in 1 .. m - 1 : ~(a[i] \in Words /\ a[i + 1] \in Words)
      /\ \A i \in 1 .. n - 1 : ~(b[i] \in Words /\ b[i + 1] \in Words)
  BY DEF AllTexts, IsText
<1>2. q \in Seq(Pieces) /\ IsJoin(q, a, b)
  BY <1>1, JoinedTypes
<1> HIDE DEF q
<1>3. /\ Len(q) = m + n /\ m \in Nat /\ n \in Nat
      /\ \A i \in 1 .. m : q[i] = a[i]
      /\ \A i \in 1 .. n : q[m + i] = b[i]
  BY <1>2 DEF IsJoin
<1>4. ASSUME NEW i \in 1 .. Len(q) - 1
      PROVE  ~(q[i] \in Words /\ q[i + 1] \in Words)
  <2>1. CASE i < m
    <3>1. i \in 1 .. m - 1 /\ i \in 1 .. m /\ i + 1 \in 1 .. m
      BY <1>3, <2>1
    <3> QED
      BY <1>1, <1>3, <3>1
  <2>2. CASE i = m
    <3>1. m \in 1 .. m /\ 1 \in 1 .. n
      BY <1>3, <2>2
    <3>2. a # <<>> /\ b # <<>>
      BY <1>3, <3>1
    <3>3. ~(a[m] \in Words /\ b[1] \in Words)
      BY <3>2 DEF Last
    <3>4. q[m] = a[m] /\ q[m + 1] = b[1]
      BY <1>3, <3>1
    <3> QED
      BY <2>2, <3>3, <3>4
  <2>3. CASE i > m
    <3> DEFINE k == i - m
    <3>1. /\ k \in 1 .. n - 1 /\ k \in 1 .. n /\ k + 1 \in 1 .. n
          /\ m + k = i /\ m + (k + 1) = i + 1
      BY <1>3, <2>3
    <3> HIDE DEF k
    <3>2. q[m + k] = b[k] /\ q[m + (k + 1)] = b[k + 1]
      BY <1>3, <3>1
    <3> QED
      BY <1>1, <3>1, <3>2
  <2>4. i < m \/ i = m \/ i > m
    <3>1. i \in Int /\ m \in Int
      BY <1>3
    <3> HIDE DEF m
    <3> QED
      BY <3>1
  <2> QED
    BY <2>1, <2>2, <2>3, <2>4
<1>5. q \in AllTexts
  BY <1>2, <1>4 DEF AllTexts, IsText
<1> QED
  BY <1>5 DEF q

\* A mark between two texts.
LEMMA TextMark ==
  ASSUME NEW a \in AllTexts, NEW b \in AllTexts, NEW mark \in Pieces, mark \notin Words
  PROVE  a \o (<<mark>> \o b) \in AllTexts
<1> DEFINE c == <<mark>> \o b
<1>1. <<mark>> \in AllTexts /\ b \in Seq(Pieces)
  BY PieceText DEF AllTexts
<1>2. Last(<<mark>>) = mark
  BY DEF Last
<1>3. c \in AllTexts
  BY <1>1, <1>2, TextJoin
<1>4. c[1] = mark
  BY <1>1
<1> HIDE DEF c
<1>5. a \o c \in AllTexts
  BY <1>3, <1>4, TextJoin
<1> QED
  BY <1>5 DEF c

\* Texts with a mark between them.
Separated(mark, texts) ==
  FlattenSeq([i \in DOMAIN texts |-> (IF i = 1 THEN <<>> ELSE <<mark>>) \o texts[i]])

\* What comes before the next text.
Gap(mark, texts) == IF texts = <<>> THEN <<>> ELSE <<mark>>

\* They grow text by text.
LEMMA SeparatedAppend ==
  ASSUME NEW mark \in Pieces, NEW ts \in Seq(Seq(Pieces)), NEW t \in Seq(Pieces)
  PROVE  /\ Separated(mark, <<>>) = <<>>
         /\ Separated(mark, ts) \in Seq(Pieces)
         /\ Separated(mark, Append(ts, t)) = Separated(mark, ts) \o (Gap(mark, ts) \o t)
<1> DEFINE R == Seq(Pieces)
           n == Len(ts)
           us == Append(ts, t)
           C(x, i) == (IF i = 1 THEN <<>> ELSE <<mark>>) \o x
           cs == [i \in DOMAIN ts |-> C(ts[i], i)]
           ds == [i \in DOMAIN us |-> C(us[i], i)]
           x == C(t, n + 1)
           r == Append(cs, x)
<1>1. /\ n \in Nat /\ DOMAIN ts = 1 .. n /\ DOMAIN us = 1 .. n + 1
      /\ \A i \in 1 .. n : us[i] = ts[i] /\ ts[i] \in R
      /\ us[n + 1] = t
  OBVIOUS
<1>2. ASSUME NEW i, NEW y \in R
      PROVE  C(y, i) \in R
  <2>1. <<>> \in Seq(Pieces) /\ <<mark>> \in Seq(Pieces)
    OBVIOUS
  <2> QED
    BY <1>2, <2>1, ConcatProperties
<1>3. x = Gap(mark, ts) \o t
  <2>1. n + 1 = 1 <=> ts = <<>>
    BY <1>1, EmptySeq
  <2> QED
    BY <2>1, Zenon DEF Gap
<1>4. Separated(mark, ts) = FlattenSeq(cs) /\ Separated(mark, us) = FlattenSeq(ds)
  BY Zenon DEF Separated
<1>5. x \in R
  BY <1>2
<1> HIDE DEF C, R, us, n, x
<1>6. cs \in [1 .. n -> R]
  BY <1>1, <1>2
<1>7. \A i \in 1 .. n : cs[i] = C(ts[i], i)
  BY <1>1
<1>8. ds = [i \in 1 .. n + 1 |-> ds[i]] /\ \A i \in 1 .. n + 1 : ds[i] = C(us[i], i)
  BY <1>1
<1> HIDE DEF cs, ds
<1>9. cs \in Seq(R) /\ Len(cs) = n
  BY <1>1, <1>6
<1>10. /\ r \in Seq(R) /\ DOMAIN r = 1 .. n + 1 /\ r[n + 1] = x
       /\ \A i \in 1 .. n : r[i] = cs[i]
  BY <1>5, <1>9, AppendProperties
<1> HIDE DEF r
<1>11. r = [i \in 1 .. n + 1 |-> r[i]]
  BY <1>10
<1>12. \A i \in 1 .. n + 1 : ds[i] = r[i]
  <2>1. \A i \in 1 .. n + 1 : i \in 1 .. n \/ i = n + 1
    BY <1>1
  <2> QED
    BY <1>1, <1>7, <1>8, <1>10, <2>1 DEF x
<1>13. ds = r
  BY <1>8, <1>11, <1>12
<1>14. FlattenSeq(cs) \in Seq(Pieces) /\ FlattenSeq(Append(cs, x)) = FlattenSeq(cs) \o x
       /\ FlattenSeq(<<>>) = <<>>
  BY <1>5, <1>9, FlattenByLast DEF R
<1>15. Separated(mark, <<>>) = <<>>
  <2> DEFINE e == <<>>
  <2>1. [i \in DOMAIN e |-> C(e[i], i)] = <<>>
    OBVIOUS
  <2> HIDE DEF e
  <2>2. Separated(mark, e) = FlattenSeq([i \in DOMAIN e |-> C(e[i], i)])
    BY Zenon DEF Separated, C
  <2>3. Separated(mark, e) = <<>>
    BY <1>14, <2>1, <2>2
  <2> QED
    BY <2>3 DEF e
<1>16. Separated(mark, us) = Separated(mark, ts) \o x
  BY <1>4, <1>13, <1>14 DEF r
<1> QED
  BY <1>3, <1>4, <1>14, <1>15, <1>16 DEF us

\* Texts with a mark between them are a text.
LEMMA SeparatedTexts ==
  ASSUME NEW mark \in Pieces, mark \notin Words
  PROVE  \A ts \in Seq(AllTexts) : Separated(mark, ts) \in AllTexts
<1> DEFINE T == {ts \in Seq(AllTexts) : Separated(mark, ts) \in AllTexts}
<1>0. <<>> \in AllTexts /\ \A t \in AllTexts : t \in Seq(Pieces)
  BY DEF AllTexts, IsText
<1>1. \A ts \in Seq(AllTexts) : ts \in Seq(Seq(Pieces))
  <2>1. AllTexts \subseteq Seq(Pieces)
    BY DEF AllTexts
  <2> QED
    BY <2>1
<1>2. <<>> \in T
  <2>1. Separated(mark, <<>>) = <<>>
    <3>1. <<>> \in Seq(Seq(Pieces)) /\ <<>> \in Seq(Pieces)
      OBVIOUS
    <3> QED
      BY <3>1, SeparatedAppend
  <2>2. <<>> \in Seq(AllTexts)
    OBVIOUS
  <2> QED
    BY <1>0, <2>1, <2>2
<1>3. ASSUME NEW ts \in Seq(AllTexts), NEW t \in AllTexts, ts \in T
      PROVE  Append(ts, t) \in T
  <2>1. Separated(mark, Append(ts, t)) = Separated(mark, ts) \o (Gap(mark, ts) \o t)
    BY <1>0, <1>1, SeparatedAppend
  <2>2. Separated(mark, ts) \in AllTexts
    BY <1>3
  <2>3. Separated(mark, ts) \o (Gap(mark, ts) \o t) \in AllTexts
    <3>1. CASE ts = <<>>
      <4>1. Separated(mark, ts) = <<>> /\ Gap(mark, ts) = <<>>
        BY <1>0, <1>1, <3>1, SeparatedAppend DEF Gap
      <4>2. <<>> \o (<<>> \o t) = t
        BY <1>0, ConcatEmptySeq
      <4> QED
        BY <4>1, <4>2
    <3>2. CASE ts # <<>>
      <4>1. Gap(mark, ts) = <<mark>>
        BY <3>2 DEF Gap
      <4> QED
        BY <2>2, <4>1, TextMark
    <3> QED
      BY <3>1, <3>2
  <2>4. Append(ts, t) \in Seq(AllTexts)
    OBVIOUS
  <2> QED
    BY <2>1, <2>3, <2>4
<1> HIDE DEF T
<1>4. \A ts \in Seq(AllTexts) : ts \in T
  BY <1>2, <1>3, InductionByLast
<1> QED
  BY <1>4 DEF T

-----------------------------------------------------------------------------
(* csv_escape_field and the line of a row. *)

\* A text without an end of line.
NoBreak(text) == \A k \in 1 .. Len(text) : text[k] # "newline"

\* One more piece.
LEMMA NoBreakAppend ==
  ASSUME NEW s \in Seq(Pieces), NEW p \in Pieces
  PROVE  NoBreak(Append(s, p)) <=> NoBreak(s) /\ p # "newline"
<1> DEFINE q == Append(s, p)
           n == Len(s)
<1>1. n \in Nat /\ Len(q) = n + 1 /\ q[n + 1] = p /\ \A i \in 1 .. n : q[i] = s[i]
  OBVIOUS
<1> HIDE DEF q
<1>2. \A i \in 1 .. n + 1 : i \in 1 .. n \/ i = n + 1
  BY <1>1
<1>3. \A i \in 1 .. n : i \in 1 .. n + 1
  BY <1>1
<1>4. n + 1 \in 1 .. n + 1
  BY <1>1
<1>5. NoBreak(q) <=> NoBreak(s) /\ p # "newline"
  BY <1>1, <1>2, <1>3, <1>4 DEF NoBreak
<1> QED
  BY <1>5 DEF q

\* Two texts together.
LEMMA NoBreakJoin ==
  ASSUME NEW a \in Seq(Pieces), NEW b \in Seq(Pieces), NoBreak(a), NoBreak(b)
  PROVE  NoBreak(a \o b)
<1> DEFINE q == a \o b
           m == Len(a)
           n == Len(b)
<1>1. IsJoin(q, a, b)
  BY JoinedTypes
<1> HIDE DEF q
<1>2. /\ Len(q) = m + n /\ m \in Nat /\ n \in Nat
      /\ \A i \in 1 .. m : q[i] = a[i]
      /\ \A i \in 1 .. n : q[m + i] = b[i]
  BY <1>1 DEF IsJoin
<1>3. ASSUME NEW i \in 1 .. Len(q)
      PROVE  q[i] # "newline"
  <2>1. i \in 1 .. m \/ (i - m \in 1 .. n /\ m + (i - m) = i)
    BY <1>2
  <2> QED
    BY <1>2, <2>1 DEF NoBreak
<1>4. NoBreak(q)
  BY <1>3 DEF NoBreak
<1> QED
  BY <1>4 DEF q

\* A doubled mark breaks no text and no line.
LEMMA DoubledTexts ==
  ASSUME NEW mark \in Pieces, mark \notin Words, mark # "newline"
  PROVE  \A v \in Seq(Pieces) :
           /\ IsText(v) => IsText(Doubled(mark, v))
           /\ NoBreak(v) => NoBreak(Doubled(mark, v))
<1> DEFINE D(v) == Doubled(mark, v)
           Good(v) == /\ IsText(v) => IsText(D(v))
                      /\ NoBreak(v) => NoBreak(D(v))
                      /\ v = <<>> => D(v) = <<>>
                      /\ v # <<>> => D(v) # <<>> /\ Last(D(v)) = Last(v)
           T == {v \in Seq(Pieces) : Good(v)}
<1>1. <<>> \in T
  <2>1. <<>> \in Seq(Pieces)
    OBVIOUS
  <2>2. D(<<>>) = <<>>
    BY <2>1, DoubledAppend, Zenon
  <2> QED
    BY <2>1, <2>2
<1>2. ASSUME NEW v \in Seq(Pieces), NEW p \in Pieces, v \in T
      PROVE  Append(v, p) \in T
  <2> DEFINE d == D(v)
             q == Append(v, p)
             dq == D(q)
  <2>1. /\ d \in Seq(Pieces)
        /\ dq = d \o (IF p = mark THEN <<mark, mark>> ELSE <<p>>)
    BY DoubledAppend, Zenon
  <2>2. q \in Seq(Pieces) /\ q # <<>> /\ Last(q) = p
    BY AppendProperties DEF Last
  <2>3. /\ IsText(v) => IsText(d)
        /\ NoBreak(v) => NoBreak(d)
        /\ v = <<>> => d = <<>>
        /\ v # <<>> => d # <<>> /\ Last(d) = Last(v)
    BY <1>2
  <2>4. /\ IsText(q) => IsText(v) /\ (v # <<>> => ~(Last(v) \in Words /\ p \in Words))
        /\ NoBreak(q) => NoBreak(v) /\ p # "newline"
    BY TextAppend, NoBreakAppend
  <2> HIDE DEF d, q, dq
  <2>5. CASE p # mark
    <3>1. dq = Append(d, p)
      BY <2>1, <2>5, AppendIsConcat
    <3>2. dq # <<>> /\ Last(dq) = p
      BY <2>1, <3>1, AppendProperties DEF Last
    <3>3. IsText(q) => IsText(dq)
      BY <2>1, <2>3, <2>4, <3>1, TextAppend
    <3>4. NoBreak(q) => NoBreak(dq)
      BY <2>1, <2>3, <2>4, <3>1, NoBreakAppend
    <3> QED
      BY <2>2, <3>2, <3>3, <3>4 DEF q, dq
  <2>6. CASE p = mark
    <3> DEFINE d1 == Append(d, mark)
    <3>1. d1 \in Seq(Pieces) /\ d1 # <<>>
      BY <2>1, AppendProperties
    <3>2. dq = Append(d1, mark)
      <4>1. <<mark, mark>> = <<mark>> \o <<mark>> /\ <<mark>> \in Seq(Pieces)
        OBVIOUS
      <4>2. d \o (<<mark>> \o <<mark>>) = (d \o <<mark>>) \o <<mark>>
        BY <2>1, <4>1, ConcatAssociative
      <4>3. d1 = d \o <<mark>> /\ Append(d1, mark) = d1 \o <<mark>>
        BY <2>1, <3>1, AppendIsConcat
      <4> QED
        BY <2>1, <2>6, <4>1, <4>2, <4>3, Zenon
    <3>3. IsText(d) => IsText(d1)
      BY <2>1, TextAppend
    <3>4. NoBreak(d) => NoBreak(d1)
      BY <2>1, NoBreakAppend
    <3> HIDE DEF d1
    <3>5. dq # <<>> /\ Last(dq) = mark
      BY <3>1, <3>2, AppendProperties DEF Last
    <3>6. IsText(d1) => IsText(dq)
      BY <3>1, <3>2, TextAppend
    <3>7. NoBreak(d1) => NoBreak(dq)
      BY <3>1, <3>2, NoBreakAppend
    <3> QED
      BY <2>2, <2>3, <2>4, <2>6, <3>3, <3>4, <3>5, <3>6, <3>7 DEF q, dq
  <2> QED
    BY <2>5, <2>6
<1> HIDE DEF T
<1>3. \A v \in Seq(Pieces) : v \in T
  BY <1>1, <1>2, InductionByLast
<1> QED
  BY <1>3 DEF T

\* A value that csv_escape_field writes as it is.
Plain(value) ==
  value # <<>> /\ ToSet(value) \cap {DoubleQuote, Comma, "newline"} = {}

\* A value in quotes, those inside it doubled.
Quoted(value) == (<<DoubleQuote>> \o Doubled(DoubleQuote, value)) \o <<DoubleQuote>>

\* Quotes around nothing.
LEMMA MarksTwice ==
  ASSUME NEW m \in Pieces
  PROVE  (<<m>> \o <<>>) \o <<m>> = <<m, m>>
<1>1. <<m>> \in Seq(Pieces) /\ <<m, m>> = <<m>> \o <<m>>
  OBVIOUS
<1>2. <<m>> \o <<>> = <<m>>
  BY <1>1, ConcatEmptySeq
<1> QED
  BY <1>1, <1>2

\* csv_escape_field in these terms.
LEMMA EscapeIs ==
  ASSUME NEW v \in Seq(Pieces)
  PROVE  Escape(v) = IF Plain(v) THEN v ELSE Quoted(v)
<1>1. DoubleQuote \in Pieces
  BY DEF Pieces, Others
<1>2. CASE v = <<>>
  <2>1. Doubled(DoubleQuote, <<>>) = <<>>
    <3>1. <<>> \in Seq(Pieces)
      OBVIOUS
    <3> QED
      BY <1>1, <3>1, DoubledAppend, Zenon
  <2>2. (<<DoubleQuote>> \o <<>>) \o <<DoubleQuote>> = <<DoubleQuote, DoubleQuote>>
    BY <1>1, MarksTwice
  <2>3. Quoted(v) = <<DoubleQuote, DoubleQuote>>
    BY <1>2, <2>1, <2>2, Zenon DEF Quoted
  <2>4. Escape(v) = <<DoubleQuote, DoubleQuote>> /\ ~Plain(v)
    BY <1>2, Zenon DEF Escape, Plain
  <2> QED
    BY <2>3, <2>4, Zenon
<1>3. CASE v # <<>>
  BY <1>3, Zenon DEF Escape, Plain, Quoted, Doubled
<1> QED
  BY <1>2, <1>3

\* A field is not empty, and breaks no text and no line.
LEMMA EscapeTexts ==
  ASSUME NEW v \in AllTexts
  PROVE  /\ Escape(v) \in AllTexts /\ Escape(v) # <<>>
         /\ NoBreak(v) => NoBreak(Escape(v))
<1> DEFINE d == Doubled(DoubleQuote, v)
           one == <<DoubleQuote>>
           open == one \o d
           q == open \o one
<1>1. DoubleQuote \in Pieces /\ DoubleQuote \notin Words /\ DoubleQuote # "newline"
  <2>1. DoubleQuote # "newline"
    BY Zenon DEF DoubleQuote
  <2> QED
    BY <2>1, WordsApart DEF Pieces, Others
<1>2. v \in Seq(Pieces) /\ IsText(v)
  BY DEF AllTexts
<1>3. d \in Seq(Pieces) /\ IsText(d) /\ (NoBreak(v) => NoBreak(d))
  BY <1>1, <1>2, DoubledAppend, DoubledTexts, Zenon
<1>4. d \in AllTexts
  BY <1>3 DEF AllTexts
<1> HIDE DEF d
<1>5. /\ one \in AllTexts /\ one \in Seq(Pieces) /\ one[1] = DoubleQuote
      /\ Last(one) = DoubleQuote /\ NoBreak(one)
  <2>1. one \in AllTexts
    BY <1>1, PieceText
  <2>2. one \in Seq(Pieces) /\ one[1] = DoubleQuote /\ Len(one) = 1
    BY <1>1
  <2> HIDE DEF one
  <2> QED
    BY <1>1, <2>1, <2>2 DEF Last, NoBreak
<1> HIDE DEF one
<1>6. open \in AllTexts /\ open \in Seq(Pieces)
  <2>1. open \in AllTexts
    BY <1>1, <1>4, <1>5, TextJoin
  <2> QED
    BY <2>1 DEF AllTexts
<1>7. NoBreak(v) => NoBreak(open)
  BY <1>3, <1>5, NoBreakJoin
<1> HIDE DEF open
<1>8. q \in AllTexts /\ (NoBreak(v) => NoBreak(q))
  BY <1>1, <1>5, <1>6, <1>7, TextJoin, NoBreakJoin
<1>9. q # <<>>
  <2>1. IsJoin(q, open, one)
    BY <1>5, <1>6, JoinedTypes
  <2>2. Len(one) # 0
    BY <1>5, <1>1 DEF one
  <2> HIDE DEF q
  <2>3. Len(q) # 0
    BY <2>1, <2>2 DEF IsJoin
  <2> QED
    BY <2>3
<1>10. Escape(v) = IF Plain(v) THEN v ELSE q
  BY <1>2, EscapeIs DEF Quoted, q, open, one, d
<1> HIDE DEF q
<1> QED
  BY <1>8, <1>9, <1>10 DEF Plain

\* The line of a row, field by field.
LEMMA RowLineNext ==
  ASSUME NEW vs \in Seq(AllTexts), NEW v \in AllTexts
  PROVE  /\ RowLine(<<>>) = <<>>
         /\ RowLine(vs) \in AllTexts
         /\ RowLine(Append(vs, v)) = RowLine(vs) \o (Gap(Comma, vs) \o Escape(v))
<1> DEFINE f == [x \in AllTexts |-> Escape(x)]
           us == Append(vs, v)
<1>1. Comma \in Pieces /\ Comma \notin Words
  BY WordsApart DEF Pieces, Symbols
<1>2. Maps(f, AllTexts, AllTexts) /\ \A x \in AllTexts : f[x] = Escape(x)
  BY EscapeTexts DEF Maps
<1> HIDE DEF f
<1>3. Mapped(f, vs) \in Seq(AllTexts) /\ Mapped(f, us) = Append(Mapped(f, vs), f[v])
  BY <1>2, MapTexts
<1>4. \A ws \in Seq(AllTexts) : RowLine(ws) = Separated(Comma, Mapped(f, ws))
  <2> SUFFICES ASSUME NEW ws \in Seq(AllTexts)
               PROVE  RowLine(ws) = Separated(Comma, Mapped(f, ws))
    OBVIOUS
  <2> DEFINE C(x, i) == (IF i = 1 THEN <<>> ELSE <<Comma>>) \o x
             m == Mapped(f, ws)
  <2>1. \A i \in DOMAIN ws : ws[i] \in AllTexts
    OBVIOUS
  <2>2. DOMAIN m = DOMAIN ws /\ \A i \in DOMAIN ws : m[i] = Escape(ws[i])
    BY <1>2, <2>1 DEF Mapped
  <2>3. /\ RowLine(ws) = FlattenSeq([i \in DOMAIN ws |-> C(Escape(ws[i]), i)])
        /\ Separated(Comma, m) = FlattenSeq([i \in DOMAIN m |-> C(m[i], i)])
    BY Zenon DEF RowLine, Separated
  <2> HIDE DEF C, m
  <2>4. [i \in DOMAIN m |-> C(m[i], i)] = [i \in DOMAIN ws |-> C(Escape(ws[i]), i)]
    BY <2>2
  <2>5. RowLine(ws) = Separated(Comma, m)
    BY <2>3, <2>4
  <2> QED
    BY <2>5 DEF m
<1>5. us \in Seq(AllTexts) /\ <<>> \in Seq(AllTexts)
  OBVIOUS
<1>6. AllTexts \subseteq Seq(Pieces)
  BY DEF AllTexts
<1>7. Mapped(f, vs) \in Seq(Seq(Pieces)) /\ f[v] \in Seq(Pieces) /\ f[v] = Escape(v)
  BY <1>2, <1>3, <1>6 DEF Maps
<1>8. /\ Separated(Comma, <<>>) = <<>>
      /\ Separated(Comma, Append(Mapped(f, vs), f[v]))
           = Separated(Comma, Mapped(f, vs)) \o (Gap(Comma, Mapped(f, vs)) \o f[v])
  <2> DEFINE m == Mapped(f, vs)
             x == f[v]
  <2> HIDE DEF m, x
  <2>1. m \in Seq(Seq(Pieces)) /\ x \in Seq(Pieces)
    BY <1>7 DEF m, x
  <2>2. /\ Separated(Comma, <<>>) = <<>>
        /\ Separated(Comma, Append(m, x)) = Separated(Comma, m) \o (Gap(Comma, m) \o x)
    BY <1>1, <2>1, SeparatedAppend, Zenon
  <2> QED
    BY <2>2 DEF m, x
<1>9. Separated(Comma, Mapped(f, vs)) \in AllTexts
  BY <1>1, <1>3, SeparatedTexts
<1>10. Mapped(f, <<>>) = <<>>
  BY DEF Mapped
<1>11. Gap(Comma, Mapped(f, vs)) = Gap(Comma, vs)
  <2>1. DOMAIN Mapped(f, vs) = DOMAIN vs
    BY DEF Mapped
  <2>2. Mapped(f, vs) = <<>> <=> vs = <<>>
    BY <1>3, <2>1
  <2> QED
    BY <2>2 DEF Gap
<1>12. RowLine(<<>>) = <<>>
  BY <1>4, <1>5, <1>8, <1>10, Zenon
<1>13. RowLine(vs) = Separated(Comma, Mapped(f, vs))
  BY <1>4
<1>14. RowLine(us) = RowLine(vs) \o (Gap(Comma, vs) \o Escape(v))
  <2>1. RowLine(us) = Separated(Comma, Append(Mapped(f, vs), f[v]))
    BY <1>3, <1>4, <1>5
  <2> HIDE DEF us
  <2> QED
    BY <1>7, <1>8, <1>11, <1>13, <2>1
<1> QED
  BY <1>9, <1>12, <1>13, <1>14

\* The line of a row with a column is not empty, and one line.
LEMMA RowLineText ==
  ASSUME NEW vs \in Seq(AllTexts), vs # <<>>,
         \A i \in 1 .. Len(vs) : NoBreak(vs[i])
  PROVE  IsRowText(RowLine(vs))
<1> DEFINE OneLine(q) == \A i \in 1 .. Len(q) : NoBreak(q[i])
           T == {q \in Seq(AllTexts) :
                   OneLine(q) => /\ NoBreak(RowLine(q))
                                 /\ (q # <<>> => RowLine(q) # <<>>)}
<1>0. \A t \in AllTexts : t \in Seq(Pieces)
  BY DEF AllTexts
<1>1. <<>> \in T
  <2>1. <<>> \in AllTexts /\ <<>> \in Seq(AllTexts)
    BY DEF AllTexts, IsText
  <2>2. RowLine(<<>>) = <<>>
    BY <2>1, RowLineNext
  <2>3. NoBreak(<<>>)
    BY DEF NoBreak
  <2> QED
    BY <2>1, <2>2, <2>3
<1>2. ASSUME NEW q \in Seq(AllTexts), NEW v \in AllTexts, q \in T
      PROVE  Append(q, v) \in T
  <2> DEFINE r == Append(q, v)
             g == Gap(Comma, q)
             e == Escape(v)
             line == RowLine(q)
  <2>1. /\ r \in Seq(AllTexts) /\ Len(q) \in Nat /\ Len(r) = Len(q) + 1
        /\ r[Len(q) + 1] = v /\ \A i \in 1 .. Len(q) : r[i] = q[i]
    OBVIOUS
  <2> HIDE DEF r
  <2>2. OneLine(r) => OneLine(q) /\ NoBreak(v)
    <3>1. \A i \in 1 .. Len(q) : i \in 1 .. Len(r)
      BY <2>1
    <3>2. Len(q) + 1 \in 1 .. Len(r)
      BY <2>1
    <3> QED
      BY <2>1, <3>1, <3>2
  <2>3. RowLine(r) = line \o (g \o e) /\ line \in AllTexts
    BY RowLineNext DEF r
  <2>4. e \in AllTexts /\ e # <<>> /\ (NoBreak(v) => NoBreak(e))
    BY EscapeTexts
  <2>5. line \in Seq(Pieces) /\ e \in Seq(Pieces)
    BY <1>0, <2>3, <2>4
  <2>6. g \in Seq(Pieces) /\ NoBreak(g)
    <3>1. Comma \in Pieces /\ Comma # "newline"
      <4>1. Comma # "newline"
        BY Zenon DEF Comma
      <4> QED
        BY <4>1 DEF Pieces, Symbols
    <3>2. <<Comma>> \in Seq(Pieces) /\ <<>> \in Seq(Pieces) /\ NoBreak(<<Comma>>) /\ NoBreak(<<>>)
      BY <3>1 DEF NoBreak
    <3> QED
      BY <3>2 DEF Gap
  <2> HIDE DEF g, e, line
  <2>7. g \o e \in Seq(Pieces) /\ IsJoin(g \o e, g, e) /\ (NoBreak(e) => NoBreak(g \o e))
    BY <2>5, <2>6, JoinedTypes, NoBreakJoin
  <2> DEFINE ge == g \o e
  <2>8. ge \in Seq(Pieces) /\ Len(ge) > 0
    <3>1. Len(ge) = Len(g) + Len(e) /\ Len(g) \in Nat /\ Len(e) \in Nat
      BY <2>7 DEF IsJoin
    <3>2. Len(e) # 0
      BY <2>4, <2>5, EmptySeq
    <3> HIDE DEF ge
    <3>3. Len(ge) > 0
      BY <3>1, <3>2
    <3> QED
      BY <2>7, <3>3 DEF ge
  <2>9. NoBreak(e) => NoBreak(ge)
    BY <2>7
  <2> HIDE DEF ge
  <2>10. /\ IsJoin(line \o ge, line, ge)
         /\ NoBreak(line) /\ NoBreak(ge) => NoBreak(line \o ge)
    BY <2>5, <2>8, JoinedTypes, NoBreakJoin
  <2> DEFINE all == line \o ge
  <2>11. Len(all) # 0
    <3>1. Len(all) = Len(line) + Len(ge) /\ Len(line) \in Nat
      BY <2>10 DEF IsJoin
    <3> HIDE DEF all
    <3> QED
      BY <2>8, <3>1
  <2>12. all # <<>>
    <3> HIDE DEF all
    <3> QED
      BY <2>11
  <2>13. RowLine(r) = all
    BY <2>3 DEF ge
  <2>14. OneLine(q) => NoBreak(line)
    BY <1>2 DEF line
  <2>15. OneLine(r) => NoBreak(all)
    BY <2>2, <2>4, <2>9, <2>10, <2>14
  <2> HIDE DEF all
  <2>16. r \in T
    BY <2>1, <2>12, <2>13, <2>15
  <2> QED
    BY <2>16 DEF r
<1> HIDE DEF T
<1>3. \A q \in Seq(AllTexts) : q \in T
  BY <1>1, <1>2, InductionByLast
<1>4. vs \in T
  BY <1>3
<1>5. NoBreak(RowLine(vs)) /\ RowLine(vs) # <<>>
  BY <1>4 DEF T
<1>6. RowLine(vs) \in Seq(Pieces)
  <2>1. <<>> \in AllTexts
    BY DEF AllTexts, IsText
  <2> QED
    BY <1>0, <2>1, RowLineNext
<1> QED
  BY <1>5, <1>6 DEF IsRowText, NoBreak

\* append_row_csv writes the line of the row behind an end of line, and the file
\* stays a text.
LEMMA AppendRowText ==
  ASSUME NEW file \in AllTexts, NEW vs \in Seq(AllTexts)
  PROVE  /\ AppendRow(file, vs) = Extended(file, RowLine(vs))
         /\ file # <<>> => AppendRow(file, vs) \in AllTexts
<1> DEFINE line == RowLine(vs)
           n == Len(file)
<1>1. AppendRow(file, vs) = Extended(file, line)
  BY Zenon DEF AppendRow, Extended
<1>2. line \in AllTexts /\ file \in Seq(Pieces) /\ line \in Seq(Pieces)
  <2>1. <<>> \in AllTexts
    BY DEF AllTexts, IsText
  <2>2. line \in AllTexts
    BY <2>1, RowLineNext
  <2> QED
    BY <2>2 DEF AllTexts
<1> HIDE DEF line
<1>3. ASSUME file # <<>>
      PROVE  Extended(file, line) \in AllTexts
  <2>1. n \in Nat
    BY <1>2
  <2>2. CASE Last(file) # "newline"
    <3>1. AppendStart(file) = n + 2
      BY <1>3, <2>2 DEF AppendStart
    <3>2. Extended(file, line) = file \o <<"newline">> \o line
      BY <3>1 DEF Extended
    <3>3. "newline" \in Pieces /\ "newline" \notin Words
      BY WordsApart DEF Pieces, Spaces
    <3>4. file \o (<<"newline">> \o line) \in AllTexts
      BY <1>2, <3>3, TextMark
    <3>5. <<"newline">> \in Seq(Pieces)
      BY <3>3
    <3>6. file \o <<"newline">> \o line = file \o (<<"newline">> \o line)
      BY <1>2, <3>5, ConcatAssociative
    <3> QED
      BY <3>2, <3>4, <3>6
  <2>3. CASE Last(file) = "newline"
    <3>1. AppendStart(file) # n + 2
      BY <2>1, <2>3 DEF AppendStart
    <3>2. Extended(file, line) = file \o <<>> \o line
      BY <3>1 DEF Extended
    <3>3. file \o <<>> = file
      BY <1>2, ConcatEmptySeq
    <3>4. file \o line \in AllTexts
      BY <1>2, <2>3, TextJoin, WordsApart
    <3> QED
      BY <3>2, <3>3, <3>4
  <2> QED
    BY <2>2, <2>3
<1> QED
  BY <1>1, <1>3 DEF line

-----------------------------------------------------------------------------
(* What csv_parse_line makes of the line of a row. *)

Reader(mode, buffer, fields) == [mode |-> mode, buffer |-> buffer, fields |-> fields]

\* A piece more in the buffer of csv_parse_line.
LEMMA TakeIs ==
  ASSUME NEW b, NEW F, NEW p, NEW m, NEW k
  PROVE  Take(Reader(m, b, F), k, p) = Reader(k, Append(b, p), F)
<1> DEFINE r == Reader(m, b, F)
           c == Append(b, p)
<1>1. r = [mode |-> m, buffer |-> b, fields |-> F]
  BY DEF Reader
<1>2. Append(r.buffer, p) = c
  BY <1>1
<1>3. Take(r, k, p) = [r EXCEPT !.mode = k, !.buffer = Append(r.buffer, p)]
  BY DEF Take
<1> HIDE DEF c, r
<1>4. [r EXCEPT !.mode = k] = [mode |-> k, buffer |-> b, fields |-> F]
  BY <1>1
<1>5. [r EXCEPT !.mode = k, !.buffer = c] = [[r EXCEPT !.mode = k] EXCEPT !.buffer = c]
  OBVIOUS
<1> DEFINE q == [r EXCEPT !.mode = k]
<1>6. [q EXCEPT !.buffer = c] = [mode |-> k, buffer |-> c, fields |-> F]
  <2>1. q = [mode |-> k, buffer |-> b, fields |-> F]
    BY <1>4
  <2> HIDE DEF q
  <2> QED
    BY <2>1
<1> QED
  BY <1>2, <1>3, <1>5, <1>6 DEF Reader, r, c

\* What csv_parse_line does with a piece inside a quoted field ...
LEMMA ReadQuoted ==
  ASSUME NEW b \in Seq(Pieces), NEW F, NEW p \in Pieces
  PROVE  ReadPiece(Reader("quoted", b, F), p) =
           IF p = DoubleQuote THEN Reader("quote", b, F)
           ELSE Reader("quoted", Append(b, p), F)
<1>1. CASE p = DoubleQuote
  BY <1>1 DEF Reader, ReadPiece
<1>2. CASE p # DoubleQuote
  <2>1. ReadPiece(Reader("quoted", b, F), p) = Take(Reader("quoted", b, F), "quoted", p)
    BY <1>2 DEF Reader, ReadPiece
  <2>2. Take(Reader("quoted", b, F), "quoted", p) = Reader("quoted", Append(b, p), F)
    BY TakeIs
  <2> QED
    BY <1>2, <2>1, <2>2
<1> QED
  BY <1>1, <1>2

\* ... just past a quote in one ...
LEMMA ReadQuote ==
  ASSUME NEW b \in Seq(Pieces), NEW F, NEW p \in Pieces
  PROVE  /\ (p = DoubleQuote => ReadPiece(Reader("quote", b, F), p)
                                  = Reader("quoted", Append(b, p), F))
         /\ (p = Comma => ReadPiece(Reader("quote", b, F), p)
                            = Reader("start", <<>>, Append(F, b)))
<1>1. Comma # DoubleQuote /\ Comma # Blank
  BY Zenon DEF Comma, DoubleQuote, Blank
<1>2. p = DoubleQuote => ReadPiece(Reader("quote", b, F), p)
                           = Reader("quoted", Append(b, p), F)
  <2>1. p = DoubleQuote => ReadPiece(Reader("quote", b, F), p)
                             = Take(Reader("quote", b, F), "quoted", p)
    BY DEF Reader, ReadPiece
  <2> QED
    BY <2>1, TakeIs
<1>3. p = Comma => PastClose(Reader("quote", b, F), p) = Reader("start", <<>>, Append(F, b))
  BY <1>1 DEF Reader, PastClose, EndField
<1>4. p # DoubleQuote =>
        ReadPiece(Reader("quote", b, F), p) = PastClose(Reader("quote", b, F), p)
  BY DEF Reader, ReadPiece
<1> QED
  BY <1>1, <1>2, <1>3, <1>4

\* ... at the start of a field ...
LEMMA ReadStart ==
  ASSUME NEW b \in Seq(Pieces), NEW F, NEW p \in Pieces, p # Comma
  PROVE  ReadPiece(Reader("start", b, F), p) =
           IF p = DoubleQuote THEN Reader("quoted", b, F)
           ELSE Reader("plain", Append(b, p), F)
<1>1. CASE p = DoubleQuote
  BY <1>1 DEF Reader, ReadPiece
<1>2. CASE p # DoubleQuote
  <2>1. ReadPiece(Reader("start", b, F), p) = Take(Reader("start", b, F), "plain", p)
    BY <1>2 DEF Reader, ReadPiece
  <2>2. Take(Reader("start", b, F), "plain", p) = Reader("plain", Append(b, p), F)
    BY TakeIs
  <2> QED
    BY <1>2, <2>1, <2>2
<1> QED
  BY <1>1, <1>2

\* ... and in a plain one.
LEMMA ReadPlainPiece ==
  ASSUME NEW b \in Seq(Pieces), NEW F, NEW p \in Pieces
  PROVE  ReadPiece(Reader("plain", b, F), p) =
           IF p = Comma THEN Reader("start", <<>>, Append(F, Trim(b)))
           ELSE Reader("plain", Append(b, p), F)
<1>1. CASE p = Comma
  BY <1>1 DEF Reader, ReadPiece, EndField
<1>2. CASE p # Comma
  <2>1. ReadPiece(Reader("plain", b, F), p) = Take(Reader("plain", b, F), "plain", p)
    BY <1>2 DEF Reader, ReadPiece
  <2>2. Take(Reader("plain", b, F), "plain", p) = Reader("plain", Append(b, p), F)
    BY TakeIs
  <2> QED
    BY <1>2, <2>1, <2>2
<1> QED
  BY <1>1, <1>2

\* A sequence and one more element, as a sequence joined to another.
LEMMA JoinAppend ==
  ASSUME NEW a \in Seq(Pieces), NEW b \in Seq(Pieces), NEW p \in Pieces
  PROVE  a \o Append(b, p) = Append(a \o b, p) /\ a \o b \in Seq(Pieces)
<1>1. /\ Append(b, p) = b \o <<p>> /\ <<p>> \in Seq(Pieces)
  BY AppendIsConcat
<1>2. a \o b \in Seq(Pieces)
  BY ConcatProperties
<1>3. a \o (b \o <<p>>) = (a \o b) \o <<p>>
  BY <1>1, ConcatAssociative
<1>4. Append(a \o b, p) = (a \o b) \o <<p>>
  BY <1>2, AppendIsConcat
<1> QED
  BY <1>1, <1>2, <1>3, <1>4, Zenon

\* A plain value ends up in the buffer as it is.
LEMMA ReadPlain ==
  ASSUME NEW s \in Seq(Pieces), NEW F, ReadLine(s) = Reader("start", <<>>, F)
  PROVE  \A v \in Seq(Pieces) : Plain(v) => ReadLine(s \o v) = Reader("plain", v, F)
<1> DEFINE T == {v \in Seq(Pieces) : Plain(v) => ReadLine(s \o v) = Reader("plain", v, F)}
<1>1. <<>> \in T
  BY DEF Plain
<1>2. ASSUME NEW v \in Seq(Pieces), NEW p \in Pieces, v \in T
      PROVE  Append(v, p) \in T
  <2> DEFINE q == Append(v, p)
  <2>0. q \in Seq(Pieces)
    OBVIOUS
  <2>1. ASSUME Plain(q)
        PROVE  ReadLine(s \o q) = Reader("plain", q, F)
    <3>1. p # Comma /\ p # DoubleQuote /\ (v # <<>> => Plain(v))
      <4>1. /\ Len(v) \in Nat /\ DOMAIN v = 1 .. Len(v) /\ DOMAIN q = 1 .. Len(v) + 1
            /\ q[Len(v) + 1] = p /\ \A i \in 1 .. Len(v) : q[i] = v[i]
        BY LenProperties
      <4> HIDE DEF q
      <4>2. \A i \in 1 .. Len(v) + 1 : q[i] \notin {DoubleQuote, Comma, "newline"}
        BY <2>1, <4>1 DEF Plain, ToSet
      <4>3. p \notin {DoubleQuote, Comma, "newline"}
        BY <4>1, <4>2
      <4>4. \A i \in 1 .. Len(v) : v[i] \notin {DoubleQuote, Comma, "newline"}
        BY <4>1, <4>2
      <4>5. ToSet(v) \cap {DoubleQuote, Comma, "newline"} = {}
        BY <4>1, <4>4 DEF ToSet
      <4> QED
        BY <4>3, <4>5 DEF Plain
    <3>2. s \o q = Append(s \o v, p) /\ s \o v \in Seq(Pieces)
      BY JoinAppend
    <3>3. ReadLine(Append(s \o v, p)) = ReadPiece(ReadLine(s \o v), p)
      BY <3>2, ReadLines
    <3>4. CASE v = <<>>
      <4>1. s \o v = s
        BY <3>4, ConcatEmptySeq
      <4>2. ReadPiece(Reader("start", <<>>, F), p) = Reader("plain", Append(<<>>, p), F)
        <5>1. <<>> \in Seq(Pieces)
          OBVIOUS
        <5> QED
          BY <3>1, <5>1, ReadStart
      <4> QED
        BY <3>2, <3>3, <3>4, <4>1, <4>2
    <3>5. CASE v # <<>>
      <4>1. ReadLine(s \o v) = Reader("plain", v, F)
        BY <1>2, <3>1, <3>5
      <4>2. ReadPiece(Reader("plain", v, F), p) = Reader("plain", Append(v, p), F)
        BY <3>1, ReadPlainPiece
      <4> QED
        BY <3>2, <3>3, <4>1, <4>2
    <3> QED
      BY <3>4, <3>5
  <2> QED
    BY <2>0, <2>1
<1> HIDE DEF T
<1>3. \A v \in Seq(Pieces) : v \in T
  BY <1>1, <1>2, InductionByLast
<1> QED
  BY <1>3 DEF T

\* A value with its quotes doubled is read with single ones.
LEMMA ReadDoubled ==
  ASSUME NEW s \in Seq(Pieces), NEW F, ReadLine(s) = Reader("quoted", <<>>, F)
  PROVE  \A v \in Seq(Pieces) :
           ReadLine(s \o Doubled(DoubleQuote, v)) = Reader("quoted", v, F)
<1> DEFINE D(v) == Doubled(DoubleQuote, v)
           T == {v \in Seq(Pieces) : ReadLine(s \o D(v)) = Reader("quoted", v, F)}
<1>0. DoubleQuote \in Pieces
  BY DEF Pieces, Others
<1>1. <<>> \in T
  <2>1. <<>> \in Seq(Pieces)
    OBVIOUS
  <2>2. D(<<>>) = <<>>
    BY <1>0, <2>1, DoubledAppend, Zenon
  <2>3. s \o <<>> = s
    BY ConcatEmptySeq
  <2> QED
    BY <2>1, <2>2, <2>3
<1>2. ASSUME NEW v \in Seq(Pieces), NEW p \in Pieces, v \in T
      PROVE  Append(v, p) \in T
  <2> DEFINE q == Append(v, p)
             d == D(v)
             sd == s \o d
  <2>0. q \in Seq(Pieces)
    OBVIOUS
  <2>1. /\ d \in Seq(Pieces)
        /\ D(q) = d \o (IF p = DoubleQuote THEN <<DoubleQuote, DoubleQuote>> ELSE <<p>>)
    BY <1>0, DoubledAppend, Zenon
  <2>2. ReadLine(sd) = Reader("quoted", v, F)
    BY <1>2
  <2> HIDE DEF d
  <2>3. sd \in Seq(Pieces)
    BY <2>1, ConcatProperties
  <2>4. s \o Append(d, p) = Append(sd, p)
    BY <2>1, JoinAppend
  <2>5. CASE p # DoubleQuote
    <3>1. D(q) = Append(d, p)
      BY <2>1, <2>5, AppendIsConcat
    <3>2. ReadLine(Append(sd, p)) = ReadPiece(ReadLine(sd), p)
      BY <2>3, ReadLines
    <3>3. ReadPiece(Reader("quoted", v, F), p) = Reader("quoted", q, F)
      BY <2>5, ReadQuoted
    <3>4. ReadLine(s \o D(q)) = Reader("quoted", q, F)
      BY <2>2, <2>4, <3>1, <3>2, <3>3
    <3> QED
      BY <2>0, <3>4
  <2>6. CASE p = DoubleQuote
    <3> DEFINE s1 == Append(sd, p)
    <3>1. s1 \in Seq(Pieces)
      BY <2>3
    <3>2. ReadLine(s1) = ReadPiece(ReadLine(sd), p)
      BY <2>3, ReadLines
    <3>3. ReadPiece(Reader("quoted", v, F), p) = Reader("quote", v, F)
      BY <2>6, ReadQuoted
    <3>4. ReadLine(Append(s1, p)) = ReadPiece(ReadLine(s1), p)
      BY <3>1, ReadLines
    <3>5. ReadPiece(Reader("quote", v, F), p) = Reader("quoted", q, F)
      BY <2>6, ReadQuote
    <3>6. s \o D(q) = Append(s1, p)
      <4>1. <<p, p>> = <<p>> \o <<p>> /\ <<p>> \in Seq(Pieces)
        OBVIOUS
      <4>2. d \o (<<p>> \o <<p>>) = (d \o <<p>>) \o <<p>>
        BY <2>1, <4>1, ConcatAssociative
      <4>3. Append(d, p) = d \o <<p>> /\ Append(d, p) \in Seq(Pieces)
        BY <2>1, AppendIsConcat
      <4>4. Append(Append(d, p), p) = Append(d, p) \o <<p>>
        BY <4>3, AppendIsConcat
      <4>5. D(q) = Append(Append(d, p), p)
        BY <2>1, <2>6, <4>1, <4>2, <4>3, <4>4, Zenon
      <4>6. s \o Append(Append(d, p), p) = Append(s \o Append(d, p), p)
        <5> DEFINE e == Append(d, p)
        <5>1. e \in Seq(Pieces)
          BY <4>3
        <5> HIDE DEF e
        <5>2. s \o Append(e, p) = Append(s \o e, p)
          BY <5>1, JoinAppend
        <5> QED
          BY <5>2 DEF e
      <4> QED
        BY <2>4, <4>5, <4>6, Zenon
    <3>7. ReadLine(s \o D(q)) = Reader("quoted", q, F)
      BY <2>2, <3>2, <3>3, <3>4, <3>5, <3>6, Zenon
    <3> QED
      BY <2>0, <3>7
  <2> QED
    BY <2>5, <2>6
<1> HIDE DEF T
<1>3. \A v \in Seq(Pieces) : v \in T
  BY <1>1, <1>2, InductionByLast
<1> QED
  BY <1>3 DEF T

\* What a value is after it has been written and read: a plain one without the
\* blanks around it, a quoted one as it was.
Kept(value) == IF Plain(value) THEN Trim(value) ELSE value

KeptAll(values) == [i \in DOMAIN values |-> Kept(values[i])]

\* csv_parse_line behind a value.
Behind(value, fields) ==
  IF Plain(value) THEN Reader("plain", value, fields) ELSE Reader("quote", value, fields)

\* The fields that are left of the values, value by value.
LEMMA KeptAppend ==
  ASSUME NEW vs \in Seq(AllTexts), NEW v \in AllTexts
  PROVE  /\ KeptAll(<<>>) = <<>>
         /\ KeptAll(Append(vs, v)) = Append(KeptAll(vs), Kept(v))
<1> DEFINE f == [x \in AllTexts |-> Kept(x)]
<1>1. \A x \in AllTexts : Kept(x) \in AllTexts
  <2> SUFFICES ASSUME NEW x \in AllTexts
               PROVE  Kept(x) \in AllTexts
    OBVIOUS
  <2>1. x \in Seq(Pieces) /\ IsText(x)
    BY DEF AllTexts
  <2>2. Trim(x) \in Seq(Pieces) /\ IsText(Trim(x))
    BY <2>1, TrimTypes
  <2> QED
    BY <2>2 DEF Kept, AllTexts
<1>2. Maps(f, AllTexts, AllTexts) /\ \A x \in AllTexts : f[x] = Kept(x)
  BY <1>1 DEF Maps
<1> HIDE DEF f
<1>3. \A ws \in Seq(AllTexts) : KeptAll(ws) = Mapped(f, ws)
  <2> SUFFICES ASSUME NEW ws \in Seq(AllTexts)
               PROVE  KeptAll(ws) = Mapped(f, ws)
    OBVIOUS
  <2>1. \A i \in DOMAIN ws : ws[i] \in AllTexts
    OBVIOUS
  <2>2. \A i \in DOMAIN ws : f[ws[i]] = Kept(ws[i])
    BY <1>2, <2>1
  <2> QED
    BY <2>2 DEF KeptAll, Mapped
<1>4. Mapped(f, Append(vs, v)) = Append(Mapped(f, vs), f[v])
  BY <1>2, MapTexts
<1>5. Append(vs, v) \in Seq(AllTexts)
  OBVIOUS
<1>6. KeptAll(<<>>) = <<>>
  BY DEF KeptAll
<1> QED
  BY <1>2, <1>3, <1>4, <1>5, <1>6, Zenon

\* csv_parse_line over the field of one value.
LEMMA ReadField ==
  ASSUME NEW s \in Seq(Pieces), NEW F, NEW v \in Seq(Pieces),
         ReadLine(s) = Reader("start", <<>>, F)
  PROVE  ReadLine(s \o Escape(v)) = Behind(v, F)
<1>0. DoubleQuote \in Pieces /\ Comma # DoubleQuote
  <2>1. Comma # DoubleQuote
    BY Zenon DEF Comma, DoubleQuote
  <2> QED
    BY <2>1 DEF Pieces, Others
<1>1. CASE Plain(v)
  <2>1. ReadLine(s \o v) = Reader("plain", v, F)
    BY <1>1, ReadPlain
  <2>2. Escape(v) = v
    BY <1>1, EscapeIs
  <2> QED
    BY <1>1, <2>1, <2>2 DEF Behind
<1>2. CASE ~Plain(v)
  <2> DEFINE m == DoubleQuote
             d == Doubled(m, v)
             s1 == Append(s, m)
             s2 == s1 \o d
  <2>1. Escape(v) = (<<m>> \o d) \o <<m>>
    BY <1>2, EscapeIs DEF Quoted
  <2>2. d \in Seq(Pieces) /\ <<m>> \in Seq(Pieces) /\ m \in Pieces
    <3>1. d \in Seq(Pieces)
      BY <1>0, DoubledAppend, Zenon
    <3>2. <<m>> \in Seq(Pieces)
      BY <1>0
    <3> QED
      BY <1>0, <3>1, <3>2
  <2> HIDE DEF d
  <2>3. s1 \in Seq(Pieces) /\ s1 = s \o <<m>>
    BY <2>2, AppendIsConcat
  <2>4. s \o ((<<m>> \o d) \o <<m>>) = Append(s2, m) /\ s2 \in Seq(Pieces)
    <3> DEFINE one == <<m>>
               od == one \o d
    <3>1. one \in Seq(Pieces) /\ d \in Seq(Pieces)
      BY <2>2
    <3> HIDE DEF one
    <3>2. od \in Seq(Pieces)
      BY <3>1, ConcatProperties
    <3>3. s \o od = (s \o one) \o d
      BY <3>1, JoinTwice
    <3> HIDE DEF od
    <3>4. (s \o od) \o one = s \o (od \o one)
      <4>1. s \in Seq(Pieces) /\ od \in Seq(Pieces) /\ one \in Seq(Pieces)
        BY <3>1, <3>2
      <4> QED
        BY <4>1, JoinTwice
    <3>5. s2 \in Seq(Pieces)
      BY <2>2, <2>3, ConcatProperties
    <3>6. Append(s2, m) = s2 \o <<m>>
      BY <2>2, <3>5, AppendIsConcat
    <3>7. s1 = s \o one
      BY <2>3 DEF one
    <3> QED
      BY <3>3, <3>4, <3>5, <3>6, <3>7, Zenon DEF one, od
  <2>5. ReadLine(s1) = Reader("quoted", <<>>, F)
    <3>1. ReadLine(s1) = ReadPiece(ReadLine(s), m)
      BY <1>0, ReadLines
    <3>2. ReadPiece(Reader("start", <<>>, F), m) = Reader("quoted", <<>>, F)
      <4>1. <<>> \in Seq(Pieces)
        OBVIOUS
      <4> QED
        BY <1>0, <4>1, ReadStart
    <3> QED
      BY <3>1, <3>2
  <2>6. ReadLine(s2) = Reader("quoted", v, F)
    <3> HIDE DEF s1
    <3>1. ReadLine(s1 \o Doubled(m, v)) = Reader("quoted", v, F)
      BY <2>3, <2>5, ReadDoubled
    <3> QED
      BY <3>1 DEF d
  <2> HIDE DEF s2
  <2>7. ReadLine(Append(s2, m)) = ReadPiece(ReadLine(s2), m)
    BY <1>0, <2>4, ReadLines
  <2>8. ReadPiece(Reader("quoted", v, F), m) = Reader("quote", v, F)
    BY <1>0, ReadQuoted
  <2>9. ReadLine(s \o Escape(v)) = Reader("quote", v, F)
    BY <2>1, <2>4, <2>6, <2>7, <2>8, Zenon
  <2> QED
    BY <1>2, <2>9 DEF Behind
<1> QED
  BY <1>1, <1>2

\* csv_parse_line with the comma behind a value.
LEMMA ReadComma ==
  ASSUME NEW v \in Seq(Pieces), NEW F
  PROVE  ReadPiece(Behind(v, F), Comma) = Reader("start", <<>>, Append(F, Kept(v)))
<1>1. Comma \in Pieces
  BY DEF Pieces, Symbols
<1>2. CASE Plain(v)
  BY <1>1, <1>2, ReadPlainPiece DEF Behind, Kept
<1>3. CASE ~Plain(v)
  BY <1>1, <1>3, ReadQuote DEF Behind, Kept
<1> QED
  BY <1>2, <1>3

\* csv_parse_line at the end of the line of a row: every value but the last is a
\* field.
LEMMA ReadRow ==
  \A vs \in Seq(AllTexts) : \A v \in AllTexts :
    ReadLine(RowLine(Append(vs, v))) = Behind(v, KeptAll(vs))
<1> DEFINE T == {q \in Seq(AllTexts) : \A v \in AllTexts :
                   ReadLine(RowLine(Append(q, v))) = Behind(v, KeptAll(q))}
<1>0. /\ \A t \in AllTexts : t \in Seq(Pieces)
      /\ Comma \in Pieces /\ <<>> \in AllTexts /\ <<>> \in Seq(AllTexts) /\ <<>> \in Seq(Pieces)
  BY DEF AllTexts, IsText, Pieces, Symbols
<1>1. <<>> \in T
  <2>1. ASSUME NEW v \in AllTexts
        PROVE  ReadLine(RowLine(Append(<<>>, v))) = Behind(v, KeptAll(<<>>))
    <3> DEFINE e == Escape(v)
    <3>1. RowLine(Append(<<>>, v)) = <<>> \o (Gap(Comma, <<>>) \o e)
      <4>1. /\ RowLine(Append(<<>>, v)) = RowLine(<<>>) \o (Gap(Comma, <<>>) \o Escape(v))
            /\ RowLine(<<>>) = <<>>
        BY <1>0, RowLineNext
      <4> QED
        BY <4>1, Zenon
    <3>2. e \in Seq(Pieces)
      BY <1>0, EscapeTexts
    <3>3. Gap(Comma, <<>>) = <<>>
      BY DEF Gap
    <3>4. <<>> \o e = e
      <4> HIDE DEF e
      <4> QED
        BY <3>2, ConcatEmptySeq
    <3>5. ReadLine(<<>>) = Reader("start", <<>>, <<>>)
      <4>1. ReadLine(<<>>) = FieldStart
        BY <1>0, ReadLines
      <4> QED
        BY <4>1 DEF FieldStart, Reader
    <3>6. ReadLine(<<>> \o Escape(v)) = Behind(v, <<>>)
      BY <1>0, <3>5, ReadField
    <3>7. KeptAll(<<>>) = <<>>
      BY <1>0, KeptAppend
    <3> QED
      BY <3>1, <3>3, <3>4, <3>6, <3>7, Zenon
  <2> QED
    BY <1>0, <2>1
<1>2. ASSUME NEW r \in Seq(AllTexts), NEW u \in AllTexts, r \in T
      PROVE  Append(r, u) \in T
  <2> DEFINE q == Append(r, u)
             line == RowLine(q)
             F == KeptAll(q)
  <2>1. q \in Seq(AllTexts) /\ q # <<>>
    BY AppendProperties
  <2>2. ReadLine(line) = Behind(u, KeptAll(r)) /\ u \in Seq(Pieces)
    BY <1>0, <1>2
  <2>3. F = Append(KeptAll(r), Kept(u))
    BY KeptAppend
  <2> HIDE DEF q, F
  <2>4. line \in Seq(Pieces)
    BY <1>0, <2>1, RowLineNext
  <2> HIDE DEF line
  <2> DEFINE begun == Append(line, Comma)
  <2>5. begun \in Seq(Pieces) /\ begun = line \o <<Comma>> /\ <<Comma>> \in Seq(Pieces)
    BY <1>0, <2>4, AppendIsConcat
  <2>6. ReadLine(begun) = Reader("start", <<>>, F)
    <3>1. ReadLine(begun) = ReadPiece(ReadLine(line), Comma)
      BY <1>0, <2>4, ReadLines
    <3>2. ReadPiece(Behind(u, KeptAll(r)), Comma)
            = Reader("start", <<>>, Append(KeptAll(r), Kept(u)))
      BY <2>2, ReadComma
    <3> QED
      BY <2>2, <2>3, <3>1, <3>2, Zenon
  <2>7. ASSUME NEW v \in AllTexts
        PROVE  ReadLine(RowLine(Append(q, v))) = Behind(v, F)
    <3> DEFINE e == Escape(v)
    <3>1. e \in Seq(Pieces) /\ v \in Seq(Pieces)
      BY <1>0, EscapeTexts
    <3>2. RowLine(Append(q, v)) = line \o (<<Comma>> \o e)
      <4>1. RowLine(Append(q, v)) = RowLine(q) \o (Gap(Comma, q) \o Escape(v))
        BY <2>1, RowLineNext
      <4>2. Gap(Comma, q) = <<Comma>>
        BY <2>1 DEF Gap
      <4> QED
        BY <4>1, <4>2, Zenon DEF line
    <3>3. line \o (<<Comma>> \o e) = begun \o e
      <4> HIDE DEF e
      <4> DEFINE one == <<Comma>>
      <4>1. one \in Seq(Pieces) /\ line \in Seq(Pieces) /\ e \in Seq(Pieces)
        BY <2>4, <2>5, <3>1
      <4> HIDE DEF one
      <4>2. (line \o one) \o e = line \o (one \o e)
        BY <4>1, JoinTwice
      <4> QED
        BY <2>5, <4>2, Zenon DEF one
    <3>4. ReadLine(begun \o Escape(v)) = Behind(v, F)
      <4> HIDE DEF begun
      <4> QED
        BY <2>5, <2>6, <3>1, ReadField
    <3> QED
      BY <3>2, <3>3, <3>4, Zenon
  <2>8. q \in T
    BY <2>1, <2>7 DEF F
  <2> QED
    BY <2>8 DEF q
<1> HIDE DEF T
<1>3. \A q \in Seq(AllTexts) : q \in T
  BY <1>1, <1>2, InductionByLast
<1> QED
  BY <1>3 DEF T

(* The CSV round trip: csv_parse_line reads the line that append_row_csv   *)
(* writes for any values, whatever quotes, commas and blanks they hold, as *)
(* one field for each value, in their order; it is the value, only without *)
(* the blanks around it where it was written without quotes.               *)
THEOREM RowReadBack ==
  \A vs \in Seq(AllTexts) : vs # <<>> =>
    ParseLine(RowLine(vs)) = [ok |-> TRUE, fields |-> KeptAll(vs)]
<1> DEFINE T == {q \in Seq(AllTexts) : q # <<>> =>
                   ParseLine(RowLine(q)) = [ok |-> TRUE, fields |-> KeptAll(q)]}
<1>1. <<>> \in T
  OBVIOUS
<1>2. ASSUME NEW q \in Seq(AllTexts), NEW v \in AllTexts, q \in T
      PROVE  Append(q, v) \in T
  <2> DEFINE line == RowLine(Append(q, v))
             reader == ReadLine(line)
             F == KeptAll(q)
  <2>1. reader = Behind(v, F)
    BY ReadRow
  <2>2. ParseLine(line) =
          CASE reader.mode \in {"error", "quoted"} -> [ok |-> FALSE, fields |-> <<>>]
            [] reader.mode \in {"quote", "closed"} ->
                 [ok |-> TRUE, fields |-> Append(reader.fields, reader.buffer)]
            [] reader.mode \in {"start", "plain"} ->
                 [ok |-> TRUE, fields |-> Append(reader.fields, Trim(reader.buffer))]
    BY DEF ParseLine, ReadLine
  <2>3. KeptAll(Append(q, v)) = Append(F, Kept(v))
    BY KeptAppend
  <2> HIDE DEF F, reader, line
  <2>4. ParseLine(line) = [ok |-> TRUE, fields |-> Append(F, Kept(v))]
    <3>1. CASE Plain(v)
      <4>1. reader.mode = "plain" /\ reader.buffer = v /\ reader.fields = F
        BY <2>1, <3>1 DEF Behind, Reader
      <4>2. ParseLine(line) = [ok |-> TRUE, fields |-> Append(F, Trim(v))]
        BY <2>2, <4>1
      <4> QED
        BY <3>1, <4>2 DEF Kept
    <3>2. CASE ~Plain(v)
      <4>1. reader.mode = "quote" /\ reader.buffer = v /\ reader.fields = F
        BY <2>1, <3>2 DEF Behind, Reader
      <4>2. ParseLine(line) = [ok |-> TRUE, fields |-> Append(F, v)]
        BY <2>2, <4>1
      <4> QED
        BY <3>2, <4>2 DEF Kept
    <3> QED
      BY <3>1, <3>2
  <2>5. Append(q, v) \in Seq(AllTexts)
    OBVIOUS
  <2> QED
    BY <2>3, <2>4, <2>5 DEF line
<1> HIDE DEF T
<1>3. \A q \in Seq(AllTexts) : q \in T
  BY <1>1, <1>2, InductionByLast
<1> QED
  BY <1>3 DEF T
=============================================================================
