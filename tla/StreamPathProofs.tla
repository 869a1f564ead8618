-------------------------- MODULE StreamPathProofs ---------------------------
(***************************************************************************)
(* Theorems about StreamPath, for an answer of any number of tokens.       *)
(***************************************************************************)
EXTENDS StreamPath, SequenceTheorems, TLAPS

-----------------------------------------------------------------------------
(* Lemmas about the operators StreamPath is built from.                    *)

\* The first newline of a buffer.
LEMMA FirstNewline ==
  ASSUME NEW q \in Seq(Pieces), NEW e \in 1..Len(q), q[e] = Newline,
         \A j \in 1..(e - 1) : q[j] # Newline
  PROVE  Contains(q, Newline) /\ SelectInSeq(q, LAMBDA p : p = Newline) = e
<1> DEFINE I == {i \in 1..Len(q) : q[i] = Newline}
<1>1. Len(q) \in Nat
  OBVIOUS
<1>2. e \in I /\ \A i \in I : e <= i
  BY <1>1
<1>3. \A x \in I : (\A i \in I : x <= i) => x = e
  BY <1>1, <1>2
<1>4. Min(I) = e
  BY <1>2, <1>3 DEF Min
<1>5. SelectInSeq(q, LAMBDA p : p = Newline) = IF I # {} THEN Min(I) ELSE 0
  BY DEF SelectInSeq
<1> QED
  BY <1>2, <1>4, <1>5 DEF Contains

\* A sequence between two elements.
LEMMA Between ==
  ASSUME NEW S, NEW h \in Seq(S), NEW s \in Seq(S), NEW l \in Seq(S),
         NEW n, n = Len(s), Len(h) = 1, Len(l) = 1
  PROVE  /\ h \o s \o l \in Seq(S) /\ Len(h \o s \o l) = n + 2
         /\ \A i \in 1..n : (h \o s \o l)[1 + i] = s[i]
         /\ (h \o s \o l)[n + 2] = l[1]
<1>1. /\ h \o s \in Seq(S) /\ Len(h \o s) = n + 1
      /\ \A i \in 1..(1 + n) : (h \o s)[i] = IF i <= 1 THEN h[i] ELSE s[i - 1]
  <2>1. /\ h \o s \in Seq(S)
        /\ Len(h \o s) = Len(h) + Len(s)
        /\ \A i \in 1..Len(h) + Len(s) : (h \o s)[i] =
              IF i <= Len(h) THEN h[i] ELSE s[i - Len(h)]
    BY ConcatProperties, Zenon
  <2>2. Len(h) + Len(s) = n + 1 /\ Len(h) + Len(s) = 1 + n
    OBVIOUS
  <2> QED
    BY <2>1, <2>2, Zenon
<1> DEFINE hs == h \o s
<1> HIDE DEF hs
<1>2. /\ hs \o l \in Seq(S) /\ Len(hs \o l) = n + 2
      /\ \A i \in 1..(n + 1 + 1) : (hs \o l)[i] = IF i <= n + 1 THEN hs[i]
                                               ELSE l[i - (n + 1)]
  BY <1>1, ConcatProperties DEF hs
<1> QED
  BY <1>1, <1>2 DEF hs

\* The reply, piece by piece.
LEMMA ReplyIs ==
  /\ Reply(TRUE) \in Seq(Pieces) /\ Len(Reply(TRUE)) = 3 * Tokens + 2
  /\ Reply(FALSE) \in Seq(Pieces) /\ Len(Reply(FALSE)) = 3
  /\ \A k \in 0..(Tokens - 1) : /\ Reply(TRUE)[3 * k + 2] = Open(k + 1)
                                /\ Reply(TRUE)[3 * k + 3] = Close(k + 1)
                                /\ Reply(TRUE)[3 * k + 4] = Newline
  /\ Reply(TRUE)[3 * Tokens + 2] = <<"last", 0>>
<1> USE StreamAssumption
<1> DEFINE Piece(i) == LET t == (i + 2) \div 3 IN
                       CASE i = 3 * t - 2 -> Open(t)
                         [] i = 3 * t - 1 -> Close(t)
                         [] i = 3 * t -> Newline
<1>1. TokenLines = [i \in 1..(3 * Tokens) |-> Piece(i)]
  BY DEF TokenLines
<1>2. ASSUME NEW i \in 1..(3 * Tokens)
      PROVE  Piece(i) \in Pieces
  <2> DEFINE t == (i + 2) \div 3
  <2>1. /\ t \in 1..Tokens
        /\ i = 3 * t - 2 \/ i = 3 * t - 1 \/ i = 3 * t
    OBVIOUS
  <2> HIDE DEF t
  <2>2. \/ i = 3 * t - 2 /\ i # 3 * t - 1 /\ i # 3 * t
        \/ i = 3 * t - 1 /\ i # 3 * t - 2 /\ i # 3 * t
        \/ i = 3 * t /\ i # 3 * t - 2 /\ i # 3 * t - 1
    BY <2>1
  <2>3. Piece(i) \in {Open(t), Close(t), Newline}
    BY <2>2 DEF t
  <2> QED
    BY <2>1, <2>3 DEF Pieces, Open, Close, Newline
<1>3. ASSUME NEW k \in 0..(Tokens - 1)
      PROVE  Piece(3 * k + 1) = Open(k + 1) /\ Piece(3 * k + 2) = Close(k + 1)
             /\ Piece(3 * k + 3) = Newline
  <2>1. /\ (3 * k + 1 + 2) \div 3 = k + 1 /\ (3 * k + 2 + 2) \div 3 = k + 1
        /\ (3 * k + 3 + 2) \div 3 = k + 1
    OBVIOUS
  <2>2. /\ 3 * k + 1 = 3 * (k + 1) - 2
        /\ 3 * k + 2 = 3 * (k + 1) - 1 /\ 3 * k + 2 # 3 * (k + 1) - 2
        /\ 3 * k + 3 = 3 * (k + 1) /\ 3 * k + 3 # 3 * (k + 1) - 2
        /\ 3 * k + 3 # 3 * (k + 1) - 1
        /\ 3 * k + 1 # 3 * (k + 1) - 1 /\ 3 * k + 1 # 3 * (k + 1)
        /\ 3 * k + 2 # 3 * (k + 1)
    OBVIOUS
  <2> QED
    BY <2>1, <2>2
<1> HIDE DEF Piece
<1>4. TokenLines \in Seq(Pieces) /\ Len(TokenLines) = 3 * Tokens
  BY <1>1, <1>2
<1>5. \A k \in 0..(Tokens - 1) : /\ TokenLines[3 * k + 1] = Open(k + 1)
                                 /\ TokenLines[3 * k + 2] = Close(k + 1)
                                 /\ TokenLines[3 * k + 3] = Newline
  <2> TAKE k \in 0..(Tokens - 1)
  <2>1. 3 * k + 1 \in 1..(3 * Tokens) /\ 3 * k + 2 \in 1..(3 * Tokens)
        /\ 3 * k + 3 \in 1..(3 * Tokens)
    OBVIOUS
  <2> QED
    BY <1>1, <1>3, <2>1
<1> DEFINE H == <<<<"header", 0>>>>
           L == <<<<"last", 0>>>>
<1>6. /\ H \in Seq(Pieces) /\ Len(H) = 1
      /\ L \in Seq(Pieces) /\ Len(L) = 1 /\ L[1] = <<"last", 0>>
  BY DEF Pieces
<1>7. Reply(TRUE) = H \o TokenLines \o L
  BY DEF Reply
<1> HIDE DEF H, L
<1>8. /\ Reply(TRUE) \in Seq(Pieces) /\ Len(Reply(TRUE)) = 3 * Tokens + 2
      /\ \A i \in 1..(3 * Tokens) : Reply(TRUE)[1 + i] = TokenLines[i]
      /\ Reply(TRUE)[3 * Tokens + 2] = L[1]
  <2>1. 3 * Tokens \in Nat
    OBVIOUS
  <2> QED
    <3> DEFINE n == 3 * Tokens
    <3>1. n = Len(TokenLines) /\ TokenLines \in Seq(Pieces) /\ Len(TokenLines) = n
      BY <1>4, <2>1
    <3> HIDE DEF n
    <3>2. H \in Seq(Pieces) /\ Len(H) = 1 /\ L \in Seq(Pieces) /\ Len(L) = 1
      BY ONLY <1>6
    <3>3. H \o TokenLines \o L \in Seq(Pieces) /\ Len(H \o TokenLines \o L) = n + 2
      BY ONLY <3>1, <3>2, Between
    <3>4. \A i \in 1..n : (H \o TokenLines \o L)[1 + i] = TokenLines[i]
      BY ONLY <3>1, <3>2, Between
    <3>5. (H \o TokenLines \o L)[n + 2] = L[1]
      BY ONLY <3>1, <3>2, Between
    <3> QED
      BY <1>7, <3>3, <3>4, <3>5, Zenon DEF n
<1>9. Reply(FALSE) \in Seq(Pieces) /\ Len(Reply(FALSE)) = 3
  BY DEF Reply, Pieces, Open, Close
<1>10. \A k \in 0..(Tokens - 1) : /\ Reply(TRUE)[3 * k + 2] = Open(k + 1)
                                  /\ Reply(TRUE)[3 * k + 3] = Close(k + 1)
                                  /\ Reply(TRUE)[3 * k + 4] = Newline
  <2> TAKE k \in 0..(Tokens - 1)
  <2>1. /\ 3 * k + 1 \in 1..(3 * Tokens) /\ 3 * k + 2 \in 1..(3 * Tokens)
        /\ 3 * k + 3 \in 1..(3 * Tokens)
        /\ 1 + (3 * k + 1) = 3 * k + 2 /\ 1 + (3 * k + 2) = 3 * k + 3
        /\ 1 + (3 * k + 3) = 3 * k + 4
    OBVIOUS
  <2> QED
    BY <1>5, <1>8, <2>1
<1> QED
  BY <1>6, <1>8, <1>9, <1>10

\* One token more.
LEMMA FirstTokensIs ==
  ASSUME NEW n \in 0..Tokens
  PROVE  /\ FirstTokens(n) \in Seq(1..Tokens) /\ Len(FirstTokens(n)) = n
         /\ FirstTokens(0) = <<>>
         /\ n < Tokens => Append(FirstTokens(n), n + 1) = FirstTokens(n + 1)
<1> USE StreamAssumption
<1>1. ASSUME NEW m \in 0..Tokens
      PROVE  FirstTokens(m) \in Seq(1..Tokens) /\ Len(FirstTokens(m)) = m
  BY DEF FirstTokens
<1>2. FirstTokens(0) = <<>>
  BY <1>1, EmptySeq
<1>3. ASSUME n < Tokens
      PROVE  Append(FirstTokens(n), n + 1) = FirstTokens(n + 1)
  <2>1. n + 1 \in 1..Tokens /\ n + 1 \in 0..Tokens
    BY <1>3
  <2> DEFINE f == FirstTokens(n)
             a == Append(f, n + 1)
  <2>2. f \in Seq(1..Tokens) /\ Len(f) = n /\ \A i \in 1..n : f[i] = i
    BY <1>1 DEF FirstTokens
  <2> HIDE DEF f
  <2>3. /\ a \in Seq(1..Tokens) /\ Len(a) = Len(f) + 1
        /\ \A i \in 1..Len(f) : a[i] = f[i]
        /\ a[Len(f) + 1] = n + 1
    <3> DEFINE e == n + 1
               S == 1..Tokens
    <3>1. e \in S /\ f \in Seq(S)
      BY <2>1, <2>2
    <3> HIDE DEF e, S
    <3>2. /\ Append(f, e) \in Seq(S) /\ Len(Append(f, e)) = Len(f) + 1
          /\ \A i \in 1..Len(f) : Append(f, e)[i] = f[i]
          /\ Append(f, e)[Len(f) + 1] = e
      BY ONLY <3>1, AppendProperties
    <3> QED
      BY <3>2 DEF e, S
  <2> HIDE DEF a
  <2>4. \A i \in 1..(n + 1) : a[i] = i
    <3> TAKE i \in 1..(n + 1)
    <3>1. i \in 1..n \/ i = n + 1
      OBVIOUS
    <3> QED
      BY <2>2, <2>3, <3>1
  <2>5. Len(a) = n + 1
    BY <2>2, <2>3
  <2>6. \A i \in 1..(n + 1) : FirstTokens(n + 1)[i] = i
    BY DEF FirstTokens
  <2>7. FirstTokens(n + 1) \in Seq(1..Tokens) /\ Len(FirstTokens(n + 1)) = n + 1
    BY <1>1, <2>1
  <2> QED
    BY <2>3, <2>4, <2>5, <2>6, <2>7, SeqEqual DEF a, f
<1> QED
  BY <1>1, <1>2, <1>3

\* The reply's type.
LEMMA ReplyType ==
  ASSUME streaming \in BOOLEAN
  PROVE  Reply(streaming) \in Seq(Pieces) /\ Len(Reply(streaming)) \in Nat
<1>1. CASE streaming
  BY <1>1, ReplyIs, LenProperties
<1>2. CASE ~streaming
  BY <1>2, ReplyIs, LenProperties DEF Reply
<1> QED
  BY <1>1, <1>2

\* What recv adds to the buffer.
LEMMA BodyIs ==
  ASSUME TypeOK, NEW n \in 1..Len(Reply(streaming)), received + n <= sent
  PROVE  Body(n) \in Seq(Pieces)
<1> DEFINE m == IF received = 0 THEN 2 ELSE received + 1
<1>1. /\ Reply(streaming) \in Seq(Pieces) /\ Len(Reply(streaming)) \in Nat
      /\ received \in Nat /\ sent \in Nat /\ sent <= Len(Reply(streaming))
  BY ReplyType DEF TypeOK
<1>2. m \in Int /\ received + n \in Int /\ m >= 1
      /\ received + n <= Len(Reply(streaming))
  BY <1>1
<1> HIDE DEF m
<1>3. \A i \in m..(received + n) : Reply(streaming)[i] \in Pieces
  BY <1>1, <1>2, ElementOfSeq
<1> QED
  BY <1>2, <1>3, SubSeqProperties DEF Body, m

\* A part of the reply that starts with the line of token k + 1.
LEMMA LineAt ==
  ASSUME NEW k \in 0..Tokens, NEW r \in Nat, 3 * k + 1 <= r, r <= 3 * Tokens + 2
  PROVE  LET q == SubSeq(Reply(TRUE), 3 * k + 2, r) IN
         /\ q \in Seq(Pieces) /\ Len(q) = r - (3 * k + 1)
         /\ \A j \in 1..(r - (3 * k + 1)) : q[j] = Reply(TRUE)[3 * k + 1 + j]
         /\ r >= 3 * k + 3 => /\ k < Tokens
                              /\ q[1] = Open(k + 1) /\ q[2] = Close(k + 1)
         /\ r >= 3 * k + 4 => q[3] = Newline
         /\ r <= 3 * k + 3 => \A j \in 1..Len(q) : q[j] # Newline
<1> USE StreamAssumption
<1> DEFINE R == Reply(TRUE)
           q == SubSeq(R, 3 * k + 2, r)
<1>1. /\ R \in Seq(Pieces) /\ Len(R) = 3 * Tokens + 2
      /\ \A t \in 0..(Tokens - 1) : /\ R[3 * t + 2] = Open(t + 1)
                                    /\ R[3 * t + 3] = Close(t + 1)
                                    /\ R[3 * t + 4] = Newline
      /\ R[3 * Tokens + 2] = <<"last", 0>>
  BY ReplyIs
<1> HIDE DEF R
<1>2. \A i \in (3 * k + 2)..r : R[i] \in Pieces
  BY <1>1, ElementOfSeq
<1>3. /\ q \in Seq(Pieces)
      /\ Len(q) = IF 3 * k + 2 <= r THEN r - (3 * k + 2) + 1 ELSE 0
      /\ \A i \in 1..(r - (3 * k + 2) + 1) : q[i] = R[3 * k + 2 + i - 1]
  BY <1>2, SubSeqProperties
<1> HIDE DEF q
<1>4. /\ Len(q) = r - (3 * k + 1)
      /\ \A j \in 1..(r - (3 * k + 1)) : q[j] = R[3 * k + 1 + j]
  <2>1. r - (3 * k + 2) + 1 = r - (3 * k + 1)
    OBVIOUS
  <2>2. \A j \in 1..(r - (3 * k + 1)) : 3 * k + 2 + j - 1 = 3 * k + 1 + j
    OBVIOUS
  <2>3. Len(q) = r - (3 * k + 1)
    BY <1>3
  <2> QED
    BY <1>3, <2>1, <2>2, <2>3
<1>5. ASSUME r >= 3 * k + 3
      PROVE  k < Tokens /\ q[1] = Open(k + 1) /\ q[2] = Close(k + 1)
  <2>1. k < Tokens /\ k \in 0..(Tokens - 1)
    BY <1>5
  <2>2. q[1] = R[3 * k + 1 + 1] /\ q[2] = R[3 * k + 1 + 2]
    BY <1>4, <1>5
  <2>3. 3 * k + 1 + 1 = 3 * k + 2 /\ 3 * k + 1 + 2 = 3 * k + 3
    OBVIOUS
  <2> QED
    BY <1>1, <2>1, <2>2, <2>3
<1>6. ASSUME r >= 3 * k + 4
      PROVE  q[3] = Newline
  <2>1. k \in 0..(Tokens - 1)
    BY <1>6
  <2>2. q[3] = R[3 * k + 1 + 3] /\ 3 * k + 1 + 3 = 3 * k + 4
    BY <1>4, <1>6
  <2> QED
    BY <1>1, <2>1, <2>2
<1>7. ASSUME r <= 3 * k + 3, NEW j \in 1..Len(q)
      PROVE  q[j] # Newline
  <2>1. Len(q) <= 2 /\ (j = 1 \/ j = 2)
    BY <1>4, <1>7
  <2>2. q[j] = R[3 * k + 1 + j]
    BY <1>4
  <2>3. CASE k = Tokens
    <3>1. j = 1 /\ 3 * k + 1 + j = 3 * Tokens + 2
      BY <1>4, <2>1, <2>3
    <3> QED
      BY <1>1, <2>2, <3>1 DEF Newline
  <2>4. CASE k # Tokens
    <3>1. k \in 0..(Tokens - 1)
      BY <2>4
    <3>2. 3 * k + 1 + j = 3 * k + 2 \/ 3 * k + 1 + j = 3 * k + 3
      BY <2>1
    <3>3. q[j] = Open(k + 1) \/ q[j] = Close(k + 1)
      BY <1>1, <2>2, <3>1, <3>2
    <3> QED
      BY <3>3 DEF Newline, Open, Close
  <2> QED
    BY <2>3, <2>4
<1> QED
  BY <1>3, <1>4, <1>5, <1>6, <1>7 DEF q, R

-----------------------------------------------------------------------------
(* What consuming a line does.                                             *)

\* The line of the next token: the token is added and emitted, or cannot be.
TokenConsumed(next) ==
  /\ Len(content) < Tokens
  /\ content' = Append(content, Len(content) + 1)
  /\ \/ Write(TokenEvent(Len(content) + 1)) /\ wpc' = next /\ UNCHANGED httpError
     \/ WriteFails /\ wpc' = "after" /\ httpError' = "cancelled"

\* A line without a token.
NothingConsumed(next) == wpc' = next /\ UNCHANGED <<content, wire, httpError>>

\* The line of a token, and what is none.
LEMMA ConsumeTokenLine ==
  ASSUME TypeOK, NEW line \in Seq(Pieces), Len(line) = 2, Len(content) < Tokens,
         line[1] = Open(Len(content) + 1), line[2] = Close(Len(content) + 1),
         NEW next, ConsumeLine(line, next, "after")
  PROVE  TokenConsumed(next)
<1> DEFINE t == Len(content) + 1
<1>1. /\ line[1][1] = "open" /\ line[1][2] = t /\ line[2] = Close(line[1][2])
  BY DEF Open
<1>2. LineTokens(line) = <<t>>
  BY <1>1 DEF LineTokens
<1>3. t \in 1..Tokens /\ content \in Seq(1..Tokens)
  BY StreamAssumption, LenProperties DEF TypeOK
<1>4. content \o <<t>> = Append(content, t)
  BY <1>3, AppendIsConcat
<1>5. <<t>> # <<>>
  OBVIOUS
<1> QED
  BY <1>1, <1>2, <1>4, <1>5, Zenon DEF ConsumeLine, TokenConsumed

LEMMA ConsumeNoTokenLine ==
  ASSUME NEW line, Len(line) # 2, NEW next, ConsumeLine(line, next, "after")
  PROVE  NothingConsumed(next)
<1>1. LineTokens(line) = <<>>
  BY DEF LineTokens
<1> QED
  BY <1>1, Zenon DEF ConsumeLine, NothingConsumed

\* The types the arguments below need.
LEMMA BufferTypes ==
  ASSUME TypeOK
  PROVE  /\ Len(content) \in 0..Tokens /\ received \in Nat
         /\ streaming => received <= 3 * Tokens + 2
<1>1. /\ content \in Seq(1..Tokens) /\ Len(content) <= Tokens
      /\ streaming \in BOOLEAN /\ sent \in 0..Len(Reply(streaming)) /\ received \in 0..sent
  BY DEF TypeOK
<1>2. Len(content) \in Nat /\ Len(Reply(streaming)) \in Nat
  BY <1>1, LenProperties, ReplyType
<1>3. streaming => Len(Reply(streaming)) = 3 * Tokens + 2
  BY <1>1, ReplyIs
<1> QED
  BY <1>1, <1>2, <1>3, StreamAssumption

\* on_body finds no complete line, or that of the next token.
LEMMA OnBodyOutcome ==
  ASSUME TypeOK, ControlInvariant, ParseInvariant, OnBody
  PROVE  LET k == Len(content) IN
         \/ /\ NothingConsumed("recv") /\ UNCHANGED pending
            /\ received # 0 => received <= 3 * k + 3
         \/ /\ TokenConsumed("lines")
            /\ received # 0 /\ 3 * k + 4 <= received
            /\ pending' = SubSeq(Reply(TRUE), 3 * k + 5, received)
<1> DEFINE k == Len(content)
           q == SubSeq(Reply(TRUE), 3 * k + 2, received)
<1>1. wpc = "lines" /\ streaming /\ statusOk /\ httpError = "none"
  BY DEF OnBody, ControlInvariant
<1>2. k \in 0..Tokens /\ received \in Nat /\ received <= 3 * Tokens + 2
  BY <1>1, BufferTypes
<1>3. IF received = 0 THEN pending = <<>> ELSE 3 * k + 1 <= received /\ pending = q
  BY <1>1 DEF ParseInvariant
<1> HIDE DEF q
<1>4. CASE ~Contains(pending, Newline)
  <2>1. NothingConsumed("recv") /\ UNCHANGED pending
    BY <1>4, Zenon DEF OnBody, NothingConsumed
  <2>2. ASSUME received # 0, ~(received <= 3 * k + 3)
        PROVE  FALSE
    <3>1. received >= 3 * k + 4 /\ 3 * k + 1 <= received
      BY <1>2, <2>2
    <3>2. q \in Seq(Pieces) /\ Len(q) = received - (3 * k + 1) /\ q[3] = Newline
      BY <1>2, <3>1, LineAt DEF q
    <3>3. 3 \in 1..Len(q)
      BY <1>2, <3>1, <3>2
    <3> QED
      BY <1>3, <1>4, <2>2, <3>2, <3>3 DEF Contains
  <2> QED
    BY <2>1, <2>2
<1>5. CASE Contains(pending, Newline)
  <2>1. received # 0
    <3>1. pending = <<>> => ~Contains(pending, Newline)
      BY DEF Contains
    <3> QED
      BY <1>3, <1>5, <3>1
  <2>2. 3 * k + 1 <= received /\ pending = q
    BY <1>3, <2>1
  <2>3. /\ q \in Seq(Pieces) /\ Len(q) = received - (3 * k + 1)
        /\ \A j \in 1..(received - (3 * k + 1)) : q[j] = Reply(TRUE)[3 * k + 1 + j]
        /\ received >= 3 * k + 3 => /\ k < Tokens
                                    /\ q[1] = Open(k + 1) /\ q[2] = Close(k + 1)
        /\ received >= 3 * k + 4 => q[3] = Newline
        /\ received <= 3 * k + 3 => \A j \in 1..Len(q) : q[j] # Newline
    BY <1>2, <2>2, LineAt DEF q
  <2>4. received >= 3 * k + 4 /\ received >= 3 * k + 3
    BY <1>2, <1>5, <2>2, <2>3 DEF Contains
  <2>5. SelectInSeq(pending, LAMBDA p : p = Newline) = 3
    <3>1. 3 \in 1..Len(q) /\ q[3] = Newline
      BY <1>2, <2>3, <2>4
    <3>2. \A j \in 1..(3 - 1) : q[j] # Newline
      BY <2>3, <2>4 DEF Open, Close, Newline
    <3> QED
      BY <2>2, <2>3, <3>1, <3>2, FirstNewline
  <2>6. /\ ConsumeLine(SubSeq(pending, 1, 3 - 1), "lines", "after")
        /\ pending' = SubSeq(pending, 3 + 1, Len(pending))
    BY <1>5, <2>5, Zenon DEF OnBody
  <2> DEFINE line == SubSeq(pending, 1, 3 - 1)
  <2>7. /\ line \in Seq(Pieces) /\ Len(line) = 2
        /\ line[1] = Open(k + 1) /\ line[2] = Close(k + 1)
    <3>1. \A i \in 1..(3 - 1) : q[i] \in Pieces
      BY <1>2, <2>3, <2>4, ElementOfSeq
    <3>2. /\ line \in Seq(Pieces) /\ Len(line) = 2
          /\ \A i \in 1..2 : line[i] = q[i]
      BY <2>2, <3>1, SubSeqProperties
    <3> QED
      BY <2>3, <2>4, <3>2
  <2>8. TokenConsumed("lines")
    BY <2>3, <2>4, <2>6, <2>7, ConsumeTokenLine
  <2>9. pending' = SubSeq(Reply(TRUE), 3 * k + 5, received)
    <3> DEFINE p == SubSeq(Reply(TRUE), 3 * k + 5, received)
    <3> DEFINE m == k + 1
    <3>1. m \in 0..Tokens /\ 3 * m + 1 <= received
      BY <1>2, <2>3, <2>4, StreamAssumption
    <3>2. LET u == SubSeq(Reply(TRUE), 3 * m + 2, received) IN
          /\ u \in Seq(Pieces) /\ Len(u) = received - (3 * m + 1)
          /\ \A j \in 1..(received - (3 * m + 1)) : u[j] = Reply(TRUE)[3 * m + 1 + j]
      <4> HIDE DEF m
      <4> QED
        BY <1>2, <3>1, LineAt
    <3>3. 3 * m + 2 = 3 * k + 5 /\ 3 * m + 1 = 3 * k + 4
      BY <1>2
    <3> HIDE DEF m
    <3>4. /\ p \in Seq(Pieces) /\ Len(p) = received - (3 * k + 4)
          /\ \A j \in 1..(received - (3 * k + 4)) : p[j] = Reply(TRUE)[3 * k + 4 + j]
      BY <3>2, <3>3
    <3> HIDE DEF p
    <3> DEFINE n == received - (3 * k + 4)
    <3>5. n \in Nat /\ Len(q) = n + 3
      BY <1>2, <2>3, <2>4
    <3>6. \A i \in 4..Len(q) : q[i] \in Pieces
      BY <2>3, <3>5, ElementOfSeq
    <3>7. /\ SubSeq(q, 4, Len(q)) \in Seq(Pieces) /\ Len(SubSeq(q, 4, Len(q))) = n
          /\ \A i \in 1..n : SubSeq(q, 4, Len(q))[i] = q[4 + i - 1]
      BY <3>5, <3>6, SubSeqProperties
    <3>8. \A i \in 1..n : q[4 + i - 1] = p[i]
      <4> TAKE i \in 1..n
      <4>1. 4 + i - 1 \in 1..(received - (3 * k + 1))
            /\ 3 * k + 1 + (4 + i - 1) = 3 * k + 4 + i
        BY <1>2, <3>5
      <4> QED
        BY <2>3, <3>4, <4>1
    <3> HIDE DEF n
    <3>9. SubSeq(q, 4, Len(q)) = p
      BY <3>4, <3>7, <3>8, SeqEqual DEF n
    <3>10. pending' = SubSeq(pending, 4, Len(pending))
      <4>1. 3 + 1 = 4
        OBVIOUS
      <4> QED
        BY <2>6, <4>1, Zenon
    <3> QED
      BY <2>2, <3>9, <3>10, Zenon DEF p
  <2> QED
    BY <2>1, <2>4, <2>8, <2>9
<1> QED
  BY <1>4, <1>5

\* The unterminated last line has no token, or the next one.
LEMMA LastLineOutcome ==
  ASSUME TypeOK, ControlInvariant, ParseInvariant, LastLine
  PROVE  NothingConsumed("done") \/ TokenConsumed("done")
<1> DEFINE k == Len(content)
           q == SubSeq(Reply(TRUE), 3 * k + 2, received)
<1>1. wpc = "last" /\ streaming /\ statusOk /\ httpError # "cancelled"
  BY DEF LastLine, ControlInvariant
<1>2. k \in 0..Tokens /\ received \in Nat /\ received <= 3 * Tokens + 2
  BY <1>1, BufferTypes
<1>3. IF received = 0 THEN pending = <<>>
      ELSE 3 * k + 1 <= received /\ pending = q /\ received <= 3 * k + 3
  BY <1>1 DEF ParseInvariant
<1> HIDE DEF q
<1>4. ConsumeLine(pending, "done", "after")
  BY DEF LastLine
<1>5. CASE Len(pending) # 2
  BY <1>4, <1>5, ConsumeNoTokenLine
<1>6. CASE Len(pending) = 2
  <2>1. received # 0
    <3>1. Len(<<>>) # 2
      OBVIOUS
    <3> QED
      BY <1>3, <1>6, <3>1
  <2>2. Len(q) = received - (3 * k + 1) /\ q \in Seq(Pieces)
        /\ (received >= 3 * k + 3 => /\ k < Tokens
                                     /\ q[1] = Open(k + 1) /\ q[2] = Close(k + 1))
    BY <1>2, <1>3, <2>1, LineAt DEF q
  <2>3. pending = q
    BY <1>3, <2>1
  <2>4. received >= 3 * k + 3
    <3>1. received - (3 * k + 1) = 2
      BY <1>6, <2>2, <2>3, Zenon
    <3> QED
      BY <1>2, <3>1
  <2> QED
    BY <1>4, <1>6, <2>2, <2>3, <2>4, ConsumeTokenLine
<1> QED
  BY <1>5, <1>6

-----------------------------------------------------------------------------
(* The events on their way.                                                *)

LEMMA NoEventIsNone == NoEvent \notin Events
  BY DEF NoEvent, Events

\* The handler's event as a sequence.
Held == IF event = NoEvent THEN <<>> ELSE <<event>>

LEMMA DeliveredType ==
  ASSUME TypeOK
  PROVE  /\ Held \in Seq(Events) /\ sse \in Seq(Events) /\ wire \in Seq(Events)
         /\ Delivered = (sse \o Held) \o wire
         /\ Delivered \in Seq(Events)
<1>1. Held \in Seq(Events)
  BY DEF TypeOK, Held
<1>2. sse \in Seq(Events) /\ wire \in Seq(Events)
  BY DEF TypeOK
<1>3. Delivered = (sse \o Held) \o wire
  BY DEF Delivered, Held
<1> QED
  BY <1>1, <1>2, <1>3, ConcatProperties

\* Write puts an event behind the others.
LEMMA DeliveredWrite ==
  ASSUME TypeOK, NEW e \in Events, Write(e), UNCHANGED <<sse, event>>
  PROVE  Delivered' = Append(Delivered, e)
<1>1. /\ sse \o Held \in Seq(Events) /\ wire \in Seq(Events) /\ <<e>> \in Seq(Events)
      /\ Delivered = (sse \o Held) \o wire /\ Delivered \in Seq(Events)
  BY DeliveredType, ConcatProperties
<1>2. wire' = wire \o <<e>>
  BY <1>1, AppendIsConcat DEF Write
<1>3. Delivered' = (sse \o Held) \o wire'
  BY DEF Delivered, Held
<1>4. (sse \o Held) \o (wire \o <<e>>) = ((sse \o Held) \o wire) \o <<e>>
  BY <1>1, ConcatAssociative
<1>5. Append(Delivered, e) = Delivered \o <<e>>
  BY <1>1, AppendIsConcat
<1> QED
  BY <1>1, <1>2, <1>3, <1>4, <1>5

\* Recv takes the first event off the wire into the handler's hands.
LEMMA DeliveredRecv ==
  ASSUME TypeOK, event = NoEvent, RecvEvent
  PROVE  Delivered' = Delivered /\ event' # NoEvent
<1> DEFINE e == Head(wire)
<1>1. /\ sse \in Seq(Events) /\ wire \in Seq(Events) /\ wire # <<>>
      /\ event' = e /\ wire' = Tail(wire) /\ sse' = sse
  BY DeliveredType DEF RecvEvent
<1>2. e \in Events /\ Tail(wire) \in Seq(Events)
  BY <1>1, HeadTailProperties
<1>3. e # NoEvent
  BY <1>2, NoEventIsNone
<1>4. <<e>> \o Tail(wire) = wire
  <2>1. /\ Len(wire) \in Nat \ {0} /\ wire[1] = e
    BY <1>1, EmptySeq
  <2>2. 1 \in 1..Len(wire) /\ Len(wire) \in 1..Len(wire)
    BY <2>1
  <2>3. SubSeq(wire, 1, Len(wire)) = <<wire[1]>> \o SubSeq(wire, 1 + 1, Len(wire))
    BY <1>1, <2>2, SubSeqRecursiveFirst
  <2>4. SubSeq(wire, 1, Len(wire)) = wire /\ Tail(wire) = SubSeq(wire, 2, Len(wire))
    BY <1>1, SubSeqFull, TailIsSubSeq
  <2> QED
    BY <2>1, <2>3, <2>4
<1> HIDE DEF e
<1>5. Delivered' = (sse \o <<e>>) \o Tail(wire)
  BY <1>1, <1>3 DEF Delivered
<1>6. Delivered = sse \o wire
  BY <1>1, ConcatEmptySeq DEF Delivered
<1>7. (sse \o <<e>>) \o Tail(wire) = sse \o (<<e>> \o Tail(wire))
  <2>1. <<e>> \in Seq(Events)
    BY <1>2
  <2> QED
    BY <1>1, <1>2, <2>1, ConcatAssociative
<1> QED
  BY <1>1, <1>3, <1>4, <1>5, <1>6, <1>7

\* writeSSEEvent hands it to the client.
LEMMA DeliveredSse ==
  ASSUME TypeOK, event # NoEvent, sse' = Append(sse, event), event' = NoEvent,
         UNCHANGED wire
  PROVE  Delivered' = Delivered
<1>1. event \in Events /\ sse \in Seq(Events) /\ wire \in Seq(Events)
  BY DEF TypeOK
<1>2. sse' = sse \o <<event>>
  BY <1>1, AppendIsConcat
<1>3. sse' \in Seq(Events)
  BY <1>1
<1>4. sse' \o <<>> = sse'
  BY <1>3, ConcatEmptySeq
<1> QED
  BY <1>2, <1>4 DEF Delivered

\* What the client has got is what comes first.
LEMMA DeliveredPrefix ==
  ASSUME TypeOK
  PROVE  /\ Len(sse) \in Nat /\ Len(Delivered) \in Nat /\ Len(sse) <= Len(Delivered)
         /\ \A i \in 1..Len(sse) : Delivered[i] = sse[i]
         /\ event # NoEvent => /\ Len(sse) + 1 <= Len(Delivered)
                               /\ Delivered[Len(sse) + 1] = event
         /\ event = NoEvent /\ wire = <<>> => Delivered = sse
<1>1. /\ Held \in Seq(Events) /\ sse \in Seq(Events) /\ wire \in Seq(Events)
      /\ Delivered = (sse \o Held) \o wire
  BY DeliveredType
<1> DEFINE s == sse \o Held
<1>2. /\ s \in Seq(Events) /\ Len(s) = Len(sse) + Len(Held)
      /\ \A i \in 1..Len(sse) + Len(Held) : s[i] = IF i <= Len(sse) THEN sse[i]
                                                  ELSE Held[i - Len(sse)]
  BY <1>1, ConcatProperties
<1>3. Len(sse) \in Nat /\ Len(Held) \in Nat /\ Len(wire) \in Nat
  BY <1>1, LenProperties
<1> HIDE DEF s
<1>4. /\ Len(Delivered) = Len(s) + Len(wire)
      /\ \A i \in 1..Len(s) + Len(wire) : Delivered[i] = IF i <= Len(s) THEN s[i]
                                                        ELSE wire[i - Len(s)]
  BY <1>1, <1>2, ConcatProperties DEF s
<1>5. /\ Len(Delivered) \in Nat /\ Len(sse) <= Len(Delivered)
      /\ \A i \in 1..Len(sse) : Delivered[i] = sse[i]
  BY <1>2, <1>3, <1>4
<1>6. ASSUME event # NoEvent
      PROVE  Len(sse) + 1 <= Len(Delivered) /\ Delivered[Len(sse) + 1] = event
  <2>1. Len(Held) = 1 /\ Held[1] = event
    BY <1>6 DEF Held
  <2> QED
    BY <1>2, <1>3, <1>4, <2>1
<1>7. ASSUME event = NoEvent, wire = <<>>
      PROVE  Delivered = sse
  BY <1>1, <1>7, ConcatEmptySeq DEF Held
<1> QED
  BY <1>3, <1>5, <1>6, <1>7

-----------------------------------------------------------------------------
(* The invariant is preserved.                                             *)

StreamInvariant ==
  TypeOK /\ ControlInvariant /\ ParseInvariant /\ DeliveryInvariant /\ SpanInvariant

\* The steps that only move the worker thread, or what it knows of the response.
MovesWorker ==
  \/ Start \/ Connect \/ CheckCancelled \/ RecvWholeEnd \/ RecvEnd \/ RecvTooLong
  \/ RecvFails \/ After

\* The steps of the server, the client and the clock.
Environment ==
  \/ ServerSends \/ ServerEnds
  \/ ClientLeaves \/ WriteDeadlinePasses \/ ContextEnds \/ CancelArrives

\* The tokens on the wire.
LEMMA EventTypes ==
  ASSUME TypeOK
  PROVE  /\ ErrorEvent \in Events /\ DoneEvent \in Events
         /\ Len(content) < Tokens => /\ TokenEvent(Len(content) + 1) \in Events
                                     /\ Len(content) + 1 \in 1..Tokens
<1>1. content \in Seq(1..Tokens) /\ Len(content) \in Nat
  BY LenProperties DEF TypeOK
<1>2. Len(content) < Tokens => Len(content) + 1 \in 1..Tokens
  BY <1>1, StreamAssumption
<1>3. ASSUME NEW t \in 1..Tokens
      PROVE  TokenEvent(t) \in Events
  BY DEF TokenEvent, Events
<1> QED
  BY <1>1, <1>2, <1>3 DEF ErrorEvent, DoneEvent, Events

LEMMA TypeConsumed ==
  ASSUME TypeOK, NEW next, TokenConsumed(next)
  PROVE  /\ content' \in Seq(1..Tokens) /\ Len(content') = Len(content) + 1
         /\ Len(content') <= Tokens /\ wire' \in Seq(Events)
         /\ wpc' \in {next, "after"} /\ httpError' \in {httpError, "cancelled"}
<1>1. content \in Seq(1..Tokens) /\ wire \in Seq(Events) /\ Len(content) \in Nat
  BY LenProperties DEF TypeOK
<1>2. Len(content) + 1 \in 1..Tokens /\ TokenEvent(Len(content) + 1) \in Events
  BY EventTypes DEF TokenConsumed
<1>3. content' = Append(content, Len(content) + 1)
  BY DEF TokenConsumed
<1>4. content' \in Seq(1..Tokens) /\ Len(content') = Len(content) + 1
  BY <1>1, <1>2, <1>3, AppendProperties
<1>5. wire' \in Seq(Events)
  BY <1>1, <1>2 DEF TokenConsumed, Write, WriteFails
<1> QED
  BY <1>1, <1>2, <1>4, <1>5 DEF TokenConsumed

LEMMA TypeStep ==
  ASSUME StreamInvariant, [Next]_vars
  PROVE  TypeOK'
<1> USE DEF StreamInvariant, clientVars
<1>1. CASE MovesWorker
  BY <1>1 DEF MovesWorker, Start, Connect, CheckCancelled, RecvWholeEnd, RecvEnd, RecvTooLong,
              RecvFails, After, HttpReturns, Finish, TypeOK, serverVars, httpVars, parseVars,
              gatewayVars, spans
<1>2. ASSUME NEW n \in 1..Len(Reply(streaming)), RecvWhole(n) \/ RecvData(n)
      PROVE  TypeOK'
  <2>1. received + n <= sent /\ received' = received + n
    BY <1>2 DEF RecvWhole, RecvData
  <2>2. received' \in 0..sent
    BY <2>1, ReplyType DEF TypeOK
  <2>3. Body(n) \in Seq(Pieces) /\ pending \in Seq(Pieces)
    BY <2>1, BodyIs DEF TypeOK
  <2>4. pending \o Body(n) \in Seq(Pieces)
    BY <2>3, ConcatProperties
  <2>5. /\ pending' \in Seq(Pieces)
        /\ wpc' \in {"recv", "lines"} /\ responseOk' \in BOOLEAN
        /\ UNCHANGED <<serverVars, httpError, content, wire, rpcStatus, workerCancelled,
                       gatewayVars, clientVars>>
    BY <1>2, <2>3, <2>4 DEF RecvWhole, RecvData, TypeOK
  <2> QED
    BY <2>2, <2>5 DEF TypeOK, serverVars, gatewayVars, spans
<1>3. CASE OnBody
  <2>1. pending' \in Seq(Pieces)
    <3>1. CASE received # 0 /\ 3 * Len(content) + 4 <= received
               /\ pending' = SubSeq(Reply(TRUE), 3 * Len(content) + 5, received)
      <4>1. streaming
        BY <1>3 DEF OnBody, ControlInvariant
      <4> DEFINE m == 3 * Len(content) + 5
      <4>2. received \in Nat /\ received <= 3 * Tokens + 2 /\ m \in Nat /\ m >= 1
        BY <4>1, BufferTypes, StreamAssumption
      <4> DEFINE R == Reply(TRUE)
      <4>3. R \in Seq(Pieces) /\ Len(R) = 3 * Tokens + 2
        BY ReplyIs
      <4>4. pending' = SubSeq(R, m, received)
        BY <3>1
      <4> HIDE DEF m, R
      <4>5. \A i \in m..received : R[i] \in Pieces
        BY <4>2, <4>3, ElementOfSeq, StreamAssumption
      <4> QED
        BY <4>2, <4>4, <4>5, SubSeqProperties
    <3>2. CASE UNCHANGED pending
      BY <3>2 DEF TypeOK
    <3> QED
      BY <1>3, <3>1, <3>2, OnBodyOutcome
  <2>2. NothingConsumed("recv") \/ TokenConsumed("lines")
    BY <1>3, OnBodyOutcome
  <2>3. /\ content' \in Seq(1..Tokens) /\ Len(content') <= Tokens /\ wire' \in Seq(Events)
        /\ wpc' \in {"recv", "lines", "after"} /\ httpError' \in {httpError, "cancelled"}
    <3>1. CASE NothingConsumed("recv")
      BY <3>1 DEF NothingConsumed, TypeOK
    <3>2. CASE TokenConsumed("lines")
      BY <3>2, TypeConsumed
    <3> QED
      BY <2>2, <3>1, <3>2
  <2> QED
    BY <1>3, <2>1, <2>3 DEF OnBody, TypeOK, serverVars, gatewayVars, spans
<1>4. CASE LastLine
  <2>1. NothingConsumed("done") \/ TokenConsumed("done")
    BY <1>4, LastLineOutcome
  <2>2. /\ content' \in Seq(1..Tokens) /\ Len(content') <= Tokens /\ wire' \in Seq(Events)
        /\ wpc' \in {"done", "after"} /\ httpError' \in {httpError, "cancelled"}
    <3>1. CASE NothingConsumed("done")
      BY <3>1 DEF NothingConsumed, TypeOK
    <3>2. CASE TokenConsumed("done")
      BY <3>2, TypeConsumed
    <3> QED
      BY <2>1, <3>1, <3>2
  <2>3. pending' \in Seq(Pieces)
    BY <1>4 DEF LastLine
  <2>4. UNCHANGED <<serverVars, received, responseOk, rpcStatus, workerCancelled,
                    gatewayVars, clientVars>>
    BY <1>4 DEF LastLine
  <2> QED
    BY <2>2, <2>3, <2>4 DEF TypeOK, serverVars, gatewayVars, spans
<1>5. CASE ParseCompletion
  <2>1. Tokens \in 0..Tokens
    BY StreamAssumption
  <2>2. All \in Seq(1..Tokens) /\ Len(All) = Tokens /\ <<>> \in Seq(1..Tokens)
        /\ Len(<<>>) <= Tokens /\ Tokens <= Tokens /\ <<>> \in Seq(Pieces)
    BY <2>1, FirstTokensIs, StreamAssumption DEF All
  <2>3. content' \in Seq(1..Tokens) /\ Len(content') <= Tokens
    BY <1>5, <2>2 DEF ParseCompletion
  <2> QED
    BY <1>5, <2>2, <2>3 DEF ParseCompletion, TypeOK, serverVars, httpVars, gatewayVars, spans
<1>6. CASE EmitDone
  <2>1. wire' \in Seq(Events)
    <3>1. wire' = wire \/ wire' = Append(wire, DoneEvent)
      BY <1>6 DEF EmitDone, Write, WriteFails
    <3>2. wire \in Seq(Events) /\ DoneEvent \in Events
      BY EventTypes DEF TypeOK
    <3> QED
      BY <3>1, <3>2, AppendProperties
  <2> QED
    BY <1>6, <2>1 DEF EmitDone, Finish, TypeOK, serverVars, httpVars, parseVars, gatewayVars,
                      spans
<1>7. CASE Refuse \/ OpenStream
  BY <1>7 DEF Refuse, OpenStream, TypeOK, SpanStates, serverVars, httpVars, parseVars
<1>8. CASE RecvEvent
  <2>1. wire \in Seq(Events) /\ wire # <<>>
    BY <1>8 DEF RecvEvent, TypeOK
  <2>2. Head(wire) \in Events /\ Tail(wire) \in Seq(Events)
    BY <2>1, HeadTailProperties
  <2> QED
    BY <1>8, <2>2 DEF RecvEvent, TypeOK, serverVars, httpVars, parseVars, spans
<1>9. ASSUME sse' \in Seq(Events), event' = NoEvent,
             gpc' \in {"recv", "returned"}, ctxDone' \in BOOLEAN,
             httpSpan' \in {httpSpan, "ok", "error"}, workerSpan' \in {workerSpan, "ok", "error"},
             backendSpan' \in {backendSpan, "ok", "error"},
             UNCHANGED <<serverVars, workerVars, workerCancelled, clientVars>>
      PROVE  TypeOK'
  BY <1>9 DEF TypeOK, SpanStates, serverVars, workerVars, httpVars, parseVars
<1>10. CASE RecvEOF \/ RecvError
  <2>1. sse' = sse \/ sse' = Append(sse, ErrorEvent)
    BY <1>10 DEF RecvEOF, RecvError
  <2>2. sse \in Seq(Events) /\ ErrorEvent \in Events
    BY EventTypes DEF TypeOK
  <2>3. sse' \in Seq(Events)
    BY <2>1, <2>2, AppendProperties
  <2>4. /\ httpSpan' \in {httpSpan, "ok", "error"} /\ workerSpan' \in {workerSpan, "ok", "error"}
        /\ backendSpan' \in {backendSpan, "ok", "error"}
        /\ event' = NoEvent /\ gpc' \in {"recv", "returned"} /\ ctxDone' = TRUE
        /\ UNCHANGED <<serverVars, workerVars, workerCancelled, clientVars>>
    BY <1>10 DEF RecvEOF, RecvError, Return, Ended
  <2> QED
    BY <1>9, <2>3, <2>4
<1>11. CASE WriteEvent
  <2>1. event \in Events /\ sse \in Seq(Events)
    BY <1>11, NoEventIsNone DEF WriteEvent, TypeOK, DeliveryInvariant
  <2>2. sse' = sse \/ sse' = Append(sse, event)
    BY <1>11 DEF WriteEvent
  <2>3. sse' \in Seq(Events)
    BY <2>1, <2>2, AppendProperties
  <2>4. /\ httpSpan' \in {httpSpan, "ok", "error"} /\ workerSpan' \in {workerSpan, "ok", "error"}
        /\ backendSpan' \in {backendSpan, "ok", "error"}
        /\ event' = NoEvent /\ gpc' \in {"recv", "returned"} /\ ctxDone' \in BOOLEAN
        /\ UNCHANGED <<serverVars, workerVars, workerCancelled, clientVars>>
    BY <1>11 DEF WriteEvent, Return, Ended, TypeOK
  <2> QED
    BY <1>9, <2>3, <2>4
<1>12. CASE ServerSends
  <2>1. sent' \in 0..Len(Reply(streaming)) /\ received \in 0..sent'
    BY <1>12, ReplyType DEF ServerSends, TypeOK
  <2> QED
    BY <1>12, <2>1 DEF ServerSends, TypeOK, workerVars, httpVars, parseVars, gatewayVars, spans
<1>13. CASE ServerEnds
  BY <1>13 DEF ServerEnds, TypeOK, workerVars, httpVars, parseVars, gatewayVars, spans
<1>14. CASE ClientLeaves
  BY <1>14 DEF ClientLeaves, TypeOK, serverVars, workerVars, httpVars, parseVars, gatewayVars,
               spans
<1>15. CASE WriteDeadlinePasses
  BY <1>15 DEF WriteDeadlinePasses, TypeOK, serverVars, workerVars, httpVars, parseVars,
               gatewayVars, spans
<1>16. CASE ContextEnds
  BY <1>16 DEF ContextEnds, TypeOK, serverVars, workerVars, httpVars, parseVars, spans
<1>17. CASE CancelArrives
  BY <1>17 DEF CancelArrives, TypeOK, serverVars, workerVars, httpVars, parseVars,
               gatewayVars, spans
<1>18. CASE UNCHANGED vars
  BY <1>18 DEF TypeOK, vars, serverVars, workerVars, httpVars, parseVars, gatewayVars, spans
<1> QED
  BY <1>1, <1>2, <1>3, <1>4, <1>5, <1>6, <1>7, <1>8, <1>10, <1>11, <1>12, <1>13, <1>14,
     <1>15, <1>16, <1>17, <1>18
  DEF Next, Worker, Handler, MovesWorker, Idle

\* The steps that leave the worker thread and the exchange with the server alone.
HandlerOrEnvironment ==
  RecvEvent \/ RecvEOF \/ RecvError \/ WriteEvent \/ Environment \/ UNCHANGED vars

LEMMA HandlerLeavesWorker ==
  ASSUME HandlerOrEnvironment
  PROVE  /\ UNCHANGED <<streaming, statusOk, wpc, httpVars, parseVars, rpcStatus>>
         /\ gpc' = "start" => gpc = "start"
  BY DEF HandlerOrEnvironment, RecvEvent, RecvEOF, RecvError, WriteEvent, Return, Environment,
         ServerSends, ServerEnds, ClientLeaves, WriteDeadlinePasses, ContextEnds, CancelArrives, vars,
         serverVars, workerVars, gatewayVars

LEMMA ControlStep ==
  ASSUME StreamInvariant, [Next]_vars
  PROVE  ControlInvariant'
<1> USE DEF StreamInvariant
<1>1. CASE MovesWorker
  BY <1>1 DEF MovesWorker, Start, Connect, CheckCancelled, RecvWholeEnd, RecvEnd, RecvTooLong,
              RecvFails, After, HttpReturns, Finish, TypeOK, ControlInvariant, serverVars,
              httpVars, gatewayVars
<1>2. ASSUME NEW n \in 1..Len(Reply(streaming)), RecvWhole(n) \/ RecvData(n)
      PROVE  ControlInvariant'
  BY <1>2 DEF RecvWhole, RecvData, TypeOK, ControlInvariant, serverVars, gatewayVars
<1>3. CASE OnBody
  BY <1>3, OnBodyOutcome DEF OnBody, NothingConsumed, TokenConsumed, TypeOK, ControlInvariant,
                             serverVars, gatewayVars
<1>4. CASE LastLine
  BY <1>4, LastLineOutcome DEF LastLine, NothingConsumed, TokenConsumed, TypeOK,
                               ControlInvariant, serverVars, gatewayVars
<1>5. CASE ParseCompletion \/ EmitDone
  BY <1>5 DEF ParseCompletion, EmitDone, Finish, TypeOK, ControlInvariant, serverVars,
              httpVars, gatewayVars
<1>6. CASE Refuse \/ OpenStream
  BY <1>6 DEF Refuse, OpenStream, TypeOK, ControlInvariant, serverVars, httpVars
<1>7. CASE HandlerOrEnvironment
  BY <1>7, HandlerLeavesWorker DEF ControlInvariant, httpVars
<1> QED
  BY <1>1, <1>2, <1>3, <1>4, <1>5, <1>6, <1>7
  DEF Next, Worker, Handler, MovesWorker, HandlerOrEnvironment, Environment, Idle

LEMMA ParseQuiet ==
  ASSUME ParseInvariant, UNCHANGED <<streaming, statusOk, received, pending, content>>,
         httpError' # "cancelled" => httpError # "cancelled",
         wpc' \notin {"done", "returned"} => wpc \notin {"done", "returned"},
         wpc = "lines" => wpc' = "lines"
  PROVE  ParseInvariant'
  BY DEF ParseInvariant

\* recv appends to the buffer what follows it in the reply.
LEMMA ParseRecv ==
  ASSUME TypeOK, ControlInvariant, ParseInvariant,
         NEW n \in 1..Len(Reply(streaming)), RecvData(n)
  PROVE  ParseInvariant'
<1> DEFINE k == Len(content)
           R == Reply(TRUE)
<1>1. /\ wpc = "reading" /\ streaming /\ httpError = "none" /\ received + n <= sent
      /\ received' = received + n /\ wpc' \in {"lines", "recv"}
      /\ UNCHANGED <<streaming, statusOk, content, httpError>>
  BY DEF RecvData, ControlInvariant, serverVars
<1>2. content = FirstTokens(k)
  BY <1>1 DEF ParseInvariant
<1>3. /\ k \in 0..Tokens /\ received \in Nat /\ n \in Nat /\ n >= 1 /\ sent \in Nat
  BY BufferTypes, ReplyType DEF TypeOK
<1>4. R \in Seq(Pieces) /\ Len(R) = 3 * Tokens + 2 /\ Len(R) = Len(Reply(streaming))
  BY <1>1, ReplyIs
<1> HIDE DEF R
<1>5. received + n <= Len(R)
  <2>1. sent <= Len(Reply(streaming)) /\ Len(Reply(streaming)) \in Nat
    BY ReplyType DEF TypeOK
  <2> DEFINE N == Len(Reply(streaming))
  <2>2. sent <= N /\ N \in Nat /\ Len(R) = N /\ received + n <= sent
    BY <1>1, <1>4, <2>1
  <2> HIDE DEF N
  <2> QED
    BY <1>3, <2>2
<1>6. CASE ~statusOk
  BY <1>1, <1>2, <1>6 DEF RecvData, ParseInvariant
<1>7. CASE statusOk
  <2>1. /\ pending' = pending \o Body(n) /\ wpc' = "lines"
        /\ Body(n) = SubSeq(R, IF received = 0 THEN 2 ELSE received + 1, received + n)
    BY <1>1, <1>7 DEF RecvData, Body, R
  <2>2. received' # 0 /\ 3 * k + 1 <= received'
        /\ pending' = SubSeq(R, 3 * k + 2, received')
    <3>1. CASE received = 0
      <4>1. pending = <<>> /\ content = <<>>
        BY <1>1, <1>7, <3>1 DEF ParseInvariant
      <4>2. k = 0
        BY <4>1
      <4>3. Body(n) = SubSeq(R, 2, n) /\ received' = n
        BY <1>1, <1>3, <2>1, <3>1
      <4>4. SubSeq(R, 2, n) \in Seq(Pieces)
        <5>1. \A i \in 2..n : R[i] \in Pieces
          BY <1>3, <1>4, <1>5, <3>1, ElementOfSeq
        <5> QED
          BY <1>3, <5>1, SubSeqProperties
      <4>5. <<>> \o SubSeq(R, 2, n) = SubSeq(R, 2, n)
        BY <4>4, ConcatEmptySeq
      <4>6. 3 * k + 2 = 2 /\ 3 * k + 1 = 1
        BY <4>2
      <4> HIDE DEF k
      <4> QED
        BY <1>3, <2>1, <4>1, <4>3, <4>5, <4>6
    <3>2. CASE received # 0
      <4>1. 3 * k + 1 <= received /\ pending = SubSeq(R, 3 * k + 2, received)
        BY <1>1, <1>7, <3>2 DEF ParseInvariant, R
      <4>2. Body(n) = SubSeq(R, received + 1, received + n)
        BY <2>1, <3>2
      <4> DEFINE m == 3 * k + 2
                 N == Len(R)
      <4>3. m \in 1..(N + 1) /\ received \in (m - 1)..N /\ received + n \in received..N
        BY <1>3, <1>4, <1>5, <4>1, StreamAssumption
      <4> HIDE DEF m
      <4>4. SubSeq(R, m, received) \o SubSeq(R, received + 1, received + n)
            = SubSeq(R, m, received + n)
        BY <1>4, <4>3, ConcatAdjacentSubSeq
      <4>5. 3 * k + 1 <= received + n /\ received + n # 0
        BY <1>3, <4>1
      <4> QED
        BY <1>1, <2>1, <4>1, <4>2, <4>4, <4>5 DEF m
    <3> QED
      BY <3>1, <3>2
  <2> HIDE DEF k
  <2>3. k' = k
    BY <1>1 DEF k
  <2> QED
    BY <1>1, <1>2, <1>7, <2>1, <2>2, <2>3 DEF ParseInvariant, k, R
<1> QED
  BY <1>6, <1>7

LEMMA ParseStep ==
  ASSUME StreamInvariant, [Next]_vars
  PROVE  ParseInvariant'
<1> USE DEF StreamInvariant
<1>1. CASE MovesWorker
  <2>1. /\ UNCHANGED <<streaming, statusOk, received, pending, content>>
        /\ httpError' # "cancelled" => httpError # "cancelled"
        /\ wpc' \notin {"done", "returned"} => wpc \notin {"done", "returned"}
        /\ wpc # "lines"
    BY <1>1 DEF MovesWorker, Start, Connect, CheckCancelled, RecvWholeEnd, RecvEnd,
                RecvTooLong, RecvFails, After, HttpReturns, Finish, ControlInvariant,
                serverVars, httpVars, parseVars
  <2> QED
    BY <2>1, ParseQuiet
<1>2. ASSUME NEW n \in 1..Len(Reply(streaming)), RecvWhole(n)
      PROVE  ParseInvariant'
  BY <1>2 DEF RecvWhole, ParseInvariant, serverVars
<1>3. ASSUME NEW n \in 1..Len(Reply(streaming)), RecvData(n)
      PROVE  ParseInvariant'
  BY <1>3, ParseRecv
<1>4. ASSUME NEW next, TokenConsumed(next), streaming, httpError # "cancelled"
      PROVE  content' = FirstTokens(Len(content')) /\ Len(content') = Len(content) + 1
  <2>1. content = FirstTokens(Len(content)) /\ content' = Append(content, Len(content) + 1)
        /\ Len(content) < Tokens
    BY <1>4 DEF ParseInvariant, TokenConsumed
  <2>2. Len(content) \in 0..Tokens /\ Len(content') = Len(content) + 1
    BY <1>4, BufferTypes, TypeConsumed
  <2> QED
    BY <2>1, <2>2, FirstTokensIs
<1>5. CASE OnBody
  <2> DEFINE k == Len(content)
  <2>1. /\ streaming /\ statusOk /\ httpError = "none" /\ wpc = "lines"
        /\ UNCHANGED <<streaming, statusOk, received>>
    BY <1>5 DEF OnBody, ControlInvariant, serverVars
  <2>2. CASE NothingConsumed("recv") /\ UNCHANGED pending
             /\ (received # 0 => received <= 3 * k + 3)
    BY <2>1, <2>2 DEF NothingConsumed, ParseInvariant
  <2>3. CASE TokenConsumed("lines") /\ received # 0 /\ 3 * k + 4 <= received
             /\ pending' = SubSeq(Reply(TRUE), 3 * k + 5, received)
    <3>1. content' = FirstTokens(Len(content')) /\ Len(content') = k + 1
      BY <1>4, <2>1, <2>3
    <3>2. CASE httpError' = "cancelled"
      BY <2>1, <3>2 DEF ParseInvariant
    <3>3. CASE httpError' # "cancelled"
      <4>1. wpc' = "lines"
        BY <2>3, <3>3 DEF TokenConsumed
      <4>2. k \in Nat /\ received \in Nat
        BY BufferTypes, StreamAssumption
      <4>3. 3 * Len(content') + 2 = 3 * k + 5 /\ 3 * Len(content') + 1 <= received
        BY <2>3, <3>1, <4>2
      <4> HIDE DEF k
      <4> QED
        BY <2>1, <2>3, <3>1, <4>1, <4>3, Zenon DEF ParseInvariant
    <3> QED
      BY <3>2, <3>3
  <2> QED
    BY <1>5, <2>2, <2>3, OnBodyOutcome
<1>6. CASE LastLine
  <2>1. /\ streaming /\ httpError # "cancelled" /\ UNCHANGED streaming
    BY <1>6 DEF LastLine, ControlInvariant, serverVars
  <2>2. content' = FirstTokens(Len(content'))
    <3>1. CASE NothingConsumed("done")
      BY <2>1, <3>1 DEF NothingConsumed, ParseInvariant
    <3>2. CASE TokenConsumed("done")
      BY <1>4, <2>1, <3>2
    <3> QED
      BY <1>6, <3>1, <3>2, LastLineOutcome
  <2>3. httpError' = "cancelled" \/ wpc' = "done"
    BY <1>6, LastLineOutcome DEF NothingConsumed, TokenConsumed
  <2> QED
    BY <2>1, <2>2, <2>3 DEF ParseInvariant
<1>7. CASE ParseCompletion
  BY <1>7 DEF ParseCompletion, ParseInvariant, serverVars
<1>8. CASE EmitDone \/ Refuse \/ OpenStream
  <2>1. /\ UNCHANGED <<streaming, statusOk, received, pending, content, httpError>>
        /\ wpc' \notin {"done", "returned"} => wpc \notin {"done", "returned"}
        /\ wpc = "lines" => wpc' = "lines"
    BY <1>8 DEF EmitDone, Finish, Refuse, OpenStream, ControlInvariant, serverVars, httpVars,
                parseVars
  <2> QED
    BY <2>1, ParseQuiet
<1>9. CASE HandlerOrEnvironment
  BY <1>9, HandlerLeavesWorker, ParseQuiet DEF httpVars, parseVars
<1> QED
  BY <1>1, <1>2, <1>3, <1>5, <1>6, <1>7, <1>8, <1>9
  DEF Next, Worker, Handler, MovesWorker, HandlerOrEnvironment, Environment, Idle

\* While the handler runs.
Running == gpc \in {"start", "recv", "write"}

\* A step that writes no event.
LEMMA DeliveryQuiet ==
  ASSUME DeliveryInvariant, Delivered' = Delivered, UNCHANGED streaming,
         Running' => Running /\ (gpc' = "write" <=> event' # NoEvent),
         rpcStatus' = "ok" <=> rpcStatus = "ok",
         wpc' # "returned" /\ httpError' # "cancelled" =>
           /\ wpc # "returned" /\ httpError # "cancelled"
           /\ streaming => Len(content') = Len(content)
  PROVE  DeliveryInvariant'
<1> DEFINE D == Delivered
<1>1. D' = D
  OBVIOUS
<1> HIDE DEF D
<1>2. SUFFICES ASSUME Running'
               PROVE  DeliveryInvariant'
  BY DEF DeliveryInvariant, Running
<1>3. Running
  BY <1>2
<1>4. \A i \in 1..Len(D) :
        /\ D[i].type \in {"token", "done"}
        /\ D[i].tokens = EventTokens(D[i].type, i)
        /\ D[i].type = "done" => i = Len(D) /\ rpcStatus = "ok"
  BY <1>3 DEF DeliveryInvariant, Running, D
<1>5. rpcStatus = "ok" => D # <<>> /\ D[Len(D)].type = "done"
  BY <1>3 DEF DeliveryInvariant, Running, D
<1>6. wpc # "returned" /\ httpError # "cancelled" =>
        Len(D) = IF streaming THEN Len(content) ELSE 0
  BY <1>3 DEF DeliveryInvariant, Running, D
<1>7. \A i \in 1..Len(D') :
        /\ D'[i].type \in {"token", "done"}
        /\ D'[i].tokens = EventTokens(D[i].type, i)'
        /\ D'[i].type = "done" => i = Len(D') /\ rpcStatus' = "ok"
  BY <1>1, <1>4 DEF EventTokens
<1> QED
  BY <1>1, <1>5, <1>6, <1>7 DEF DeliveryInvariant, Running, D

\* A step of the worker that writes the next token.
LEMMA DeliveryToken ==
  ASSUME TypeOK, ControlInvariant, DeliveryInvariant, streaming,
         wpc # "returned", wpc' # "returned", httpError # "cancelled",
         Len(content) < Tokens, Write(TokenEvent(Len(content) + 1)),
         Len(content') = Len(content) + 1,
         UNCHANGED <<streaming, rpcStatus, gpc, sse, event>>
  PROVE  DeliveryInvariant'
<1> DEFINE D == Delivered
           k == Len(content)
           e == TokenEvent(k + 1)
<1>1. D' = Append(D, e) /\ D \in Seq(Events) /\ e \in Events /\ Len(D) \in Nat
  BY EventTypes, DeliveredWrite, DeliveredType, LenProperties
<1>2. e.type = "token" /\ e.tokens = <<k + 1>>
  BY DEF TokenEvent
<1> HIDE DEF D, e
<1>3. SUFFICES ASSUME Running
               PROVE  DeliveryInvariant'
  BY DEF DeliveryInvariant, Running
<1>4. rpcStatus = "none"
  BY DEF ControlInvariant
<1>5. /\ \A i \in 1..Len(D) : /\ D[i].type \in {"token", "done"}
                              /\ D[i].tokens = EventTokens(D[i].type, i)
                              /\ D[i].type = "done" => rpcStatus = "ok"
      /\ Len(D) = k
      /\ gpc = "write" <=> event # NoEvent
  BY <1>3 DEF DeliveryInvariant, Running, D
<1>6. /\ Len(D') = k + 1 /\ D'[k + 1] = e
      /\ \A i \in 1..k : D'[i] = D[i]
  BY <1>1, <1>5, AppendProperties
<1>7. \A i \in 1..Len(D') : /\ D'[i].type = "token"
                            /\ D'[i].tokens = EventTokens(D[i].type, i)'
  <2> TAKE i \in 1..Len(D')
  <2>1. CASE i = k + 1
    BY <1>2, <1>6, <2>1 DEF EventTokens
  <2>2. CASE i \in 1..k
    <3>1. D[i].type = "token" /\ D[i].tokens = <<i>>
      BY <1>4, <1>5, <2>2 DEF EventTokens
    <3> QED
      BY <1>6, <2>2, <3>1 DEF EventTokens
  <2>3. k \in Nat
    BY <1>1, <1>5
  <2> QED
    BY <1>6, <2>1, <2>2, <2>3
<1> QED
  BY <1>4, <1>5, <1>6, <1>7 DEF DeliveryInvariant, Running, D

\* The step that writes the final event.
LEMMA DeliveryDone ==
  ASSUME TypeOK, ControlInvariant, ParseInvariant, DeliveryInvariant,
         wpc = "done", content # <<>>, Write(DoneEvent), Finish("ok"),
         UNCHANGED <<streaming, gpc, sse, event>>
  PROVE  DeliveryInvariant'
<1> DEFINE D == Delivered
           e == DoneEvent
           n == Len(D)
<1>1. D' = Append(D, e) /\ D \in Seq(Events) /\ e \in Events /\ n \in Nat
  BY EventTypes, DeliveredWrite, DeliveredType, LenProperties
<1>2. e.type = "done" /\ e.tokens = content
  BY DEF DoneEvent
<1>3. SUFFICES ASSUME Running
               PROVE  DeliveryInvariant'
  BY DEF DeliveryInvariant, Running
<1> HIDE DEF D, e
<1>4. rpcStatus = "none" /\ httpError # "cancelled" /\ rpcStatus' = "ok" /\ wpc' = "returned"
  BY DEF ControlInvariant, Finish
<1>5. /\ \A i \in 1..n : /\ D[i].type \in {"token", "done"}
                         /\ D[i].tokens = EventTokens(D[i].type, i)
                         /\ D[i].type = "done" => rpcStatus = "ok"
      /\ n = IF streaming THEN Len(content) ELSE 0
      /\ gpc = "write" <=> event # NoEvent
  BY <1>3, <1>4 DEF DeliveryInvariant, Running, D
<1>6. content = IF streaming THEN FirstTokens(n) ELSE All
  BY <1>4, <1>5 DEF ParseInvariant
<1>7. /\ Len(D') = n + 1 /\ D'[n + 1] = e
      /\ \A i \in 1..n : D'[i] = D[i]
  BY <1>1, AppendProperties
<1> HIDE DEF n
<1>8. \A i \in 1..Len(D') : /\ D'[i].type \in {"token", "done"}
                            /\ D'[i].tokens = EventTokens(D[i].type, i)'
                            /\ D'[i].type = "done" => i = n + 1
  <2> TAKE i \in 1..Len(D')
  <2>1. CASE i = n + 1
    <3>1. n = i - 1
      BY <1>1, <2>1
    <3> QED
      BY <1>2, <1>6, <1>7, <2>1, <3>1 DEF EventTokens
  <2>2. CASE i \in 1..n
    <3>1. D[i].type = "token" /\ D[i].tokens = <<i>>
      BY <1>4, <1>5, <2>2 DEF EventTokens
    <3> QED
      BY <1>7, <2>2, <3>1 DEF EventTokens
  <2> QED
    BY <1>1, <1>7, <2>1, <2>2
<1>9. D' # <<>> /\ D'[Len(D')].type = "done"
  BY <1>1, <1>2, <1>7, AppendProperties
<1> QED
  BY <1>4, <1>5, <1>7, <1>8, <1>9 DEF DeliveryInvariant, Running, D

\* A step that leaves the events where they are.
LEMMA DeliveryStill ==
  ASSUME DeliveryInvariant, UNCHANGED <<streaming, sse, event, wire, gpc>>,
         rpcStatus' = "ok" <=> rpcStatus = "ok",
         wpc' # "returned" /\ httpError' # "cancelled" =>
           /\ wpc # "returned" /\ httpError # "cancelled"
           /\ streaming => Len(content') = Len(content)
  PROVE  DeliveryInvariant'
<1>1. Delivered' = Delivered
  BY DEF Delivered
<1>2. Running' => Running /\ (gpc' = "write" <=> event' # NoEvent)
  BY DEF Running, DeliveryInvariant
<1> QED
  BY <1>1, <1>2, DeliveryQuiet

LEMMA DeliveryStep ==
  ASSUME StreamInvariant, [Next]_vars
  PROVE  DeliveryInvariant'
<1> USE DEF StreamInvariant
<1>1. CASE MovesWorker
  <2>1. /\ UNCHANGED <<streaming, sse, event, wire, gpc, content>>
        /\ rpcStatus' = "ok" <=> rpcStatus = "ok"
        /\ wpc' # "returned" /\ httpError' # "cancelled" =>
             wpc # "returned" /\ httpError # "cancelled"
    BY <1>1 DEF MovesWorker, Start, Connect, CheckCancelled, RecvWholeEnd, RecvEnd,
                RecvTooLong, RecvFails, After, HttpReturns, Finish, ControlInvariant,
                serverVars, httpVars, parseVars, gatewayVars
  <2> QED
    BY <2>1, DeliveryStill
<1>2. ASSUME NEW n \in 1..Len(Reply(streaming)), RecvWhole(n) \/ RecvData(n)
      PROVE  DeliveryInvariant'
  <2>1. /\ UNCHANGED <<streaming, sse, event, wire, gpc, content, rpcStatus, httpError>>
        /\ wpc # "returned"
    BY <1>2 DEF RecvWhole, RecvData, serverVars, gatewayVars
  <2> QED
    BY <2>1, DeliveryStill
<1>3. ASSUME NEW next, next # "returned", TokenConsumed(next), streaming,
             wpc # "returned", httpError # "cancelled",
             UNCHANGED <<streaming, rpcStatus, gpc, sse, event>>
      PROVE  DeliveryInvariant'
  <2>1. CASE Write(TokenEvent(Len(content) + 1)) /\ wpc' = next
    <3>1. Len(content) < Tokens /\ Len(content') = Len(content) + 1
      BY <1>3, TypeConsumed DEF TokenConsumed
    <3> QED
      BY <1>3, <2>1, <3>1, DeliveryToken
  <2>2. CASE WriteFails /\ httpError' = "cancelled"
    BY <1>3, <2>2, DeliveryStill DEF WriteFails
  <2> QED
    BY <1>3, <2>1, <2>2 DEF TokenConsumed
<1>4. CASE OnBody
  <2>1. /\ streaming /\ wpc = "lines" /\ httpError = "none"
        /\ UNCHANGED <<streaming, rpcStatus, gpc, sse, event>>
    BY <1>4 DEF OnBody, ControlInvariant, serverVars, gatewayVars
  <2>2. CASE NothingConsumed("recv")
    BY <2>1, <2>2, DeliveryStill DEF NothingConsumed
  <2>3. CASE TokenConsumed("lines")
    BY <1>3, <2>1, <2>3
  <2> QED
    BY <1>4, <2>2, <2>3, OnBodyOutcome
<1>5. CASE LastLine
  <2>1. /\ streaming /\ wpc = "last" /\ httpError # "cancelled"
        /\ UNCHANGED <<streaming, rpcStatus, gpc, sse, event>>
    BY <1>5 DEF LastLine, ControlInvariant, serverVars, gatewayVars
  <2>2. CASE NothingConsumed("done")
    BY <2>1, <2>2, DeliveryStill DEF NothingConsumed
  <2>3. CASE TokenConsumed("done")
    BY <1>3, <2>1, <2>3
  <2> QED
    BY <1>5, <2>2, <2>3, LastLineOutcome
<1>6. CASE ParseCompletion
  <2>1. /\ ~streaming /\ wpc = "last" /\ wpc' = "done"
        /\ UNCHANGED <<streaming, sse, event, wire, gpc, rpcStatus, httpError>>
    BY <1>6 DEF ParseCompletion, serverVars, httpVars, gatewayVars
  <2> QED
    BY <2>1, DeliveryStill
<1>7. CASE EmitDone
  <2>1. wpc = "done" /\ rpcStatus = "none" /\ UNCHANGED <<streaming, sse, event, gpc>>
    BY <1>7 DEF EmitDone, ControlInvariant, serverVars, gatewayVars
  <2>2. CASE content # <<>> /\ Write(DoneEvent) /\ Finish("ok")
    BY <2>1, <2>2, DeliveryDone
  <2>3. CASE UNCHANGED wire /\ (Finish("unavailable") \/ Finish("cancelled"))
    BY <2>1, <2>3, DeliveryStill DEF Finish
  <2> QED
    BY <1>7, <2>2, <2>3 DEF EmitDone, WriteFails
<1>8. CASE ~Running'
  BY <1>8 DEF Running, DeliveryInvariant
<1>9. CASE Refuse \/ RecvEOF \/ RecvError
  <2>1. ~Running'
    BY <1>9 DEF Refuse, RecvEOF, RecvError, Return, Running
  <2> QED
    BY <1>8, <2>1
<1>10. CASE OpenStream
  <2>1. /\ UNCHANGED <<streaming, sse, event, wire, content, rpcStatus, httpError>>
        /\ gpc = "start" /\ gpc' = "recv" /\ wpc = "idle" /\ wpc' = "start"
    BY <1>10 DEF OpenStream, ControlInvariant, serverVars, httpVars, parseVars
  <2>2. event = NoEvent /\ Delivered' = Delivered
    BY <2>1 DEF DeliveryInvariant, Delivered
  <2> QED
    BY <2>1, <2>2, DeliveryQuiet DEF Running
<1>11. CASE RecvEvent
  <2>1. /\ UNCHANGED <<streaming, content, rpcStatus, httpError, wpc>>
        /\ gpc = "recv" /\ gpc' = "write"
    BY <1>11 DEF RecvEvent, serverVars, httpVars, parseVars
  <2>2. event = NoEvent
    BY <2>1 DEF DeliveryInvariant
  <2>3. Delivered' = Delivered /\ event' # NoEvent
    BY <1>11, <2>2, DeliveredRecv
  <2> QED
    BY <2>1, <2>3, DeliveryQuiet DEF Running
<1>12. CASE WriteEvent
  <2>1. CASE gpc' = "returned"
    BY <1>8, <2>1 DEF Running
  <2>2. CASE sse' = Append(sse, event) /\ event' = NoEvent /\ gpc' = "recv"
    <3>1. gpc = "write" /\ UNCHANGED <<streaming, wire, content, rpcStatus, httpError, wpc>>
      BY <1>12 DEF WriteEvent, serverVars, workerVars, httpVars, parseVars
    <3>2. event # NoEvent
      BY <3>1 DEF DeliveryInvariant
    <3>3. Delivered' = Delivered
      BY <2>2, <3>1, <3>2, DeliveredSse
    <3> QED
      BY <2>2, <3>1, <3>3, DeliveryQuiet DEF Running
  <2> QED
    BY <1>12, <2>1, <2>2 DEF WriteEvent, Return
<1>13. CASE Environment \/ UNCHANGED vars
  <2>1. UNCHANGED <<streaming, sse, event, wire, gpc, content, rpcStatus, httpError, wpc>>
    BY <1>13 DEF Environment, ServerSends, ServerEnds, ClientLeaves, WriteDeadlinePasses,
                 ContextEnds, CancelArrives, vars, serverVars, workerVars, httpVars, parseVars,
                 gatewayVars
  <2> QED
    BY <2>1, DeliveryStill
<1> QED
  BY <1>1, <1>2, <1>4, <1>5, <1>6, <1>7, <1>9, <1>10, <1>11, <1>12, <1>13
  DEF Next, Worker, Handler, MovesWorker, Environment, Idle

\* The steps of the worker thread leave the handler alone, and when the handler
\* has not started there is none.
LEMMA WorkerLeavesHandler ==
  ASSUME Worker, ControlInvariant
  PROVE  UNCHANGED <<gpc, sse, spans, clientVars>> /\ gpc # "start"
<1>1. CASE \E n \in 1..Len(Reply(streaming)) : RecvWhole(n) \/ RecvData(n)
  BY <1>1 DEF RecvWhole, RecvData, ControlInvariant, gatewayVars
<1>2. CASE MovesWorker
  BY <1>2 DEF MovesWorker, Start, Connect, CheckCancelled, RecvWholeEnd, RecvEnd,
              RecvTooLong, RecvFails, After, ControlInvariant, gatewayVars
<1>3. CASE OnBody \/ LastLine \/ ParseCompletion \/ EmitDone
  BY <1>3 DEF OnBody, LastLine, ParseCompletion, EmitDone, ControlInvariant, gatewayVars
<1> QED
  BY <1>1, <1>2, <1>3 DEF Worker, MovesWorker

LEMMA SpanStep ==
  ASSUME StreamInvariant, [Next]_vars
  PROVE  SpanInvariant'
<1> USE DEF StreamInvariant
<1>1. CASE Worker
  BY <1>1, WorkerLeavesHandler DEF SpanInvariant, spans
<1>2. CASE Refuse \/ RecvEOF \/ RecvError
  BY <1>2 DEF Refuse, RecvEOF, RecvError, Return, SpanInvariant
<1>3. CASE OpenStream
  <2>1. sse' = <<>> /\ gpc' = "recv"
        /\ httpSpan' = "open" /\ workerSpan' = "open" /\ backendSpan' = "open"
    BY <1>3 DEF OpenStream, SpanInvariant
  <2>2. ~\E i \in 1..Len(<<>>) : <<>>[i].type = "done"
    OBVIOUS
  <2> QED
    BY <2>1, <2>2 DEF SpanInvariant
<1>4. CASE RecvEvent
  BY <1>4 DEF RecvEvent, SpanInvariant, spans
<1>5. CASE WriteEvent
  <2>1. CASE gpc' = "returned"
    BY <2>1 DEF SpanInvariant
  <2>2. CASE /\ sse' = Append(sse, event) /\ gpc' = "recv"
             /\ backendSpan' = (IF event.type = "done" THEN Ended(backendSpan, "ok")
                                ELSE backendSpan)
             /\ UNCHANGED <<httpSpan, workerSpan>>
    <3>1. gpc = "write" /\ event \in Events /\ sse \in Seq(Events)
      BY <1>5 DEF WriteEvent, TypeOK, DeliveryInvariant
    <3>2. /\ Len(sse) \in Nat /\ Len(sse') = Len(sse) + 1 /\ sse'[Len(sse) + 1] = event
          /\ \A i \in 1..Len(sse) : sse'[i] = sse[i]
      BY <2>2, <3>1, AppendProperties, LenProperties
    <3>3. (\E i \in 1..Len(sse') : sse'[i].type = "done") <=>
            \/ \E i \in 1..Len(sse) : sse[i].type = "done"
            \/ event.type = "done"
      <4>1. \A i : i \in 1..Len(sse') <=> i \in 1..Len(sse) \/ i = Len(sse) + 1
        BY <3>2
      <4> QED
        BY <3>2, <4>1, Zenon
    <3> QED
      BY <2>2, <3>1, <3>3 DEF SpanInvariant, Ended
  <2> QED
    BY <1>5, <2>1, <2>2 DEF WriteEvent, Return
<1>6. CASE Environment \/ UNCHANGED vars
  BY <1>6 DEF Environment, ServerSends, ServerEnds, ClientLeaves, WriteDeadlinePasses,
              ContextEnds, CancelArrives, SpanInvariant, vars, serverVars, workerVars, gatewayVars, spans
<1> QED
  BY <1>1, <1>2, <1>3, <1>4, <1>5, <1>6 DEF Next, Handler, Environment, Idle

LEMMA StreamInit == Init => StreamInvariant
<1> SUFFICES ASSUME Init
             PROVE  StreamInvariant
  OBVIOUS
<1>1. TypeOK
  <2>1. 0 \in 0..Len(Reply(streaming)) /\ Tokens >= 0
    BY ReplyType, StreamAssumption DEF Init
  <2>2. Len(<<>>) <= Tokens
    BY <2>1, StreamAssumption
  <2>3. sent \in 0..Len(Reply(streaming)) /\ received \in 0..sent
    BY <2>1 DEF Init
  <2>4. pending \in Seq(Pieces) /\ content \in Seq(1..Tokens) /\ Len(content) <= Tokens
        /\ wire \in Seq(Events) /\ sse \in Seq(Events)
    BY <2>2 DEF Init
  <2> QED
    BY <2>3, <2>4 DEF Init, TypeOK, SpanStates
<1>2. ControlInvariant
  BY DEF Init, ControlInvariant
<1>3. ParseInvariant
  <2>1. FirstTokens(0) = <<>>
    BY FirstTokensIs, StreamAssumption
  <2> QED
    BY <2>1 DEF Init, ParseInvariant
<1>4. DeliveryInvariant
  <2>1. Delivered = <<>>
    BY DEF Init, Delivered
  <2> QED
    BY <2>1 DEF Init, DeliveryInvariant
<1>5. SpanInvariant
  BY DEF Init, SpanInvariant
<1> QED
  BY <1>1, <1>2, <1>3, <1>4, <1>5 DEF StreamInvariant

LEMMA StreamInvariantHolds == Spec => []StreamInvariant
<1>1. StreamInvariant /\ [Next]_vars => StreamInvariant'
  <2> SUFFICES ASSUME StreamInvariant, [Next]_vars
               PROVE  StreamInvariant'
    OBVIOUS
  <2> QED
    BY TypeStep, ControlStep, ParseStep, DeliveryStep, SpanStep DEF StreamInvariant
<1> QED
  BY StreamInit, <1>1, PTL DEF Spec

-----------------------------------------------------------------------------
(* The theorems.                                                           *)

\* While the handler runs, the events written to the client are in order.
LEMMA RunningInOrder ==
  ASSUME StreamInvariant, Running
  PROVE  TokensInOrder
<1>1. TypeOK
  BY DEF StreamInvariant
<1> SUFFICES ASSUME NEW i \in 1..Len(sse)
             PROVE  /\ \A j \in 1..(i - 1) : sse[j].type = "token"
                    /\ sse[i].tokens = EventTokens(sse[i].type, i)
  BY <1>1 DEF TokensInOrder
<1> DEFINE D == Delivered
<1>2. \A j \in 1..Len(D) :
        /\ D[j].type \in {"token", "done"}
        /\ D[j].tokens = EventTokens(D[j].type, j)
        /\ D[j].type = "done" => j = Len(D)
  BY DEF StreamInvariant, DeliveryInvariant, Running
<1>3. /\ Len(sse) \in Nat /\ Len(D) \in Nat /\ Len(sse) <= Len(D)
      /\ \A j \in 1..Len(sse) : D[j] = sse[j]
  BY <1>1, DeliveredPrefix
<1> HIDE DEF D
<1>4. i \in 1..Len(D)
  BY <1>3
<1>5. ASSUME NEW j \in 1..(i - 1)
      PROVE  sse[j].type = "token"
  <2>1. j \in 1..Len(sse) /\ j \in 1..Len(D) /\ j # Len(D)
    BY <1>3
  <2> QED
    BY <1>2, <1>3, <2>1
<1> QED
  BY <1>2, <1>3, <1>4, <1>5

\* Whatever recv returns and whenever the server, the client or the clock ends
\* the exchange, the tokens reach the client in order, each once, and the final
\* event carries the tokens before it (ProcessStream, handlePredictStream).
THEOREM TokensInOrderHolds == Spec => []TokensInOrder
<1>1. ASSUME StreamInvariant, StreamInvariant', TokensInOrder, [Next]_vars
      PROVE  TokensInOrder'
  <2>1. TypeOK'
    BY <1>1 DEF StreamInvariant
  <2>2. CASE UNCHANGED <<sse, streaming>>
    BY <1>1, <2>1, <2>2 DEF TokensInOrder, EventTokens
  <2>3. CASE Running'
    <3>1. (StreamInvariant /\ Running => TokensInOrder)'
      BY RunningInOrder, PTL
    <3> QED
      BY <1>1, <2>3, <3>1
  <2>4. CASE sse' = Append(sse, ErrorEvent) /\ UNCHANGED streaming
    <3>1. sse \in Seq(Events) /\ ErrorEvent \in Events /\ TypeOK
      BY <1>1, EventTypes DEF StreamInvariant, TypeOK
    <3>2. /\ Len(sse) \in Nat /\ Len(sse') = Len(sse) + 1
          /\ sse'[Len(sse) + 1] = ErrorEvent
          /\ \A i \in 1..Len(sse) : sse'[i] = sse[i]
      BY <2>4, <3>1, AppendProperties, LenProperties
    <3> SUFFICES ASSUME NEW i \in 1..Len(sse'), sse'[i].type # "error"
                 PROVE  /\ \A j \in 1..(i - 1) : sse'[j].type = "token"
                        /\ sse'[i].tokens = EventTokens(sse[i].type, i)'
      BY <2>1 DEF TokensInOrder
    <3>3. i \in 1..Len(sse) /\ \A j \in 1..(i - 1) : j \in 1..Len(sse)
      BY <3>2 DEF ErrorEvent
    <3>4. /\ \A j \in 1..(i - 1) : sse[j].type = "token"
          /\ sse[i].tokens = EventTokens(sse[i].type, i)
      BY <1>1, <3>2, <3>3 DEF TokensInOrder
    <3> QED
      BY <2>4, <3>2, <3>3, <3>4 DEF EventTokens
  <2>5. CASE Handler
    <3>1. streaming' = streaming
      BY <2>5 DEF Handler, Refuse, OpenStream, RecvEvent, RecvEOF, RecvError, WriteEvent,
                  serverVars
    <3>2. sse' = sse \/ sse' = Append(sse, ErrorEvent) \/ Running'
      BY <2>5 DEF Handler, Refuse, OpenStream, RecvEvent, RecvEOF, RecvError, WriteEvent,
                  spans, Running
    <3> QED
      BY <2>2, <2>3, <2>4, <3>1, <3>2
  <2>6. CASE Worker
    <3>1. ControlInvariant
      BY <1>1 DEF StreamInvariant
    <3>2. sse' = sse
      BY <2>6, <3>1, WorkerLeavesHandler
    <3>3. streaming' = streaming
      BY <2>6 DEF Worker, Start, Connect, CheckCancelled, RecvWhole, RecvData, RecvTooLong,
                  RecvWholeEnd, RecvEnd, RecvFails, OnBody, After, LastLine, ParseCompletion,
                  EmitDone, serverVars
    <3> QED
      BY <2>2, <3>2, <3>3
  <2>7. CASE Environment \/ UNCHANGED vars
    BY <2>2, <2>7 DEF Environment, ServerSends, ServerEnds, ClientLeaves, WriteDeadlinePasses,
                      ContextEnds, CancelArrives, vars, serverVars, gatewayVars
  <2> QED
    BY <1>1, <2>5, <2>6, <2>7 DEF Next, Environment, Idle
<1>2. Init => TokensInOrder
  <2> SUFFICES ASSUME Init
               PROVE  TokensInOrder
    OBVIOUS
  <2>1. Running
    BY DEF Init, Running
  <2> QED
    BY <2>1, StreamInit, RunningInOrder
<1>3. StreamInvariant /\ StreamInvariant' /\ TokensInOrder /\ [Next]_vars => TokensInOrder'
  BY <1>1
<1> QED
  BY <1>2, <1>3, StreamInvariantHolds, PTL DEF Spec

\* A handler that returns to a client who is still there, within the write
\* deadline, has written a done or an error event last: an EOF of the worker
\* without a final event cannot occur.
THEOREM EndsExplicitlyHolds == Spec => []EndsExplicitly
<1>1. ASSUME StreamInvariant, EndsExplicitly, [Next]_vars
      PROVE  EndsExplicitly'
  <2>1. CASE UNCHANGED <<gpc, sse>> /\ (Unreachable => Unreachable')
    BY <1>1, <2>1 DEF EndsExplicitly, Last
  <2>2. CASE gpc' # "returned" \/ Unreachable'
    BY <2>2 DEF EndsExplicitly
  <2>3. CASE RecvEOF
    <3>1. /\ gpc = "recv" /\ wire = <<>> /\ rpcStatus = "ok" /\ sse' = sse
      BY <2>3 DEF RecvEOF
    <3>2. /\ event = NoEvent /\ Delivered # <<>>
          /\ Delivered[Len(Delivered)].type = "done"
      BY <1>1, <3>1 DEF StreamInvariant, DeliveryInvariant
    <3>3. Delivered = sse
      BY <1>1, <3>1, <3>2, DeliveredPrefix DEF StreamInvariant
    <3> QED
      BY <3>1, <3>2, <3>3 DEF EndsExplicitly, Last
  <2>4. CASE RecvError
    <3>1. CASE sse' = Append(sse, ErrorEvent)
      <4>1. sse \in Seq(Events) /\ ErrorEvent \in Events
        BY <1>1, EventTypes DEF StreamInvariant, TypeOK
      <4>2. sse' # <<>> /\ sse'[Len(sse')] = ErrorEvent
        BY <3>1, <4>1, AppendProperties
      <4> QED
        BY <4>2 DEF EndsExplicitly, Last, ErrorEvent
    <3>2. CASE Unreachable /\ UNCHANGED clientVars
      BY <2>2, <3>2 DEF Unreachable, clientVars
    <3> QED
      BY <2>4, <3>1, <3>2 DEF RecvError
  <2>5. CASE WriteEvent \/ Refuse \/ OpenStream \/ RecvEvent
    BY <2>2, <2>5 DEF WriteEvent, Refuse, OpenStream, RecvEvent, Return, Unreachable, clientVars
  <2>6. CASE Worker
    BY <1>1, <2>1, <2>6, WorkerLeavesHandler DEF StreamInvariant, Unreachable, clientVars
  <2>7. CASE Environment \/ UNCHANGED vars
    BY <2>1, <2>7 DEF Unreachable, clientVars, Environment, ServerSends, ServerEnds,
                      ClientLeaves, WriteDeadlinePasses, ContextEnds, CancelArrives, vars, gatewayVars
  <2> QED
    BY <1>1, <2>3, <2>4, <2>5, <2>6, <2>7 DEF Next, Handler, Environment, Idle
<1>2. Init => EndsExplicitly
  BY DEF Init, EndsExplicitly
<1>3. StreamInvariant /\ EndsExplicitly /\ [Next]_vars => EndsExplicitly'
  BY <1>1
<1> QED
  BY <1>2, <1>3, StreamInvariantHolds, PTL DEF Spec

\* When the handler returns its spans are closed, and they tell whether the
\* final event was written, on each of the ways it can return.
THEOREM SpansTellOutcomeHolds == Spec => []SpansTellOutcome
<1>1. ASSUME StreamInvariant, SpansTellOutcome, [Next]_vars
      PROVE  SpansTellOutcome'
  <2>1. CASE UNCHANGED <<gpc, sse, spans>>
    BY <1>1, <2>1 DEF SpansTellOutcome, Last, spans
  <2>2. CASE gpc' # "returned"
    BY <2>2 DEF SpansTellOutcome
  <2> DEFINE Done(s) == \E i \in 1..Len(s) : s[i].type = "done"
  <2>3. ASSUME gpc \in {"recv", "write"}
        PROVE  /\ httpSpan = "open" /\ workerSpan = "open" /\ backendSpan \in {"open", "ok"}
               /\ backendSpan = "ok" <=> Done(sse)
    BY <1>1, <2>3 DEF StreamInvariant, SpanInvariant
  <2>4. CASE RecvEOF
    <3>1. /\ gpc = "recv" /\ wire = <<>> /\ rpcStatus = "ok" /\ sse' = sse
          /\ backendSpan' = Ended(backendSpan, "error")
          /\ Return(IF backendSpan = "ok" THEN "ok" ELSE "error")
      BY <2>4 DEF RecvEOF
    <3>2. /\ event = NoEvent /\ Delivered[Len(Delivered)].type = "done"
      BY <1>1, <3>1 DEF StreamInvariant, DeliveryInvariant
    <3>3. Last(sse').type = "done"
      BY <1>1, <3>1, <3>2, DeliveredPrefix DEF StreamInvariant, Last
    <3> HIDE DEF Done
    <3>4. /\ httpSpan' \in {"ok", "error"} /\ workerSpan' \in {"ok", "error"}
          /\ backendSpan' \in {"ok", "error"}
          /\ backendSpan' = "ok" <=> Done(sse')
      BY <2>3, <3>1 DEF Return, Ended
    <3> QED
      BY <3>3, <3>4 DEF SpansTellOutcome, Done
  <2>5. CASE RecvError
    <3>1. /\ gpc = "recv" /\ sse' \in {sse, Append(sse, ErrorEvent)}
          /\ backendSpan' = Ended(backendSpan, "error") /\ Return("error")
      BY <2>5 DEF RecvError
    <3>2. Done(sse') <=> Done(sse)
      <4>1. sse \in Seq(Events) /\ ErrorEvent \in Events
        BY <1>1, EventTypes DEF StreamInvariant, TypeOK
      <4>2. CASE sse' = Append(sse, ErrorEvent)
        <5>1. /\ Len(sse) \in Nat /\ Len(sse') = Len(sse) + 1
              /\ sse'[Len(sse) + 1] = ErrorEvent
              /\ \A i \in 1..Len(sse) : sse'[i] = sse[i]
          BY <4>1, <4>2, AppendProperties, LenProperties
        <5>2. \A i : i \in 1..Len(sse') <=> i \in 1..Len(sse) \/ i = Len(sse) + 1
          BY <5>1
        <5>3. ErrorEvent.type # "done"
          BY DEF ErrorEvent
        <5> QED
          BY <5>1, <5>2, <5>3, Zenon
      <4> QED
        BY <3>1, <4>2
    <3> HIDE DEF Done
    <3>3. /\ httpSpan' = "error" /\ workerSpan' = "error"
          /\ backendSpan' \in {"ok", "error"}
          /\ backendSpan' = "ok" <=> Done(sse')
      BY <2>3, <3>1, <3>2 DEF Return, Ended
    <3> QED
      BY <3>3 DEF SpansTellOutcome, Done
  <2>6. CASE WriteEvent /\ gpc' = "returned"
    <3>1. /\ gpc = "write" /\ sse' = sse
          /\ backendSpan' = Ended(backendSpan, "error") /\ Return("error")
      BY <2>6 DEF WriteEvent
    <3> HIDE DEF Done
    <3>2. /\ httpSpan' = "error" /\ workerSpan' = "error"
          /\ backendSpan' \in {"ok", "error"}
          /\ backendSpan' = "ok" <=> Done(sse')
      BY <2>3, <3>1 DEF Return, Ended
    <3> QED
      BY <3>2 DEF SpansTellOutcome, Done
  <2>7. CASE Refuse \/ OpenStream \/ RecvEvent
    BY <2>2, <2>7 DEF Refuse, OpenStream, RecvEvent
  <2>8. CASE Worker
    BY <1>1, <2>1, <2>8, WorkerLeavesHandler DEF StreamInvariant
  <2>9. CASE Environment \/ UNCHANGED vars
    BY <2>1, <2>9 DEF Environment, ServerSends, ServerEnds, ClientLeaves, WriteDeadlinePasses,
                      ContextEnds, CancelArrives, vars, gatewayVars
  <2> QED
    BY <1>1, <2>2, <2>4, <2>5, <2>6, <2>7, <2>8, <2>9
    DEF Next, Handler, Environment, Idle
<1>2. Init => SpansTellOutcome
  BY DEF Init, SpansTellOutcome
<1>3. StreamInvariant /\ SpansTellOutcome /\ [Next]_vars => SpansTellOutcome'
  BY <1>1
<1> QED
  BY <1>2, <1>3, StreamInvariantHolds, PTL DEF Spec

=============================================================================
