------------------------- MODULE HttpdSimpleProofs -------------------------
(***************************************************************************)
(* Theorems about HttpdSimple, for any number of connections and blocks,   *)
(* any requests, and any lists that change in any way under the pages.     *)
(*                                                                         *)
(* Four inductive invariants: Shape, the types of everything and what is   *)
(* sound in each state whatever was freed twice; Pool, the owner of each   *)
(* block, and Origin, the owner of each text, which hold until a block is  *)
(* given away too early; and LonePages, how far a connection that is alone *)
(* is with its page.                                                       *)
(***************************************************************************)
EXTENDS HttpdSimple, FiniteSetTheorems, SequenceTheorems, WellFoundedInduction, TLAPS

-----------------------------------------------------------------------------
(* The smallest of some numbers.                                           *)

(* A set of natural numbers that is not empty has a smallest element.      *)
LEMMA Smallest ==
  ASSUME NEW T, T \subseteq Nat, T # {}
  PROVE  \E x \in T : \A y \in T : x <= y
<1>1. IsWellFoundedOn(OpToRel(<, Nat), Nat)
  BY NatLessThanWellFounded
<1>2. PICK x \in T : \A y \in T : <<y, x>> \notin OpToRel(<, Nat)
  BY <1>1, WFMin
<1>3. ASSUME NEW y \in T
      PROVE  x <= y
  <2>1. <<y, x>> \in Nat \X Nat /\ ~(<<y, x>>[1] < <<y, x>>[2])
    BY <1>2 DEF OpToRel
  <2> QED
    BY <2>1
<1> QED
  BY <1>3

LEMMA MinIsElement ==
  ASSUME NEW T, T \subseteq Nat, T # {}
  PROVE  Min(T) \in T /\ \A y \in T : Min(T) <= y
<1>1. \E x \in T : \A y \in T : x <= y
  BY Smallest
<1> QED
  BY <1>1 DEF Min

LEMMA MinOfTwo ==
  ASSUME NEW a \in Nat, NEW b \in Nat
  PROVE  Min({a, b}) = IF a <= b THEN a ELSE b
<1>1. Min({a, b}) \in {a, b} /\ \A y \in {a, b} : Min({a, b}) <= y
  BY MinIsElement
<1> QED
  BY <1>1

-----------------------------------------------------------------------------
(* The types, and what a block, a list and the text always satisfy.        *)

Connection ==
  [tcp : {"new", "open", "finwait", "closing", "closed", "forgotten"}, s : Blocks,
   request : Seq(STRING), flight : Seq(Pieces), page : Seq(Pieces), lone : BOOLEAN]

HttpdState ==
  [words : 0 .. 2, at : Segments \cup {"idle"}, k : 0 .. Lists,
   len : Nat, script : BOOLEAN, expired : BOOLEAN]

(* An iterator is inside its list, at an entry removed from it, or NULL. *)
InsideLists(r) ==
  r \in [1 .. Lists -> Nat] /\ \A k \in 1 .. Lists : r[k] \in 0 .. Length(k) \cup Removed

Iterators == table \in Tables /\ InsideLists(row)

Text ==
  /\ buf \in Seq(Pieces) /\ blen \in 0 .. Len(buf)
  /\ Iterators
  /\ dropped \in Nat /\ overrun \in BOOLEAN

(* A block whose output has begun has its two words, a segment to repeat,  *)
(* and, inside a list, that list and some text.                            *)
Settled(b) ==
  /\ b.at \in Buffered => b.k \in 1 .. Lists /\ buf # <<>>
  /\ b.at # "idle" => b.words = 2 /\ b.len >= 1

Shape ==
  /\ conn \in [Conns -> Connection]
  /\ used \subseteq Blocks
  /\ block \in [Blocks -> HttpdState]
  /\ \A s \in Blocks : Settled(block[s])
  /\ Text
  /\ reused \in BOOLEAN /\ crashed \in BOOLEAN

(* Steps that do not touch the text and the lists.                         *)
LEMMA TextKept ==
  ASSUME Text, UNCHANGED textVars
  PROVE  Text'
BY DEF Text, Iterators, InsideLists, Length, textVars

-----------------------------------------------------------------------------
(* The output, from one segment to the next. *)

LEMMA TableType ==
  ASSUME NEW t \in Tables
  PROVE  /\ Len(t) \in Nat \ {0} /\ Len(t) \in 1 .. Lists
         /\ DOMAIN t = 1 .. Len(t) /\ DOMAIN t \subseteq 1 .. Lists
         /\ \A k \in DOMAIN t : t[k] \in Nat /\ t[k] \in 0 .. MostRows
BY HttpdAssumption

LEMMA LengthType ==
  ASSUME NEW k, table \in Tables
  PROVE  Length(k) \in Nat /\ Length(k) \in 0 .. MostRows
BY TableType, HttpdAssumption DEF Length

(* The iterators stay inside their lists (webserver.c:84-156).             *)
LEMMA StepKeepsIterators ==
  ASSUME NEW b \in HttpdState, Iterators, NEW r \in Step(b),
         b.at \in Buffered => b.k \in 1 .. Lists
  PROVE  InsideLists(r)
<1> USE HttpdAssumption DEF Iterators, InsideLists, Buffered
<1>1. CASE b.at = "head"
  <2>1. r = [row EXCEPT ![b.k] = IF Length(b.k) > 0 THEN 1 ELSE 0]
    BY <1>1 DEF Step
  <2> QED
    BY <1>1, <2>1, LengthType
<1>2. CASE b.at = "row"
  <2>1. PICK i \in Successors(b.k) : r = [row EXCEPT ![b.k] = i]
    BY <1>2 DEF Step
  <2>2. i \in Nat /\ i \in 0 .. Length(b.k) \cup Removed
    <3>1. Length(b.k) \in Nat /\ row[b.k] \in Nat
      BY <1>2, LengthType
    <3> QED
      BY <3>1 DEF Successors, Removed
  <2> QED
    BY <1>2, <2>1, <2>2
<1>3. CASE b.at \notin {"head", "row"}
  BY <1>3 DEF Step
<1> QED
  BY <1>1, <1>2, <1>3

(* The output goes through its segments: from "idle" to the headers and    *)
(* from the bottom back to "idle", and between them it is inside a list    *)
(* exactly when it adds to the buffer.                                     *)
LEMMA FollowsPage ==
  ASSUME NEW b \in HttpdState, NEW r, table \in Tables,
         b.at \in Buffered => b.k \in 1 .. Lists
  PROVE  \E at \in Segments \cup {"idle"}, k \in 0 .. Lists :
           /\ Follow(b, r) = <<at, k>>
           /\ at \in Buffered => k \in 1 .. Lists
           /\ at = "idle" <=> b.at = "bottom"
           /\ b.at = "idle" => at \notin Buffered
<1> USE TableType, HttpdAssumption DEF Segments, InScript, Buffered
<1>0. b.at \in {"idle", "headers", "top", "head", "row", "end", "bottom"}
  BY DEF HttpdState
<1>1. CASE b.at = "idle"
  BY <1>1 DEF Follow
<1>2. CASE b.at = "headers"
  BY <1>2 DEF Follow
<1>3. CASE b.at = "top"
  BY <1>3 DEF Follow
<1>4. CASE b.at \in {"head", "row"}
  BY <1>4 DEF Follow
<1>5. CASE b.at = "end"
  BY <1>5 DEF Follow
<1>6. CASE b.at = "bottom"
  BY <1>6 DEF Follow
<1> QED
  BY <1>0, <1>1, <1>2, <1>3, <1>4, <1>5, <1>6

LEMMA PieceType ==
  ASSUME NEW at \in Segments \cup {"idle"}, NEW k \in 0 .. Lists, NEW r,
         table \in Tables, InsideLists(r), at \in Buffered => k \in 1 .. Lists
  PROVE  Piece(at, k, r) \in Pieces
<1>1. PICK n \in 0 .. 2 * MostRows : Piece(at, k, r) = <<at, k, n>>
  <2>1. CASE at = "row"
    <3>1. r[k] \in 0 .. Length(k) \cup Removed /\ Length(k) \in 0 .. MostRows
      BY <2>1, LengthType DEF Buffered, InsideLists
    <3>2. r[k] \in 0 .. 2 * MostRows
      BY <3>1, HttpdAssumption DEF Removed
    <3> QED
      BY <2>1, <3>2 DEF Piece
  <2>2. CASE at # "row"
    BY <2>2, HttpdAssumption DEF Piece
  <2> QED
    BY <2>1, <2>2
<1> QED
  BY <1>1 DEF Pieces


(* What is put in front of a new piece: a prefix of the buffer.            *)
LEMMA TextOfPiece ==
  ASSUME NEW t \in Seq(Pieces), NEW n \in 0 .. Len(t), NEW p \in Pieces
  PROVE  /\ SubSeq(t, 1, n) \o <<p>> \in Seq(Pieces)
         /\ Len(SubSeq(t, 1, n) \o <<p>>) = n + 1
         /\ SubSeq(t, 1, n) \o <<p>> # <<>>
<1>1. SubSeq(t, 1, n) \in Seq(Pieces) /\ Len(SubSeq(t, 1, n)) = n
  BY SubSeqProperties, ElementOfSeq
<1>2. <<p>> \in Seq(Pieces) /\ Len(<<p>>) = 1
  OBVIOUS
<1>3. /\ SubSeq(t, 1, n) \o <<p>> \in Seq(Pieces)
      /\ Len(SubSeq(t, 1, n) \o <<p>>) = n + 1
  BY <1>1, <1>2, ConcatProperties
<1> QED
  BY <1>3

(* How the text is accounted for when a block goes from b to b2: the       *)
(* acknowledgement of a piece empties it first, a block that enters a list *)
(* adds a piece, and only a text of more pieces than fit overruns.         *)
Accounted(b, b2) ==
  \/ /\ b.at \in Buffered
     /\ dropped' = 0
     /\ blen' = IF b2.at \in Buffered THEN 1 ELSE 0
  \/ /\ b.at \in Buffered => b2.at \in Buffered
     /\ dropped' = dropped
     /\ blen' = IF b.at \notin Buffered /\ b2.at \in Buffered THEN blen + 1 ELSE blen

Overran(b2) == overrun' => overrun \/ (b2.at \in Buffered /\ blen' > Room)

(* The output of a block that has begun has a script, and its segment is   *)
(* on its way or has just been acknowledged.                               *)
Underway(b, flight, flag) ==
  b.at # "idle" => b.script /\ (flag = "acked" \/ flight # <<>>)

(* A call of the output for connection cn and block b leaves connection    *)
(* cn2 and block b2 behind.                                                *)
Handled(c, s, cn, b, flag, cn2, b2) ==
  /\ conn' = [conn EXCEPT ![c] = cn2]
  /\ block' = [block EXCEPT ![s] = b2]
  /\ crashed' = crashed
  /\ Settled(b2)'
  /\ cn2.s = cn.s
  /\ cn2.tcp = cn.tcp \/ (cn2.tcp = "finwait" /\ b2.at = "idle")
  /\ b.at = "idle" => b2.at \notin Buffered
  /\ Underway(b, cn.flight, flag) => Underway(b2, cn2.flight, "none")
  /\ Accounted(b, b2) /\ Overran(b2)

LEMMA ClosingType ==
  ASSUME NEW cn \in Connection
  PROVE  /\ Closing(cn) \in Connection
         /\ Closing(cn).s = cn.s /\ Closing(cn).tcp = "finwait"
<1>1. Closing(cn) = [[cn EXCEPT !.tcp = "finwait"] EXCEPT !.flight = <<>>]
  BY DEF Closing
<1>2. /\ [cn EXCEPT !.tcp = "finwait"] \in Connection
      /\ [cn EXCEPT !.tcp = "finwait"].s = cn.s
      /\ [cn EXCEPT !.tcp = "finwait"].tcp = "finwait"
  BY DEF Connection
<1>3. <<>> \in Seq(Pieces)
  OBVIOUS
<1> QED
  BY <1>1, <1>2, <1>3 DEF Connection

(* The call runs through, and only the arrival of data ws or of an         *)
(* acknowledgement can close the connection.                               *)
Continued(c, s, cn, b, ws, flag) ==
  /\ Text' /\ (buf # <<>> => buf' # <<>>)
  /\ \E cn2 \in Connection, b2 \in HttpdState :
       /\ Handled(c, s, cn, b, flag, cn2, b2)
       /\ flag # "acked" /\ ws = <<>> => cn2.tcp = cn.tcp

(* The call ends at a script that is NULL. *)
Struck(b) ==
  /\ b.at # "idle" /\ ~b.script
  /\ crashed' = TRUE
  /\ UNCHANGED <<conn, block, textVars>>

(* The output goes on by one segment (httpd-simple.c:124-147).             *)
LEMMA SendsOutcome ==
  ASSUME NEW c, NEW s, NEW cn \in Connection, NEW b \in HttpdState, NEW ws, NEW flag,
         Text, Settled(b), b.words = 2, crashed' = crashed,
         b.at = "idle" \/ flag = "acked",
         Sends(c, s, cn, b)
  PROVE  Continued(c, s, cn, b, ws, flag)
<1>0. PICK r \in Step(b) : SendsNext(c, s, cn, b, r)
  BY DEF Sends
<1> DEFINE next == Follow(b, r)
           adds == next[1] \in Buffered
           text == (IF adds THEN SubSeq(buf, 1, Kept(b)) ELSE <<>>) \o <<Piece(next[1], next[2], r)>>
           done == next[1] = "idle"
           cn2 == IF done THEN Closing(cn) ELSE [cn EXCEPT !.flight = text]
           b2 == [b EXCEPT !.at = next[1], !.k = next[2], !.len = Len(text),
                           !.script = ~done /\ (b.script \/ b.at = "idle")]
<1>1. /\ row' = r
      /\ buf' = IF adds THEN text ELSE buf
      /\ blen' = IF adds THEN Len(text) ELSE Kept(b)
      /\ overrun' \in {FALSE, adds /\ Len(text) > Room}
      /\ dropped' = IF b.at \in Buffered THEN 0 ELSE dropped
      /\ block' = [block EXCEPT ![s] = b2]
      /\ conn' = [conn EXCEPT ![c] = cn2]
      /\ table' = table
  BY <1>0, Zenon DEF SendsNext
<1>2. table \in Tables /\ InsideLists(r)
  BY StepKeepsIterators DEF Text, Iterators, Settled
<1>3. PICK at \in Segments \cup {"idle"}, k \in 0 .. Lists :
        /\ next = <<at, k>>
        /\ at \in Buffered => k \in 1 .. Lists
        /\ at = "idle" <=> b.at = "bottom"
        /\ b.at = "idle" => at \notin Buffered
  BY <1>2, FollowsPage DEF Settled
<1>4. next[1] = at /\ next[2] = k /\ Piece(at, k, r) \in Pieces
  BY <1>2, <1>3, PieceType
<1>5. Kept(b) \in 0 .. Len(buf) /\ (Kept(b) = IF b.at \in Buffered THEN 0 ELSE blen)
  BY DEF Text, Kept
<1> HIDE DEF next
<1>6. /\ text \in Seq(Pieces) /\ text # <<>> /\ Len(text) \in Nat
      /\ Len(text) = IF at \in Buffered THEN Kept(b) + 1 ELSE 1
  <2>1. CASE at \in Buffered
    <3>1. text = SubSeq(buf, 1, Kept(b)) \o <<Piece(at, k, r)>>
      BY <1>4, <2>1
    <3> QED
      BY <1>4, <1>5, <2>1, <3>1, TextOfPiece DEF Text
  <2>2. CASE at \notin Buffered
    <3>1. text = <<>> \o <<Piece(at, k, r)>>
      BY <1>4, <2>2
    <3>2. <<Piece(at, k, r)>> \in Seq(Pieces) /\ Len(<<Piece(at, k, r)>>) = 1
      BY <1>4
    <3>3. <<>> \o <<Piece(at, k, r)>> = <<Piece(at, k, r)>>
      BY <3>2, ConcatEmptySeq
    <3> HIDE DEF text
    <3> QED
      BY <2>2, <3>1, <3>2, <3>3
  <2> QED
    BY <2>1, <2>2
<1> HIDE DEF text
<1>7. Text' /\ (buf # <<>> => buf' # <<>>)
  <2>1. Iterators'
    BY <1>1, <1>2 DEF Iterators, InsideLists, Length
  <2>2. overrun' \in BOOLEAN
    BY <1>1
  <2> QED
    BY <1>1, <1>2, <1>4, <1>5, <1>6, <2>1, <2>2 DEF Text
<1>8. PICK conn2 \in Connection :
        /\ conn2 = cn2
        /\ conn2.s = cn.s /\ conn2.tcp \in {cn.tcp, "finwait"}
        /\ at # "idle" => conn2.tcp = cn.tcp /\ conn2.flight = text
  <2>1. CASE at = "idle"
    <3>1. cn2 = Closing(cn)
      BY <1>4, <2>1
    <3> QED
      BY <2>1, <3>1, ClosingType
  <2>2. CASE at # "idle"
    <3>1. cn2 = [cn EXCEPT !.flight = text]
      BY <1>4, <2>2
    <3> HIDE DEF cn2
    <3>2. /\ [cn EXCEPT !.flight = text] \in Connection
          /\ [cn EXCEPT !.flight = text].s = cn.s
          /\ [cn EXCEPT !.flight = text].tcp = cn.tcp
          /\ [cn EXCEPT !.flight = text].flight = text
      BY <1>6 DEF Connection
    <3> QED
      BY <2>2, <3>1, <3>2
  <2> QED
    BY <2>1, <2>2
<1>9. PICK block2 \in HttpdState :
        /\ block2 = b2
        /\ block2.at = at /\ block2.k = k /\ block2.words = 2 /\ block2.len = Len(text)
        /\ block2.script = (at # "idle" /\ (b.script \/ b.at = "idle"))
  <2> DEFINE b3 == [[b EXCEPT !.at = at] EXCEPT !.k = k]
             script == at # "idle" /\ (b.script \/ b.at = "idle")
             b4 == [[b3 EXCEPT !.len = Len(text)] EXCEPT !.script = script]
  <2>1. b2 = b4
    BY <1>4
  <2>2. b3 \in HttpdState /\ b3.at = at /\ b3.k = k /\ b3.words = b.words
    BY DEF HttpdState
  <2>3. script \in BOOLEAN
    OBVIOUS
  <2> HIDE DEF b3, script
  <2>4. /\ b4 \in HttpdState
        /\ b4.at = b3.at /\ b4.k = b3.k /\ b4.words = b3.words
        /\ b4.len = Len(text) /\ b4.script = script
    BY <1>6, <2>2, <2>3 DEF HttpdState
  <2> HIDE DEF b4
  <2> QED
    BY <2>1, <2>2, <2>4 DEF script
<1>10. /\ conn' = [conn EXCEPT ![c] = conn2]
       /\ block' = [block EXCEPT ![s] = block2]
  BY <1>1, <1>8, <1>9
<1> HIDE DEF cn2, b2
<1>11. Settled(block2)'
  BY <1>1, <1>3, <1>4, <1>5, <1>6, <1>9 DEF Settled
<1>12. Underway(b, cn.flight, flag) => Underway(block2, conn2.flight, "none")
  BY <1>6, <1>8, <1>9 DEF Underway
<1>13. Accounted(b, block2)
  BY <1>1, <1>3, <1>4, <1>5, <1>6, <1>9 DEF Accounted
<1>17. Overran(block2)
  BY <1>1, <1>4, <1>9 DEF Overran
<1>14. flag # "acked" => conn2.tcp = cn.tcp
  BY <1>3, <1>8
<1>15. /\ conn2.tcp = cn.tcp \/ (conn2.tcp = "finwait" /\ block2.at = "idle")
       /\ b.at = "idle" => block2.at \notin Buffered
  BY <1>3, <1>8, <1>9
<1>16. Handled(c, s, cn, b, flag, conn2, block2)
  BY <1>1, <1>8, <1>10, <1>11, <1>12, <1>13, <1>15, <1>17 DEF Handled
<1> QED
  BY <1>7, <1>14, <1>16 DEF Continued


(* What is sent again is as much of the buffer as there is of it.          *)
LEMMA AgainType ==
  ASSUME NEW cn \in Connection, NEW b \in HttpdState,
         Text, Settled(b), b.at # "idle", cn.flight # <<>>
  PROVE  Again(cn, b) \in Seq(Pieces) /\ Again(cn, b) # <<>>
<1>1. CASE b.at \in Buffered
  <2> DEFINE n == Min({b.len, Len(buf)})
  <2>1. b.len \in Nat /\ b.len >= 1 /\ buf \in Seq(Pieces) /\ Len(buf) \in Nat /\ Len(buf) >= 1
    BY <1>1 DEF Settled, Text, HttpdState
  <2>2. n \in 1 .. Len(buf)
    BY <2>1, MinOfTwo
  <2> HIDE DEF n
  <2>3. SubSeq(buf, 1, n) \in Seq(Pieces) /\ Len(SubSeq(buf, 1, n)) = n
    BY <2>1, <2>2, SubSeqProperties, ElementOfSeq
  <2>4. SubSeq(buf, 1, n) # <<>>
    BY <2>2, <2>3
  <2> QED
    BY <1>1, <2>3, <2>4 DEF Again, n
<1>2. CASE b.at \notin Buffered
  BY <1>2 DEF Again, Connection
<1> QED
  BY <1>1, <1>2

(* handle_output goes on, sends again or waits, unless the script is NULL. *)
LEMMA OutputOutcome ==
  ASSUME NEW c, NEW s, NEW cn \in Connection, NEW b \in HttpdState,
         NEW ws, NEW flag \in {"none", "acked", "rexmit"},
         Text, Settled(b), b.words = 2,
         b.at # "idle" /\ flag = "rexmit" => cn.flight # <<>>,
         HandleOutput(c, s, cn, b, flag)
  PROVE  Continued(c, s, cn, b, ws, flag) \/ Struck(b)
<1> DEFINE null == ~b.script /\ (b.at \in InScript \/ (b.at = "headers" /\ flag = "acked"))
<1>1. CASE null
  <2>1. crashed' = TRUE /\ UNCHANGED <<conn, block, textVars>>
    BY <1>1, Zenon DEF HandleOutput
  <2>2. b.at # "idle" /\ ~b.script
    BY <1>1 DEF InScript, Buffered
  <2> QED
    BY <2>1, <2>2 DEF Struck
<1>2. CASE ~null /\ (b.at = "idle" \/ flag = "acked")
  <2>1. Sends(c, s, cn, b) /\ crashed' = crashed
    BY <1>2, Zenon DEF HandleOutput
  <2>2. b.at = "idle" \/ flag = "acked"
    BY <1>2
  <2> QED
    BY <2>1, <2>2, SendsOutcome
<1>3. CASE ~null /\ ~(b.at = "idle" \/ flag = "acked")
  <2>1. PICK flight \in {cn.flight, Again(cn, b)} :
          conn' = [conn EXCEPT ![c] = [cn EXCEPT !.flight = IF flag = "rexmit" THEN flight ELSE @]]
    BY <1>3, Zenon DEF HandleOutput
  <2>2. block' = [block EXCEPT ![s] = b] /\ UNCHANGED textVars /\ crashed' = crashed
    BY <1>3, Zenon DEF HandleOutput
  <2>3. Text' /\ (buf # <<>> => buf' # <<>>) /\ Settled(b)' /\ Accounted(b, b) /\ Overran(b)
    BY <2>2, TextKept DEF textVars, Settled, Accounted, Overran
  <2>4. PICK flight2 \in Seq(Pieces) :
          /\ flight2 = IF flag = "rexmit" THEN flight ELSE cn.flight
          /\ cn.flight # <<>> => flight2 # <<>>
    BY <1>3, <2>1, AgainType DEF Connection
  <2>5. /\ [cn EXCEPT !.flight = flight2] \in Connection
        /\ [cn EXCEPT !.flight = flight2].s = cn.s
        /\ [cn EXCEPT !.flight = flight2].tcp = cn.tcp
        /\ [cn EXCEPT !.flight = flight2].flight = flight2
    BY DEF Connection
  <2>6. conn' = [conn EXCEPT ![c] = [cn EXCEPT !.flight = flight2]]
    BY <2>1, <2>4
  <2>7. Underway(b, cn.flight, flag) => Underway(b, flight2, "none")
    BY <1>3, <2>4 DEF Underway
  <2>8. Handled(c, s, cn, b, flag, [cn EXCEPT !.flight = flight2], b)
    BY <1>3, <2>2, <2>3, <2>5, <2>6, <2>7 DEF Handled
  <2> QED
    BY <2>3, <2>5, <2>8 DEF Continued
<1> QED
  BY <1>1, <1>2, <1>3

(* handle_connection: nothing but a new connection reads its two words,    *)
(* and only the arrival of data or of an acknowledgement can close one.    *)
LEMMA ConnectionOutcome ==
  ASSUME NEW c, NEW s, NEW cn \in Connection, NEW b \in HttpdState,
         NEW ws \in Seq(STRING), NEW flag \in {"none", "acked", "rexmit"},
         Text, Settled(b),
         b.at # "idle" /\ flag = "rexmit" => cn.flight # <<>>,
         HandleConnection(c, s, cn, b, ws, flag)
  PROVE  Continued(c, s, cn, b, ws, flag) \/ Struck(b)
<1> DEFINE words == Min({2, b.words + Len(ws)})
<1>1. /\ words \in 0 .. 2
      /\ b.words = 2 => words = 2
      /\ words < 2 => b.words < 2
  BY MinOfTwo, LenProperties DEF HttpdState
<1>2. Refuses(b, ws) => b.words < 2 /\ ws # <<>>
  BY LenProperties DEF Refuses, HttpdState
<1> HIDE DEF words
<1>3. PICK read \in HttpdState :
        /\ read = [b EXCEPT !.words = words]
        /\ read.words = words /\ read.at = b.at /\ read.k = b.k
        /\ read.len = b.len /\ read.script = b.script
  <2> DEFINE b1 == [b EXCEPT !.words = words]
  <2>1. /\ b1 \in HttpdState
        /\ b1.words = words /\ b1.at = b.at /\ b1.k = b.k
        /\ b1.len = b.len /\ b1.script = b.script
    BY <1>1 DEF HttpdState
  <2> QED
    BY <2>1
<1>4. PICK none \in HttpdState :
        /\ none = [b EXCEPT !.words = 0] /\ none.at = b.at
  <2> DEFINE b1 == [b EXCEPT !.words = 0]
  <2>1. b1 \in HttpdState /\ b1.at = b.at
    BY DEF HttpdState
  <2> QED
    BY <2>1
<1>5. CASE Refuses(b, ws) \/ read.words < 2
  <2> DEFINE b2 == IF Refuses(b, ws) THEN none ELSE read
             cn2 == IF Refuses(b, ws) THEN Closing(cn) ELSE cn
  <2>1. /\ block' = [block EXCEPT ![s] = b2]
        /\ conn' = [conn EXCEPT ![c] = cn2]
        /\ UNCHANGED <<textVars, crashed>>
    BY <1>3, <1>4, <1>5 DEF HandleConnection, words
  <2>2. b.at = "idle"
    BY <1>1, <1>2, <1>3, <1>5 DEF Settled
  <2>3. b2 \in HttpdState /\ b2.at = "idle"
    BY <1>3, <1>4, <2>2
  <2>4. cn2 \in Connection /\ cn2.s = cn.s /\ cn2.tcp \in {cn.tcp, "finwait"}
    BY ClosingType
  <2>5. ws = <<>> => cn2.tcp = cn.tcp
    BY <1>2
  <2>6. PICK cn3 \in Connection, b3 \in HttpdState : cn3 = cn2 /\ b3 = b2
    BY <2>3, <2>4
  <2> HIDE DEF cn2, b2
  <2>7. Text' /\ (buf # <<>> => buf' # <<>>) /\ Settled(b3)' /\ Accounted(b, b3) /\ Overran(b3)
    BY <2>1, <2>2, <2>3, <2>6, TextKept DEF textVars, Settled, Accounted, Overran, Buffered
  <2>8. Handled(c, s, cn, b, flag, cn3, b3)
    BY <2>1, <2>3, <2>4, <2>6, <2>7 DEF Handled, Underway, Buffered
  <2> QED
    BY <2>5, <2>6, <2>7, <2>8 DEF Continued
<1>6. CASE ~(Refuses(b, ws) \/ read.words < 2)
  <2>1. HandleOutput(c, s, cn, read, flag)
    BY <1>3, <1>6 DEF HandleConnection, words
  <2>2. read.words = 2 /\ Settled(read)
    BY <1>1, <1>3, <1>6 DEF Settled
  <2>3. ASSUME NEW cn2, NEW b2, Handled(c, s, cn, read, flag, cn2, b2)
        PROVE  Handled(c, s, cn, b, flag, cn2, b2)
    BY <1>3, <2>3 DEF Handled, Underway, Accounted
  <2>4. read.at # "idle" /\ flag = "rexmit" => cn.flight # <<>>
    BY <1>3
  <2>5. Continued(c, s, cn, read, ws, flag) \/ Struck(read)
    BY <2>1, <2>2, <2>4, OutputOutcome
  <2>6. Continued(c, s, cn, read, ws, flag) => Continued(c, s, cn, b, ws, flag)
    BY <2>3 DEF Continued
  <2> QED
    BY <1>3, <2>5, <2>6 DEF Struck
<1> QED
  BY <1>5, <1>6


-----------------------------------------------------------------------------
(* The calls of uIP. *)

LEMMA GoneType ==
  ASSUME NEW cn \in Connection, NEW tcp \in {"closing", "closed", "forgotten"}
  PROVE  /\ Gone(cn, tcp) \in Connection
         /\ Gone(cn, tcp).tcp = tcp /\ Gone(cn, tcp).lone = FALSE
         /\ tcp # "closed" => Gone(cn, tcp).s = cn.s
<1> DEFINE s == IF tcp = "closed" THEN 1 ELSE cn.s
           g1 == [[cn EXCEPT !.tcp = tcp] EXCEPT !.s = s]
           g2 == [[g1 EXCEPT !.request = <<>>] EXCEPT !.flight = <<>>]
           g3 == [[g2 EXCEPT !.page = <<>>] EXCEPT !.lone = FALSE]
<1>1. Gone(cn, tcp) = g3
  BY DEF Gone
<1>2. s \in Blocks
  BY HttpdAssumption DEF Connection, Blocks
<1> HIDE DEF s
<1>3. g1 \in Connection /\ g1.tcp = tcp /\ g1.s = s
  BY <1>2 DEF Connection
<1>4. <<>> \in Seq(STRING) /\ <<>> \in Seq(Pieces)
  OBVIOUS
<1> HIDE DEF g1
<1>5. g2 \in Connection /\ g2.tcp = g1.tcp /\ g2.s = g1.s
  BY <1>3, <1>4 DEF Connection
<1> HIDE DEF g2
<1>6. g3 \in Connection /\ g3.tcp = g2.tcp /\ g3.s = g2.s /\ g3.lone = FALSE
  BY <1>4, <1>5 DEF Connection
<1> HIDE DEF g3
<1> QED
  BY <1>1, <1>3, <1>5, <1>6 DEF s

LEMMA ReceivedType ==
  ASSUME NEW cn \in Connection
  PROVE  /\ Received(cn) \in Connection
         /\ Received(cn).s = cn.s /\ Received(cn).tcp = cn.tcp
<1> DEFINE page == IF cn.lone THEN cn.page \o cn.flight ELSE <<>>
           g == [cn EXCEPT !.page = page]
<1>1. Received(cn) = [g EXCEPT !.flight = <<>>]
  BY DEF Received
<1>2. cn.page \in Seq(Pieces) /\ cn.flight \in Seq(Pieces) /\ <<>> \in Seq(Pieces)
  BY DEF Connection
<1>3. page \in Seq(Pieces)
  BY <1>2, ConcatProperties
<1> HIDE DEF page
<1>4. g \in Connection /\ g.s = cn.s /\ g.tcp = cn.tcp
  BY <1>3 DEF Connection
<1> HIDE DEF g
<1> QED
  BY <1>1, <1>2, <1>4 DEF Connection

LEMMA BlockTypes ==
  ASSUME Shape, NEW s \in Blocks
  PROVE  /\ Awake(s) \in HttpdState /\ Settled(Awake(s))
         /\ Awake(s).at = block[s].at /\ Awake(s).script = block[s].script
         /\ [block[s] EXCEPT !.script = FALSE] \in HttpdState
         /\ Settled([block[s] EXCEPT !.script = FALSE])
         /\ [block[s] EXCEPT !.script = FALSE].at = block[s].at
         /\ [block[s] EXCEPT !.expired = TRUE] \in HttpdState
         /\ Settled([block[s] EXCEPT !.expired = TRUE])
         /\ [block[s] EXCEPT !.expired = TRUE].at = block[s].at
         /\ [block[s] EXCEPT !.expired = TRUE].script = block[s].script
<1>1. block[s] \in HttpdState /\ Settled(block[s])
  BY DEF Shape
<1> QED
  BY <1>1 DEF HttpdState, Awake, Settled

(* The call of an open connection c: handle_connection with what has come  *)
(* in, or, once its timer has expired, for a connection that is already    *)
(* reset and has given its block back.                                     *)
Serving(c, cn, b, ws, flag) ==
  LET s == conn[c].s IN
  /\ conn[c].tcp = "open"
  /\ Settled(b) /\ b.at = block[s].at
  /\ Continued(c, s, cn, b, ws, flag) \/ Struck(b)
  /\ reused' = reused
  /\ \/ /\ used' = used
        /\ cn.tcp = "open" /\ cn.s = s
        /\ b.script = block[s].script
        /\ Underway(block[s], conn[c].flight, "none") => Underway(b, cn.flight, flag)
     \/ /\ used' = used \ {s}
        /\ cn.tcp = "closed" /\ conn[c].flight = <<>> /\ ws = <<>> /\ flag = "none"

LEMMA EveryCallServes ==
  ASSUME Shape, NEW c \in Conns, NewData(c) \/ Acked(c) \/ Rexmit(c) \/ Poll(c)
  PROVE  \E cn \in Connection, b \in HttpdState, ws \in Seq(STRING),
            flag \in {"none", "acked", "rexmit"} : Serving(c, cn, b, ws, flag)
<1> DEFINE s == conn[c].s
<1>1. /\ s \in Blocks /\ conn[c] \in Connection /\ block[s] \in HttpdState
      /\ Settled(block[s]) /\ Text
  BY DEF Shape, Connection
<1>2. /\ Awake(s) \in HttpdState /\ Settled(Awake(s))
      /\ Awake(s).at = block[s].at /\ Awake(s).script = block[s].script
  BY <1>1, BlockTypes
<1>3. <<>> \in Seq(STRING)
  OBVIOUS
<1>4. CASE NewData(c)
  <2> DEFINE q == conn[c].request
  <2>1. PICK n \in 1 .. Len(q) :
          HandleConnection(c, s, [conn[c] EXCEPT !.request = SubSeq(q, n + 1, Len(q))],
                           Awake(s), SubSeq(q, 1, n), "none")
    BY <1>4 DEF NewData
  <2>2. conn[c].tcp = "open" /\ used' = used /\ reused' = reused
    BY <1>4 DEF NewData
  <2>3. q \in Seq(STRING)
    BY <1>1 DEF Connection
  <2>4. SubSeq(q, 1, n) \in Seq(STRING) /\ SubSeq(q, n + 1, Len(q)) \in Seq(STRING)
    BY <2>3, SubSeqProperties, ElementOfSeq
  <2> DEFINE cn == [conn[c] EXCEPT !.request = SubSeq(q, n + 1, Len(q))]
  <2>5. cn \in Connection /\ cn.tcp = conn[c].tcp /\ cn.s = s /\ cn.flight = conn[c].flight
    BY <1>1, <2>4 DEF Connection
  <2> HIDE DEF cn
  <2>6. HandleConnection(c, s, cn, Awake(s), SubSeq(q, 1, n), "none")
    BY <2>1 DEF cn
  <2> HIDE DEF s, q
  <2>7. Continued(c, s, cn, Awake(s), SubSeq(q, 1, n), "none") \/ Struck(Awake(s))
    BY <1>1, <1>2, <2>4, <2>5, <2>6, ConnectionOutcome
  <2>8. Serving(c, cn, Awake(s), SubSeq(q, 1, n), "none")
    BY <1>2, <2>2, <2>5, <2>7 DEF Serving, Underway, s
  <2> QED
    BY <1>2, <2>4, <2>5, <2>8
<1>5. CASE Acked(c)
  <2> DEFINE cn == Received(conn[c])
  <2>1. /\ conn[c].tcp = "open" /\ used' = used /\ reused' = reused
        /\ HandleConnection(c, s, cn, Awake(s), <<>>, "acked")
    BY <1>5 DEF Acked
  <2>2. cn \in Connection /\ cn.tcp = conn[c].tcp /\ cn.s = s
    BY <1>1, ReceivedType
  <2> HIDE DEF cn, s
  <2>3. Continued(c, s, cn, Awake(s), <<>>, "acked") \/ Struck(Awake(s))
    BY <1>1, <1>2, <1>3, <2>1, <2>2, ConnectionOutcome
  <2>4. Serving(c, cn, Awake(s), <<>>, "acked")
    BY <1>2, <2>1, <2>2, <2>3 DEF Serving, Underway, s
  <2> QED
    BY <1>2, <1>3, <2>2, <2>4
<1>6. CASE Rexmit(c)
  <2>1. /\ conn[c].tcp = "open" /\ conn[c].flight # <<>> /\ used' = used /\ reused' = reused
        /\ HandleConnection(c, s, conn[c], Awake(s), <<>>, "rexmit")
    BY <1>6 DEF Rexmit
  <2> HIDE DEF s
  <2>2. Continued(c, s, conn[c], Awake(s), <<>>, "rexmit") \/ Struck(Awake(s))
    BY <1>1, <1>2, <1>3, <2>1, ConnectionOutcome
  <2>3. Serving(c, conn[c], Awake(s), <<>>, "rexmit")
    BY <1>2, <2>1, <2>2 DEF Serving, Underway, s
  <2> QED
    BY <1>1, <1>2, <1>3, <2>3
<1>7. CASE Poll(c) /\ block[s].expired
  <2> DEFINE cn == Gone(conn[c], "closed")
             b == [block[s] EXCEPT !.script = FALSE]
  <2>1. /\ conn[c].tcp = "open" /\ conn[c].flight = <<>>
        /\ used' = used \ {s} /\ reused' = reused
        /\ HandleConnection(c, s, cn, b, <<>>, "none")
    BY <1>7 DEF Poll
  <2>2. cn \in Connection /\ cn.tcp = "closed"
    BY <1>1, GoneType
  <2>3. b \in HttpdState /\ Settled(b) /\ b.at = block[s].at
    BY <1>1, BlockTypes
  <2> HIDE DEF cn, b, s
  <2>4. Continued(c, s, cn, b, <<>>, "none") \/ Struck(b)
    BY <1>1, <1>3, <2>1, <2>2, <2>3, ConnectionOutcome
  <2>5. Serving(c, cn, b, <<>>, "none")
    BY <2>1, <2>2, <2>3, <2>4 DEF Serving, s
  <2> QED
    BY <1>3, <2>2, <2>3, <2>5
<1>8. CASE Poll(c) /\ ~block[s].expired
  <2>1. /\ conn[c].tcp = "open" /\ used' = used /\ reused' = reused
        /\ HandleConnection(c, s, conn[c], block[s], <<>>, "none")
    BY <1>8 DEF Poll
  <2> HIDE DEF s
  <2>2. Continued(c, s, conn[c], block[s], <<>>, "none") \/ Struck(block[s])
    BY <1>1, <1>3, <2>1, ConnectionOutcome
  <2>3. Serving(c, conn[c], block[s], <<>>, "none")
    BY <1>1, <2>1, <2>2 DEF Serving, s
  <2> QED
    BY <1>1, <1>3, <2>3
<1> QED
  BY <1>4, <1>5, <1>6, <1>7, <1>8


LEMMA ServingShape ==
  ASSUME Shape, NEW c \in Conns, NEW cn \in Connection, NEW b \in HttpdState,
         NEW ws, NEW flag, Serving(c, cn, b, ws, flag)
  PROVE  Shape'
<1> DEFINE s == conn[c].s
<1>1. s \in Blocks
  BY DEF Shape, Connection
<1>2. used' \subseteq Blocks /\ reused' \in BOOLEAN
  BY DEF Serving, Shape
<1>3. CASE Continued(c, s, cn, b, ws, flag)
  <2>1. /\ Text' /\ (buf # <<>> => buf' # <<>>)
        /\ \E cn2 \in Connection, b2 \in HttpdState : Handled(c, s, cn, b, flag, cn2, b2)
    BY <1>3 DEF Continued
  <2>2. PICK cn2 \in Connection, b2 \in HttpdState : Handled(c, s, cn, b, flag, cn2, b2)
    BY <2>1
  <2>3. /\ conn' = [conn EXCEPT ![c] = cn2] /\ block' = [block EXCEPT ![s] = b2]
        /\ crashed' = crashed /\ Settled(b2)'
    BY <2>2 DEF Handled
  <2>4. conn' \in [Conns -> Connection] /\ block' \in [Blocks -> HttpdState]
    BY <2>3 DEF Shape
  <2>5. \A u \in Blocks : Settled(block[u])'
    BY <1>1, <2>1, <2>3 DEF Settled, Shape
  <2> QED
    BY <1>2, <2>1, <2>3, <2>4, <2>5 DEF Shape
<1>4. CASE Struck(b)
  BY <1>2, <1>4, TextKept DEF Struck, Shape, Settled, textVars
<1> QED
  BY <1>3, <1>4 DEF Serving

LEMMA FreshType == Fresh \in HttpdState /\ Settled(Fresh) /\ Fresh.at = "idle"
  BY HttpdAssumption DEF Fresh, HttpdState, Settled, Segments, Buffered, InScript

LEMMA ShapeHolds == Spec => []Shape
<1>1. Init => Shape
  <2> SUFFICES ASSUME Init PROVE Shape
    OBVIOUS
  <2>1. 1 \in Blocks
    BY HttpdAssumption DEF Blocks
  <2>2. conn \in [Conns -> Connection]
    BY <2>1 DEF Init, Connection
  <2>3. block \in [Blocks -> HttpdState] /\ \A s \in Blocks : Settled(block[s])
    BY FreshType DEF Init
  <2>4. Text
    <3>1. Iterators
      BY LengthType, HttpdAssumption DEF Init, Iterators, InsideLists
    <3>2. buf = <<>> /\ blen = 0 /\ dropped = 0 /\ overrun = FALSE
      BY DEF Init
    <3>3. <<>> \in Seq(Pieces) /\ Len(<<>>) = 0
      OBVIOUS
    <3>4. blen \in 0 .. Len(buf) /\ dropped \in Nat
      BY <3>2, <3>3
    <3>5. overrun \in BOOLEAN
      BY <3>2
    <3>6. buf \in Seq(Pieces)
      BY <3>2, <3>3
    <3> QED
      BY <3>1, <3>4, <3>5, <3>6, Zenon DEF Text
  <2> QED
    BY <2>2, <2>3, <2>4 DEF Init, Shape
<1>2. Shape /\ [Next]_httpdVars => Shape'
  <2> SUFFICES ASSUME Shape, [Next]_httpdVars
               PROVE  Shape'
    OBVIOUS
  <2>1. ASSUME NEW c \in Conns, Connected(c)
        PROVE  Shape'
    <3>1. UNCHANGED <<textVars, crashed>>
      BY <2>1 DEF Connected
    <3>2. CASE used = Blocks
      <4>1. /\ conn' = [conn EXCEPT ![c] = [conn[c] EXCEPT !.tcp = "closed"]]
            /\ UNCHANGED <<used, block, reused>>
        BY <2>1, <3>2 DEF Connected
      <4>2. [conn[c] EXCEPT !.tcp = "closed"] \in Connection
        BY DEF Shape, Connection
      <4>3. conn' \in [Conns -> Connection]
        BY <4>1, <4>2 DEF Shape
      <4> QED
        BY <3>1, <4>1, <4>3, TextKept DEF Shape, Settled, textVars
    <3>3. CASE used # Blocks
      <4> DEFINE s == Min(Blocks \ used)
                 open == {d \in Conns : conn[d].tcp = "open"}
      <4>1. s \in Blocks \ used
        <5>1. Blocks \ used \subseteq Nat
          BY HttpdAssumption DEF Blocks
        <5>2. Blocks \ used # {}
          BY <3>3 DEF Shape
        <5> QED
          BY <5>1, <5>2, MinIsElement
      <4>2. /\ used' = used \cup {s}
            /\ block' = [block EXCEPT ![s] = Fresh]
            /\ reused' = (reused \/ \E d \in Conns : conn[d].tcp = "closing" /\ conn[d].s = s)
        BY <2>1, <3>3 DEF Connected
      <4>3. PICK request \in Requests :
              conn' = [d \in Conns |->
                 IF d = c THEN [conn[c] EXCEPT !.tcp = "open", !.s = s, !.request = request,
                                               !.lone = open = {} /\ blen = 0]
                 ELSE [conn[d] EXCEPT !.lone = @ /\ d \notin open]]
        BY <2>1, <3>3 DEF Connected
      <4> HIDE DEF s
      <4>4. [conn[c] EXCEPT !.tcp = "open", !.s = s, !.request = request,
                            !.lone = open = {} /\ blen = 0] \in Connection
        <5> DEFINE g == [[conn[c] EXCEPT !.tcp = "open"] EXCEPT !.s = s]
                   lone == open = {} /\ blen = 0
        <5>1. g \in Connection
          BY <4>1 DEF Shape, Connection
        <5>2. request \in Seq(STRING) /\ lone \in BOOLEAN
          BY HttpdAssumption
        <5> HIDE DEF g, lone
        <5>3. [[g EXCEPT !.request = request] EXCEPT !.lone = lone] \in Connection
          BY <5>1, <5>2 DEF Connection
        <5> QED
          BY <5>3 DEF g, lone
      <4>5. ASSUME NEW d \in Conns
            PROVE  [conn[d] EXCEPT !.lone = @ /\ d \notin open] \in Connection
        <5>1. (conn[d].lone /\ d \notin open) \in BOOLEAN
          OBVIOUS
        <5> QED
          BY <5>1 DEF Shape, Connection
      <4> HIDE DEF open
      <4>6. conn' \in [Conns -> Connection]
        BY <4>3, <4>4, <4>5
      <4>7. used' \subseteq Blocks /\ reused' \in BOOLEAN
        BY <4>1, <4>2 DEF Shape
      <4>8. block' \in [Blocks -> HttpdState] /\ \A u \in Blocks : Settled(block[u])'
        BY <3>1, <4>1, <4>2, FreshType DEF Shape, Settled, textVars
      <4> QED
        BY <3>1, <4>6, <4>7, <4>8, TextKept DEF Shape
    <3> QED
      BY <3>2, <3>3
  <2>2. ASSUME NEW c \in Conns, NewData(c) \/ Acked(c) \/ Rexmit(c) \/ Poll(c)
        PROVE  Shape'
    BY <2>2, EveryCallServes, ServingShape
  <2>3. ASSUME NEW c \in Conns, NEW tcp \in {"closing", "closed"}, Ended(c, tcp)
        PROVE  Shape'
    <3> DEFINE s == conn[c].s
               b == IF Named(c, s) THEN [block[s] EXCEPT !.script = FALSE] ELSE Fresh
    <3>1. /\ conn' = [conn EXCEPT ![c] = Gone(conn[c], tcp)]
          /\ block' = [block EXCEPT ![s] = b]
          /\ used' = used \ {s}
          /\ dropped' = dropped + (IF conn[c].tcp = "open" /\ block[s].at \in Buffered THEN 1 ELSE 0)
          /\ UNCHANGED <<buf, blen, table, row, overrun, reused, crashed>>
      BY <2>3 DEF Ended
    <3>2. s \in Blocks /\ Gone(conn[c], tcp) \in Connection
      BY GoneType DEF Shape, Connection
    <3>3. b \in HttpdState /\ Settled(b)
      BY <3>2, FreshType, BlockTypes
    <3> HIDE DEF b, s
    <3>4. conn' \in [Conns -> Connection]
      BY <3>1, <3>2 DEF Shape
    <3>5. block' \in [Blocks -> HttpdState] /\ \A u \in Blocks : Settled(block[u])'
      BY <3>1, <3>2, <3>3 DEF Shape, Settled
    <3>6. Text'
      BY <3>1 DEF Shape, Text, Iterators, InsideLists, Length
    <3> QED
      BY <3>1, <3>4, <3>5, <3>6 DEF Shape
  <2>4. ASSUME NEW c \in Conns, Forget(c)
        PROVE  Shape'
    <3>1. PICK tcp \in {"closed", "forgotten"} : conn' = [conn EXCEPT ![c] = Gone(conn[c], tcp)]
      BY <2>4 DEF Forget
    <3>2. conn' \in [Conns -> Connection]
      BY <3>1, GoneType DEF Shape
    <3>3. UNCHANGED <<used, block, textVars, reused, crashed>>
      BY <2>4 DEF Forget
    <3> QED
      BY <3>2, <3>3, TextKept DEF Shape, Settled, textVars
  <2>5. ASSUME NEW s \in Blocks, TimerExpires(s)
        PROVE  Shape'
    <3>1. /\ block' = [block EXCEPT ![s] = [block[s] EXCEPT !.expired = TRUE]]
          /\ UNCHANGED <<conn, used, textVars, reused, crashed>>
      BY <2>5 DEF TimerExpires
    <3>2. block' \in [Blocks -> HttpdState] /\ \A u \in Blocks : Settled(block[u])'
      BY <3>1, BlockTypes DEF Shape, Settled, textVars
    <3> QED
      BY <3>1, <3>2, TextKept DEF Shape
  <2>7. ASSUME ListsChange
        PROVE  Shape'
    <3>1. /\ UNCHANGED <<used, block, buf, blen, overrun, dropped, reused, crashed>>
          /\ table' \in Tables /\ row' \in [1 .. Lists -> 0 .. 2 * MostRows]
          /\ \A k \in 1 .. Lists :
               row'[k] \in IF row[k] = 0 THEN {0} ELSE (1 .. Length(k))' \cup Removed
          /\ conn' = [c \in Conns |-> [conn[c] EXCEPT !.lone = FALSE, !.page = <<>>]]
      BY <2>7 DEF ListsChange
    <3>2. conn' \in [Conns -> Connection]
      <4>1. ASSUME NEW c \in Conns
            PROVE  [conn[c] EXCEPT !.lone = FALSE, !.page = <<>>] \in Connection
        <5>1. <<>> \in Seq(Pieces)
          OBVIOUS
        <5> QED
          BY <5>1 DEF Shape, Connection
      <4> QED
        BY <3>1, <4>1
    <3>3. Iterators'
      <4>1. \A k \in 1 .. Lists : row'[k] \in (0 .. Length(k))' \cup Removed
        <5> SUFFICES ASSUME NEW k \in 1 .. Lists
                     PROVE  row'[k] \in (0 .. Length(k))' \cup Removed
          OBVIOUS
        <5>1. Length(k)' \in Nat
          BY <3>1, TableType DEF Length
        <5>2. row'[k] \in {0} \/ row'[k] \in (1 .. Length(k))' \cup Removed
          BY <3>1
        <5> QED
          BY <5>1, <5>2
      <4>2. row' \in [1 .. Lists -> Nat]
        <5>1. 0 .. 2 * MostRows \subseteq Nat
          BY HttpdAssumption
        <5>2. row' \in [1 .. Lists -> 0 .. 2 * MostRows]
          BY <3>1
        <5> QED
          BY <5>1, <5>2
      <4> QED
        BY <3>1, <4>1, <4>2 DEF Iterators, InsideLists
    <3>4. Text' /\ \A s \in Blocks : Settled(block[s])'
      BY <3>1, <3>3 DEF Shape, Text, Settled
    <3> QED
      BY <3>1, <3>2, <3>4 DEF Shape
  <2>6. CASE UNCHANGED httpdVars
    BY <2>6, TextKept DEF Shape, Settled, httpdVars, textVars
  <2> QED
    BY <2>1, <2>2, <2>3, <2>4, <2>5, <2>6, <2>7
    DEF Next, PeerCloses, ConnectionLost, EndsAgain
<1> QED
  BY <1>1, <1>2, PTL DEF Spec

(* Every variable of the server keeps its type, whether or not a block was *)
(* given away too early and however the lists change: pieces of the page,  *)
(* as many of them as blen says, and iterators inside their lists or at    *)
(* removed entries (httpd-simple.c:124-249, webserver.c:45-156).           *)
THEOREM HttpdTypes == Spec => []TypeOK
<1>1. Shape => TypeOK
  BY DEF Shape, TypeOK, Text, Iterators, InsideLists, Connection, HttpdState
<1> QED
  BY <1>1, ShapeHolds, PTL


-----------------------------------------------------------------------------
(* The pool of blocks, until a block is given away that a call may name.   *)

Holds(c) == conn[c].tcp \in {"open", "finwait", "forgotten"}

(* A block in use has one holder; a connection that has ended, and may be  *)
(* called a second time, names a free block; and the output of an open     *)
(* connection has a script and a segment under way.                        *)
Pool ==
  /\ ~crashed
  /\ \A c, d \in Conns : Holds(c) /\ Holds(d) /\ conn[c].s = conn[d].s => c = d
  /\ \A c \in Conns : Holds(c) => conn[c].s \in used
  /\ \A s \in used : \E c \in Conns : Holds(c) /\ conn[c].s = s
  /\ \A c \in Conns : conn[c].tcp = "closing" => conn[c].s \notin used
  /\ \A c \in Conns :
       conn[c].tcp = "open" => Underway(block[conn[c].s], conn[c].flight, "none")

(* The connections inside SEND. *)
Writers == {c \in Conns : conn[c].tcp = "open" /\ block[conn[c].s].at \in Buffered}

Origin == blen <= dropped + Cardinality(Writers)

(* There are no more writers than blocks. *)
LEMMA WritersFinite ==
  ASSUME Shape, Pool
  PROVE  IsFiniteSet(Writers) /\ Cardinality(Writers) \in Nat /\ Cardinality(Writers) <= CONNS
<1> DEFINE f == [c \in Writers |-> conn[c].s]
<1>1. f \in [Writers -> Blocks]
  BY DEF Shape, Connection, Writers
<1>2. \A c, d \in Writers : f[c] = f[d] => c = d
  BY DEF Pool, Holds, Writers
<1>3. f \in Injection(Writers, Blocks)
  <2> HIDE DEF f
  <2> QED
    BY <1>1, <1>2 DEF Injection, IsInjective
<1>4. IsFiniteSet(Blocks) /\ Cardinality(Blocks) = CONNS
  BY HttpdAssumption, FS_Interval DEF Blocks
<1> HIDE DEF f
<1>5. IsFiniteSet(Writers) /\ Cardinality(Writers) <= Cardinality(Blocks)
  BY <1>3, <1>4, FS_Injection
<1> QED
  BY <1>4, <1>5, FS_CardinalityType

(* A call of an open connection, whose block no other connection holds.    *)
LEMMA ServingKeepsPool ==
  ASSUME Shape, Pool, NEW c \in Conns, NEW cn \in Connection, NEW b \in HttpdState,
         NEW ws, NEW flag, Serving(c, cn, b, ws, flag)
  PROVE  Pool' /\ (Origin => Origin')
<1> DEFINE s == conn[c].s
<1>1. /\ s \in Blocks /\ conn[c].tcp = "open" /\ Holds(c) /\ b.at = block[s].at
      /\ Underway(block[s], conn[c].flight, "none")
  BY DEF Shape, Connection, Pool, Holds, Serving
<1>2. ~Struck(b)
  BY <1>1 DEF Serving, Struck, Underway
<1>3. PICK cn2 \in Connection, b2 \in HttpdState :
        /\ Handled(c, s, cn, b, flag, cn2, b2)
        /\ flag # "acked" /\ ws = <<>> => cn2.tcp = cn.tcp
  BY <1>2 DEF Serving, Continued
<1>4. /\ conn' = [conn EXCEPT ![c] = cn2] /\ block' = [block EXCEPT ![s] = b2]
      /\ crashed' = crashed
  BY <1>3 DEF Handled
<1>5. \A d \in Conns \ {c} :
        /\ conn'[d] = conn[d] /\ (Holds(d))' = Holds(d)
        /\ Holds(d) => conn[d].s # s /\ block'[conn[d].s] = block[conn[d].s]
  BY <1>1, <1>4 DEF Pool, Holds, Shape, Connection
<1>6. conn'[c] = cn2 /\ block'[s] = b2
  BY <1>1, <1>4 DEF Shape
<1>7. Text /\ Text' /\ blen \in Nat /\ dropped \in Nat
  BY <1>2 DEF Shape, Text, Serving, Continued
<1>8. CASE used' = used /\ cn.tcp = "open" /\ cn.s = s /\ Underway(b, cn.flight, flag)
  <2>1. /\ cn2.s = s /\ cn2.tcp \in {"open", "finwait"}
        /\ cn2.tcp = "finwait" => b2.at = "idle"
        /\ Underway(b2, cn2.flight, "none") /\ Accounted(b, b2)
    BY <1>3, <1>8 DEF Handled
  <2>2. Holds(c)' /\ conn'[c].s = s
    BY <1>6, <2>1 DEF Holds
  <2>3. Pool'
    <3>1. \A d \in Conns : Holds(d)' = Holds(d) /\ conn'[d].s = conn[d].s
      <4>1. ASSUME NEW d \in Conns, d # c
            PROVE  Holds(d)' = Holds(d) /\ conn'[d].s = conn[d].s
        BY <1>5, <4>1
      <4>2. Holds(c)' = Holds(c) /\ conn'[c].s = conn[c].s
        BY <1>1, <2>2 DEF Holds
      <4> QED
        BY <4>1, <4>2
    <3>2. \A d \in Conns : conn'[d].tcp = "closing" => conn[d].tcp = "closing"
      BY <1>5, <1>6, <2>1
    <3>3. \A d \in Conns : conn'[d].tcp = "open" =>
            Underway(block'[conn'[d].s], conn'[d].flight, "none")
      BY <1>5, <1>6, <2>1 DEF Pool, Holds
    <3> QED
      BY <1>4, <1>8, <3>1, <3>2, <3>3 DEF Pool, Underway
  <2>4. Origin => Origin'
    <3>1. \A d \in Conns \ {c} : d \in Writers' <=> d \in Writers
      BY <1>5 DEF Writers, Holds
    <3>2. c \in Writers <=> b.at \in Buffered
      BY <1>1 DEF Writers
    <3>3. c \in Writers' <=> b2.at \in Buffered
      BY <1>6, <2>1 DEF Writers, Buffered
    <3>4. Writers \subseteq Conns /\ Writers' \subseteq Conns
      BY DEF Writers
    <3>5. /\ IsFiniteSet(Writers) /\ Cardinality(Writers) \in Nat
          /\ IsFiniteSet(Writers)' /\ Cardinality(Writers)' \in Nat
      <4>1. IsFiniteSet(Writers) /\ Cardinality(Writers) \in Nat
        BY WritersFinite
      <4>2. Writers' \subseteq Writers \cup {c}
        BY <3>1, <3>4
      <4>3. IsFiniteSet(Writers')
        BY <4>1, <4>2, FS_AddElement, FS_Subset
      <4> QED
        BY <4>1, <4>3, FS_CardinalityType
    <3>6. CASE b.at \in Buffered /\ dropped' = 0 /\ (blen' = IF b2.at \in Buffered THEN 1 ELSE 0)
      <4>1. b2.at \in Buffered => Cardinality(Writers') >= 1
        BY <3>3, <3>5, FS_EmptySet
      <4> QED
        BY <3>5, <3>6, <4>1 DEF Origin
    <3>7. CASE /\ b.at \in Buffered => b2.at \in Buffered
               /\ dropped' = dropped
               /\ blen' = IF b.at \notin Buffered /\ b2.at \in Buffered THEN blen + 1 ELSE blen
      <4>1. CASE b.at \notin Buffered /\ b2.at \in Buffered
        <5>1. Writers' = Writers \cup {c} /\ c \notin Writers
          BY <3>1, <3>2, <3>3, <3>4, <4>1
        <5>2. Cardinality(Writers') = Cardinality(Writers) + 1
          BY <3>5, <5>1, FS_AddElement
        <5> QED
          BY <1>7, <3>5, <3>7, <4>1, <5>2 DEF Origin
      <4>2. CASE ~(b.at \notin Buffered /\ b2.at \in Buffered)
        <5>1. Writers' = Writers
          BY <3>1, <3>2, <3>3, <3>4, <3>7, <4>2
        <5> QED
          BY <3>7, <4>2, <5>1 DEF Origin
      <4> QED
        BY <4>1, <4>2
    <3> QED
      BY <2>1, <3>6, <3>7 DEF Accounted
  <2> QED
    BY <2>3, <2>4
<1>9. CASE /\ used' = used \ {s} /\ cn.tcp = "closed"
           /\ conn[c].flight = <<>> /\ ws = <<>> /\ flag = "none"
  <2>1. cn2.tcp = "closed" /\ b.at = "idle" /\ b2.at \notin Buffered /\ Accounted(b, b2)
    BY <1>1, <1>3, <1>9 DEF Handled, Underway
  <2>2. ~Holds(c)' /\ conn'[c].tcp = "closed"
    BY <1>6, <2>1 DEF Holds
  <2>3. Pool'
    <3>1. \A d \in Conns : Holds(d)' => d # c /\ Holds(d) /\ conn'[d].s = conn[d].s
      BY <1>5, <2>2
    <3>2. \A u \in used' : \E d \in Conns : Holds(d)' /\ conn'[d].s = u
      BY <1>5, <1>9 DEF Pool
    <3>3. \A d \in Conns : Holds(d)' => conn'[d].s \in used'
      BY <1>5, <1>9, <3>1 DEF Pool
    <3>4. \A d \in Conns : conn'[d].tcp = "closing" => conn'[d].s \notin used'
      BY <1>5, <1>9, <2>2 DEF Pool
    <3>5. \A d \in Conns : conn'[d].tcp = "open" =>
            Underway(block'[conn'[d].s], conn'[d].flight, "none")
      BY <1>5, <2>2 DEF Pool, Holds
    <3> QED
      BY <1>4, <3>1, <3>2, <3>3, <3>4, <3>5 DEF Pool, Underway
  <2>4. Writers' = Writers
    <3>1. c \notin Writers /\ c \notin Writers'
      BY <1>1, <2>1, <2>2 DEF Writers, Buffered
    <3>2. \A d \in Conns \ {c} : d \in Writers' <=> d \in Writers
      BY <1>5 DEF Writers, Holds
    <3> QED
      BY <3>1, <3>2 DEF Writers
  <2>5. blen' = blen /\ dropped' = dropped
    BY <2>1 DEF Accounted, Buffered
  <2> QED
    BY <2>3, <2>4, <2>5 DEF Origin
<1> QED
  BY <1>1, <1>8, <1>9 DEF Serving


(* A new connection gets a block nobody holds, and nobody names who may be *)
(* called again; or it is reset.                                           *)
LEMMA ConnectedKeepsPool ==
  ASSUME Shape, Pool, NEW c \in Conns, Connected(c), ~reused'
  PROVE  Pool' /\ (Origin => Origin')
<1>0. conn[c].tcp = "new" /\ ~Holds(c) /\ UNCHANGED <<buf, blen, dropped, crashed>>
  BY DEF Connected, Holds, textVars
<1>1. CASE used = Blocks
  <2>1. /\ conn' = [conn EXCEPT ![c] = [conn[c] EXCEPT !.tcp = "closed"]]
        /\ UNCHANGED <<used, block>>
    BY <1>1 DEF Connected
  <2>2. conn'[c].tcp = "closed" /\ \A d \in Conns \ {c} : conn'[d] = conn[d]
    BY <2>1 DEF Shape, Connection
  <2>3. \A d \in Conns : Holds(d)' => Holds(d) /\ d # c
    BY <2>2 DEF Holds
  <2>4. \A d \in Conns : Holds(d) => Holds(d)' /\ d # c
    BY <1>0, <2>2 DEF Holds
  <2>5. Pool'
    BY <1>0, <2>1, <2>2, <2>3, <2>4 DEF Pool, Underway
  <2>6. Writers' = Writers
    BY <1>0, <2>1, <2>2 DEF Writers
  <2> QED
    BY <1>0, <2>5, <2>6 DEF Origin
<1>2. CASE used # Blocks
  <2> DEFINE s == Min(Blocks \ used)
             open == {d \in Conns : conn[d].tcp = "open"}
  <2>1. s \in Blocks \ used
    <3>1. Blocks \ used \subseteq Nat
      BY HttpdAssumption DEF Blocks
    <3>2. Blocks \ used # {}
      BY <1>2 DEF Shape
    <3> QED
      BY <3>1, <3>2, MinIsElement
  <2>2. /\ used' = used \cup {s}
        /\ block' = [block EXCEPT ![s] = Fresh]
        /\ \A d \in Conns : conn[d].tcp = "closing" => conn[d].s # s
    BY <1>2 DEF Connected
  <2>3. PICK request \in Requests :
          conn' = [d \in Conns |->
             IF d = c THEN [conn[c] EXCEPT !.tcp = "open", !.s = s, !.request = request,
                                           !.lone = open = {} /\ blen = 0]
             ELSE [conn[d] EXCEPT !.lone = @ /\ d \notin open]]
    BY <1>2 DEF Connected
  <2> HIDE DEF s, open
  <2>4. conn'[c].tcp = "open" /\ conn'[c].s = s
    BY <2>3 DEF Shape, Connection
  <2>5. \A d \in Conns \ {c} :
          conn'[d].tcp = conn[d].tcp /\ conn'[d].s = conn[d].s /\ conn'[d].flight = conn[d].flight
    BY <2>3 DEF Shape, Connection
  <2>6. block'[s].at = "idle" /\ \A u \in Blocks \ {s} : block'[u] = block[u]
    BY <2>1, <2>2 DEF Shape, Fresh
  <2>7. \A d \in Conns : Holds(d) => d # c /\ conn[d].s # s /\ conn[d].s \in Blocks
    BY <1>0, <2>1 DEF Pool, Shape
  <2>8. \A d \in Conns : Holds(d)' => (d = c /\ conn'[d].s = s) \/ (d # c /\ Holds(d) /\ conn'[d].s = conn[d].s)
    BY <2>4, <2>5 DEF Holds
  <2>9. \A d \in Conns : Holds(d) => Holds(d)' /\ conn'[d].s = conn[d].s
    BY <2>5, <2>7 DEF Holds
  <2>10. Holds(c)'
    BY <2>4 DEF Holds
  <2>11. Pool'
    <3>1. \A d, e \in Conns : Holds(d)' /\ Holds(e)' /\ conn'[d].s = conn'[e].s => d = e
      BY <2>7, <2>8 DEF Pool
    <3>2. \A d \in Conns : Holds(d)' => conn'[d].s \in used'
      BY <2>2, <2>8 DEF Pool
    <3>3. \A u \in used' : \E d \in Conns : Holds(d)' /\ conn'[d].s = u
      BY <2>2, <2>4, <2>9, <2>10 DEF Pool
    <3>4. \A d \in Conns : conn'[d].tcp = "closing" => conn'[d].s \notin used'
      BY <2>2, <2>4, <2>5 DEF Pool
    <3>5. \A d \in Conns : conn'[d].tcp = "open" =>
            Underway(block'[conn'[d].s], conn'[d].flight, "none")
      <4>1. ASSUME NEW d \in Conns, conn'[d].tcp = "open", d # c
            PROVE  Underway(block'[conn'[d].s], conn'[d].flight, "none")
        BY <2>5, <2>6, <2>7, <4>1 DEF Pool, Holds, Underway
      <4>2. Underway(block'[conn'[c].s], conn'[c].flight, "none")
        BY <2>4, <2>6 DEF Underway
      <4> QED
        BY <4>1, <4>2
    <3> QED
      BY <1>0, <3>1, <3>2, <3>3, <3>4, <3>5 DEF Pool, Underway
  <2>12. Writers' = Writers
    <3>1. c \notin Writers /\ c \notin Writers'
      BY <1>0, <2>4, <2>6 DEF Writers, Buffered
    <3>2. \A d \in Conns \ {c} : d \in Writers' <=> d \in Writers
      BY <2>5, <2>6, <2>7 DEF Writers, Holds
    <3> QED
      BY <3>1, <3>2 DEF Writers
  <2> QED
    BY <1>0, <2>11, <2>12 DEF Origin
<1> QED
  BY <1>1, <1>2

(* The end of a connection gives its own block back, or one that is free.  *)
LEMMA EndedKeepsPool ==
  ASSUME Shape, Pool, NEW c \in Conns, NEW tcp \in {"closing", "closed"},
         conn[c].tcp \in {"open", "finwait", "closing"}, Ended(c, tcp)
  PROVE  Pool' /\ (Origin => Origin')
<1> DEFINE s == conn[c].s
<1>1. /\ conn' = [conn EXCEPT ![c] = Gone(conn[c], tcp)]
      /\ \E b : block' = [block EXCEPT ![s] = b]
      /\ used' = used \ {s}
      /\ dropped' = dropped + (IF conn[c].tcp = "open" /\ block[s].at \in Buffered THEN 1 ELSE 0)
      /\ UNCHANGED <<blen, crashed>>
  BY DEF Ended
<1>2. /\ s \in Blocks /\ conn'[c].tcp = tcp
      /\ tcp = "closing" => conn'[c].s = s
      /\ \A d \in Conns \ {c} : conn'[d] = conn[d]
      /\ \A u \in Blocks \ {s} : block'[u] = block[u]
  <2>1. s \in Blocks /\ conn[c] \in Connection
    BY DEF Shape, Connection
  <2>2. Gone(conn[c], tcp).tcp = tcp /\ (tcp = "closing" => Gone(conn[c], tcp).s = s)
    <3>1. tcp \in {"closing", "closed", "forgotten"}
      OBVIOUS
    <3>2. /\ Gone(conn[c], tcp).tcp = tcp
          /\ tcp # "closed" => Gone(conn[c], tcp).s = conn[c].s
      BY <2>1, <3>1, GoneType
    <3> QED
      BY <3>2
  <2>3. conn'[c] = Gone(conn[c], tcp) /\ \A d \in Conns \ {c} : conn'[d] = conn[d]
    BY <1>1 DEF Shape
  <2>4. \A u \in Blocks \ {s} : block'[u] = block[u]
    <3> HIDE DEF s
    <3>1. PICK b : block' = [block EXCEPT ![s] = b]
      BY <1>1
    <3> QED
      BY <3>1 DEF Shape
  <2> QED
    BY <2>1, <2>2, <2>3, <2>4
<1>3. \A d \in Conns : Holds(d) /\ conn[d].s = s => d = c
  BY DEF Pool, Holds
<1>4. \A d \in Conns : Holds(d)' => Holds(d) /\ d # c /\ conn'[d].s = conn[d].s /\ conn[d].s # s
  BY <1>2, <1>3 DEF Holds
<1>5. Pool'
  <2>1. \A u \in used' : \E d \in Conns : Holds(d)' /\ conn'[d].s = u
    BY <1>1, <1>2 DEF Pool, Holds
  <2>2. \A d \in Conns : Holds(d)' => conn'[d].s \in used'
    BY <1>1, <1>4 DEF Pool
  <2>3. \A d \in Conns : conn'[d].tcp = "closing" => conn'[d].s \notin used'
    BY <1>1, <1>2 DEF Pool
  <2>4. \A d \in Conns : conn'[d].tcp = "open" =>
          Underway(block'[conn'[d].s], conn'[d].flight, "none")
    <3>1. ASSUME NEW d \in Conns, conn'[d].tcp = "open"
          PROVE  Underway(block'[conn'[d].s], conn'[d].flight, "none")
      <4>1. d # c /\ conn'[d] = conn[d]
        BY <1>2, <3>1
      <4>2. conn[d].s \in Blocks \ {s}
        BY <1>3, <3>1, <4>1 DEF Holds, Shape, Connection
      <4> QED
        BY <1>2, <3>1, <4>1, <4>2 DEF Pool
    <3> QED
      BY <3>1
  <2> QED
    BY <1>1, <1>4, <2>1, <2>2, <2>3, <2>4 DEF Pool, Underway
<1>6. Origin => Origin'
  <2>1. Writers' = Writers \ {c}
    <3>1. c \notin Writers'
      BY <1>2 DEF Writers
    <3>2. \A d \in Conns \ {c} : d \in Writers' <=> d \in Writers
      <4>1. ASSUME NEW d \in Conns \ {c}, conn[d].tcp = "open"
            PROVE  block'[conn[d].s] = block[conn[d].s]
        BY <1>2, <1>3, <4>1 DEF Holds, Shape, Connection
      <4> QED
        BY <1>2, <4>1 DEF Writers
    <3> QED
      BY <3>1, <3>2 DEF Writers
  <2>2. IsFiniteSet(Writers) /\ Cardinality(Writers) \in Nat
    BY WritersFinite
  <2>3. Cardinality(Writers') = IF c \in Writers THEN Cardinality(Writers) - 1
                                ELSE Cardinality(Writers)
    BY <2>1, <2>2, FS_RemoveElement
  <2>4. dropped' = dropped + (IF c \in Writers THEN 1 ELSE 0)
    BY <1>1 DEF Writers
  <2>5. blen \in Nat /\ dropped \in Nat /\ blen' = blen
    BY <1>1 DEF Shape, Text
  <2> QED
    BY <2>2, <2>3, <2>4, <2>5 DEF Origin
<1> QED
  BY <1>5, <1>6

(* A connection that ends without a call, and a timer, move no block.      *)
LEMMA ForgetKeepsPool ==
  ASSUME Shape, Pool, NEW c \in Conns, Forget(c)
  PROVE  Pool' /\ (Origin => Origin')
<1>1. /\ conn[c].tcp \in {"closing", "finwait"}
      /\ conn' = [conn EXCEPT ![c] = Gone(conn[c], IF conn[c].tcp = "closing" THEN "closed" ELSE "forgotten")]
      /\ UNCHANGED <<used, block, blen, dropped, crashed>>
  BY DEF Forget, textVars
<1>2. /\ conn[c].tcp = "closing" => conn'[c].tcp = "closed"
      /\ conn[c].tcp = "finwait" => conn'[c].tcp = "forgotten" /\ conn'[c].s = conn[c].s
      /\ \A d \in Conns \ {c} : conn'[d] = conn[d]
  BY <1>1, GoneType DEF Shape
<1>3. \A d \in Conns : Holds(d)' => Holds(d) /\ conn'[d].s = conn[d].s
  BY <1>1, <1>2 DEF Holds
<1>4. \A d \in Conns : Holds(d) => Holds(d)' /\ conn'[d].s = conn[d].s
  BY <1>1, <1>2 DEF Holds
<1>5. Pool'
  BY <1>1, <1>2, <1>3, <1>4 DEF Pool, Underway
<1>6. Writers' = Writers
  BY <1>1, <1>2 DEF Writers
<1> QED
  BY <1>1, <1>5, <1>6 DEF Origin

LEMMA TimerKeepsPool ==
  ASSUME Shape, Pool, NEW s \in Blocks, TimerExpires(s)
  PROVE  Pool' /\ (Origin => Origin')
<1>1. /\ block' = [block EXCEPT ![s] = [block[s] EXCEPT !.expired = TRUE]]
      /\ UNCHANGED <<conn, used, blen, dropped, crashed>>
  BY DEF TimerExpires, textVars
<1>2. \A u \in Blocks : block'[u].at = block[u].at /\ block'[u].script = block[u].script
  BY <1>1, BlockTypes DEF Shape
<1>3. \A d \in Conns : conn[d].s \in Blocks
  BY DEF Shape, Connection
<1>4. Pool'
  BY <1>1, <1>2, <1>3 DEF Pool, Underway, Holds
<1>5. Writers' = Writers
  BY <1>1, <1>2, <1>3 DEF Writers
<1> QED
  BY <1>1, <1>4, <1>5 DEF Origin

(* Changes of the lists concern no block and no text.                      *)
LEMMA ListsChangeKeepsPool ==
  ASSUME Shape, Pool, ListsChange
  PROVE  Pool' /\ (Origin => Origin')
<1>1. UNCHANGED <<used, block, blen, dropped, crashed>>
  BY DEF ListsChange
<1>2. \A c \in Conns :
        conn'[c].tcp = conn[c].tcp /\ conn'[c].s = conn[c].s /\ conn'[c].flight = conn[c].flight
  BY DEF ListsChange, Shape, Connection
<1>3. Pool'
  <2>1. \A c \in Conns :
          conn'[c].tcp = "open" => Underway(block'[conn'[c].s], conn'[c].flight, "none")
    BY <1>1, <1>2 DEF Pool
  <2>2. \A c, d \in Conns : Holds(c)' /\ Holds(d)' /\ conn'[c].s = conn'[d].s => c = d
    BY <1>2 DEF Pool, Holds
  <2>3. \A c \in Conns : Holds(c)' => conn'[c].s \in used'
    BY <1>1, <1>2 DEF Pool, Holds
  <2>4. ASSUME NEW s \in used'
        PROVE  \E c \in Conns : Holds(c)' /\ conn'[c].s = s
    <3>1. PICK c \in Conns : Holds(c) /\ conn[c].s = s
      BY <1>1 DEF Pool
    <3> QED
      BY <1>2, <3>1 DEF Holds
  <2>5. \A c \in Conns : conn'[c].tcp = "closing" => conn'[c].s \notin used'
    BY <1>1, <1>2 DEF Pool
  <2> QED
    BY <1>1, <2>1, <2>2, <2>3, <2>4, <2>5 DEF Pool, Underway
<1>4. Writers' = Writers
  BY <1>1, <1>2 DEF Writers
<1> QED
  BY <1>1, <1>3, <1>4 DEF Origin

LEMMA PoolHolds == Spec => [](~reused => Pool /\ Origin)
<1>1. Init => (~reused => Pool /\ Origin)
  <2> SUFFICES ASSUME Init PROVE Pool /\ Origin
    OBVIOUS
  <2>1. Pool
    BY DEF Init, Pool, Holds
  <2>2. Writers = {}
    BY DEF Init, Writers
  <2> QED
    BY <2>1, <2>2, FS_EmptySet DEF Init, Origin
<1>2. Shape /\ (~reused => Pool /\ Origin) /\ [Next]_httpdVars => (~reused => Pool /\ Origin)'
  <2> SUFFICES ASSUME Shape, ~reused => Pool /\ Origin, [Next]_httpdVars, ~reused'
               PROVE  Pool' /\ Origin'
    OBVIOUS
  <2>1. ASSUME NEW c \in Conns, Connected(c)
        PROVE  Pool' /\ Origin'
    <3>1. ~reused
      BY <2>1 DEF Connected
    <3> QED
      BY <2>1, <3>1, ConnectedKeepsPool
  <2>2. ASSUME NEW c \in Conns, NewData(c) \/ Acked(c) \/ Rexmit(c) \/ Poll(c)
        PROVE  Pool' /\ Origin'
    <3>1. PICK cn \in Connection, b \in HttpdState, ws \in Seq(STRING),
               flag \in {"none", "acked", "rexmit"} : Serving(c, cn, b, ws, flag)
      BY <2>2, EveryCallServes
    <3>2. ~reused
      BY <3>1 DEF Serving
    <3> QED
      BY <3>1, <3>2, ServingKeepsPool
  <2>3. ASSUME NEW c \in Conns, NEW tcp \in {"closing", "closed"},
               conn[c].tcp \in {"open", "finwait", "closing"}, Ended(c, tcp)
        PROVE  Pool' /\ Origin'
    <3>1. ~reused
      BY <2>3 DEF Ended
    <3> QED
      BY <2>3, <3>1, EndedKeepsPool
  <2>4. ASSUME NEW c \in Conns, Forget(c)
        PROVE  Pool' /\ Origin'
    <3>1. ~reused
      BY <2>4 DEF Forget
    <3> QED
      BY <2>4, <3>1, ForgetKeepsPool
  <2>5. ASSUME NEW s \in Blocks, TimerExpires(s)
        PROVE  Pool' /\ Origin'
    <3>1. ~reused
      BY <2>5 DEF TimerExpires
    <3> QED
      BY <2>5, <3>1, TimerKeepsPool
  <2>6. CASE ListsChange
    <3>1. ~reused
      BY <2>6 DEF ListsChange
    <3> QED
      BY <2>6, <3>1, ListsChangeKeepsPool
  <2>7. CASE UNCHANGED httpdVars
    BY <2>7 DEF httpdVars, textVars, Pool, Holds, Origin, Writers, Underway
  <2> QED
    BY <2>1, <2>2, <2>3, <2>4, <2>5, <2>6, <2>7
    DEF Next, PeerCloses, ConnectionLost, EndsAgain
<1> QED
  BY <1>1, <1>2, ShapeHolds, PTL DEF Spec

(* A block in use has exactly one owner, until memb_alloc gives one away   *)
(* that a second end of a connection will free (httpd-simple.c:209-249).   *)
THEOREM HttpdPoolAccounts == Spec => []PoolAccounts
<1>1. (~reused => Pool /\ Origin) => PoolAccounts
  <2> SUFFICES ASSUME Pool, NEW s \in Blocks
               PROVE  Cardinality({c \in Conns : Holds(c) /\ conn[c].s = s})
                        = IF s \in used THEN 1 ELSE 0
    BY DEF PoolAccounts, Holds
  <2> DEFINE owners == {c \in Conns : Holds(c) /\ conn[c].s = s}
  <2>1. CASE s \in used
    <3>1. PICK c \in Conns : Holds(c) /\ conn[c].s = s
      BY <2>1 DEF Pool
    <3>2. owners = {c}
      BY <3>1 DEF Pool
    <3> HIDE DEF owners
    <3>3. Cardinality(owners) = 1
      BY <3>2, FS_Singleton
    <3> QED
      BY <2>1, <3>3 DEF owners
  <2>2. CASE s \notin used
    <3>1. owners = {}
      BY <2>2 DEF Pool
    <3> QED
      BY <2>2, <3>1, FS_EmptySet
  <2> QED
    BY <2>1, <2>2
<1> QED
  BY <1>1, PoolHolds, PTL

(* The script is called through a NULL pointer only after such a block was *)
(* given away: the poll that resets a silent connection takes its script   *)
(* only where no output has begun (httpd-simple.c:124-147, 234-245).       *)
THEOREM HttpdNeverCallsNull == Spec => []NeverCallsNull
<1>1. Shape /\ (~reused => Pool /\ Origin) => NeverCallsNull
  BY DEF Pool, NeverCallsNull, Shape
<1> QED
  BY <1>1, PoolHolds, ShapeHolds, PTL

(* The buffer holds no text but one piece for each connection inside SEND  *)
(* and for each that was dropped there (webserver.c:45-58).                *)
THEOREM HttpdTextHasOrigin == Spec => []TextHasOrigin
<1>1. (~reused => Pool /\ Origin) => TextHasOrigin
  BY DEF Origin, Writers, TextHasOrigin
<1> QED
  BY <1>1, PoolHolds, PTL

(* The text overruns the buffer only when leftovers of dropped connections *)
(* fill it: the connections that are served, however many and whatever     *)
(* they show, add no more than a piece each (webserver.c:45-53).           *)
THEOREM HttpdBufferHolds == Spec => []BufferHolds
<1>1. Init => BufferHolds
  BY DEF Init, BufferHolds
<1>2. Shape /\ (~reused => Pool /\ Origin) => (~reused => blen <= dropped + CONNS)
  <2> SUFFICES ASSUME Shape, Pool, Origin
               PROVE  blen <= dropped + CONNS
    OBVIOUS
  <2>1. Cardinality(Writers) \in Nat /\ Cardinality(Writers) <= CONNS
    BY WritersFinite
  <2>2. blen \in Nat /\ dropped \in Nat
    BY DEF Shape, Text
  <2> QED
    BY <2>1, <2>2, HttpdAssumption DEF Origin
<1>3. /\ BufferHolds /\ Shape /\ Shape' /\ (~reused => blen <= dropped + CONNS)'
      /\ [Next]_httpdVars
      => BufferHolds'
  <2> SUFFICES ASSUME BufferHolds, Shape, Shape', ~reused', blen' <= dropped' + CONNS,
                      [Next]_httpdVars, overrun'
               PROVE  (dropped + CONNS > Room)'
    BY DEF BufferHolds
  <2>1. CASE UNCHANGED httpdVars
    BY <2>1 DEF BufferHolds, httpdVars, textVars
  <2>2. CASE Next /\ blen' > Room
    <3>1. blen' \in Nat /\ dropped' \in Nat
      BY DEF Shape, Text
    <3>2. CONNS \in Nat /\ Room \in Nat
      BY HttpdAssumption
    <3>3. blen' > Room /\ blen' <= dropped' + CONNS
      BY <2>2
    <3>4. \A x, y \in Nat : x > Room /\ x <= y + CONNS => y + CONNS > Room
      BY <3>2
    <3> QED
      BY <3>1, <3>3, <3>4
  <2>3. ASSUME Next
        PROVE  blen' > Room
    <3>1. ~overrun
      BY <2>3 DEF Next, Running
    <3>2. PICK c \in Conns : NewData(c) \/ Acked(c) \/ Rexmit(c) \/ Poll(c)
      BY <2>3, <3>1
      DEF Next, Connected, PeerCloses, ConnectionLost, EndsAgain, Ended, Forget, TimerExpires,
          ListsChange, textVars
    <3>3. PICK cn \in Connection, b \in HttpdState, ws \in Seq(STRING),
               flag \in {"none", "acked", "rexmit"} : Serving(c, cn, b, ws, flag)
      BY <3>2, EveryCallServes
    <3>4. ~Struck(b)
      BY <3>1 DEF Struck, textVars
    <3>5. PICK cn2 \in Connection, b2 \in HttpdState : Overran(b2)
      BY <3>3, <3>4 DEF Serving, Continued, Handled
    <3> QED
      BY <3>1, <3>5 DEF Overran
  <2> QED
    BY <2>1, <2>2, <2>3
<1> QED
  BY <1>1, <1>2, <1>3, ShapeHolds, PoolHolds, PTL DEF Spec


-----------------------------------------------------------------------------
(* The order of the page. *)

(* The piece that comes after p when the lists have the lengths T. *)
After(T, p) ==
  CASE p[1] = "headers" -> <<"top", 0, 0>>
    [] p[1] = "top" -> <<"head", 1, 0>>
    [] p[1] \in {"head", "row"} -> IF p[3] < T[p[2]] THEN <<"row", p[2], p[3] + 1>>
                                                          ELSE <<"end", p[2], 0>>
    [] p[1] = "end" -> IF p[2] < Len(T) THEN <<"head", p[2] + 1, 0>> ELSE <<"bottom", 0, 0>>

(* s is the part of the page from piece a to piece z. *)
Part(T, s, a, z) ==
  /\ s \in Seq(Pieces) /\ s # <<>>
  /\ s[1] = a /\ s[Len(s)] = z
  /\ \A i \in 1 .. Len(s) - 1 : s[i][1] # "bottom" /\ s[i + 1] = After(T, s[i])

Headers == <<"headers", 0, 0>>
Bottom == <<"bottom", 0, 0>>

(* A piece alone is a part of the page. *)
LEMMA PartOfOne ==
  ASSUME NEW T, NEW p \in Pieces
  PROVE  Part(T, <<p>>, p, p)
BY DEF Part

(* Two parts join if one begins after the end of the other. *)
LEMMA PartsJoin ==
  ASSUME NEW T, NEW s, NEW t, NEW a, NEW y, NEW z,
         Part(T, s, a, y), y[1] # "bottom", Part(T, t, After(T, y), z)
  PROVE  Part(T, s \o t, a, z)
<1>1. /\ s \in Seq(Pieces) /\ s # <<>> /\ s[1] = a /\ s[Len(s)] = y
      /\ t \in Seq(Pieces) /\ t # <<>> /\ t[1] = After(T, y) /\ t[Len(t)] = z
      /\ \A i \in 1 .. Len(s) - 1 : s[i][1] # "bottom" /\ s[i + 1] = After(T, s[i])
      /\ \A i \in 1 .. Len(t) - 1 : t[i][1] # "bottom" /\ t[i + 1] = After(T, t[i])
  BY DEF Part
<1> DEFINE u == s \o t
<1>2. /\ u \in Seq(Pieces) /\ Len(u) = Len(s) + Len(t)
      /\ \A i \in 1 .. Len(s) : u[i] = s[i]
      /\ \A i \in 1 .. Len(u) : i > Len(s) => u[i] = t[i - Len(s)]
  BY <1>1, ConcatProperties
<1>3. Len(s) \in Nat \ {0} /\ Len(t) \in Nat \ {0}
  BY <1>1, EmptySeq
<1> HIDE DEF u
<1>4. u # <<>> /\ u[1] = a /\ u[Len(u)] = z
  <2>1. /\ 1 \in 1 .. Len(s) /\ Len(u) \in 1 .. Len(u) /\ Len(u) > Len(s)
        /\ Len(u) - Len(s) = Len(t)
    BY <1>2, <1>3
  <2>2. u[1] = a
    BY <1>1, <1>2, <2>1
  <2>3. u[Len(u)] = z
    BY <1>1, <1>2, <2>1
  <2>4. u # <<>>
    BY <1>2, <2>1, EmptySeq
  <2> QED
    BY <2>2, <2>3, <2>4
<1>5. ASSUME NEW i \in 1 .. Len(u) - 1
      PROVE  u[i][1] # "bottom" /\ u[i + 1] = After(T, u[i])
  <2>1. CASE i < Len(s)
    <3>1. i \in 1 .. Len(s) - 1 /\ i \in 1 .. Len(s) /\ i + 1 \in 1 .. Len(s)
      BY <1>2, <1>3, <2>1
    <3> QED
      BY <1>1, <1>2, <3>1
  <2>2. CASE i = Len(s)
    <3>1. i \in 1 .. Len(s) /\ i + 1 \in 1 .. Len(u) /\ i + 1 > Len(s) /\ (i + 1) - Len(s) = 1
      BY <1>2, <1>3, <2>2
    <3>2. u[i] = y /\ u[i + 1] = t[1]
      BY <1>1, <1>2, <2>2, <3>1
    <3> QED
      BY <1>1, <3>2
  <2>3. CASE i > Len(s)
    <3> DEFINE j == i - Len(s)
    <3>1. /\ j \in 1 .. Len(t) - 1 /\ (i + 1) - Len(s) = j + 1
          /\ i \in 1 .. Len(u) /\ i + 1 \in 1 .. Len(u) /\ i + 1 > Len(s)
      BY <1>2, <1>3, <2>3
    <3>2. u[i] = t[j] /\ u[i + 1] = t[j + 1]
      BY <1>2, <2>3, <3>1
    <3> HIDE DEF j
    <3> QED
      BY <1>1, <3>1, <3>2
  <2> QED
    BY <1>2, <1>3, <2>1, <2>2, <2>3
<1> QED
  BY <1>2, <1>4, <1>5 DEF Part, u

(* What begins with the headers is a prefix of the whole page, and all of  *)
(* it if it ends at the bottom.                                            *)
LEMMA PartsAgree ==
  ASSUME NEW T, NEW s, NEW t, NEW y, NEW z,
         Part(T, s, Headers, y), Part(T, t, Headers, z), z[1] = "bottom"
  PROVE  IsPrefix(s, t) /\ (y[1] = "bottom" => s = t)
<1>1. /\ s \in Seq(Pieces) /\ s # <<>> /\ s[1] = Headers /\ s[Len(s)] = y
      /\ t \in Seq(Pieces) /\ t # <<>> /\ t[1] = Headers /\ t[Len(t)] = z
      /\ \A i \in 1 .. Len(s) - 1 : s[i][1] # "bottom" /\ s[i + 1] = After(T, s[i])
      /\ \A i \in 1 .. Len(t) - 1 : t[i][1] # "bottom" /\ t[i + 1] = After(T, t[i])
  BY DEF Part
<1>2. Len(s) \in Nat \ {0} /\ Len(t) \in Nat \ {0}
  BY <1>1, EmptySeq
<1> DEFINE Same(i) == i <= Len(t) /\ s[i] = t[i]
           Wrong == {i \in 1 .. Len(s) : ~Same(i)}
<1>3. Wrong = {}
  <2>1. SUFFICES ASSUME Wrong # {}
                 PROVE  FALSE
    OBVIOUS
  <2>2. Wrong \subseteq Nat
    BY <1>2
  <2>3. PICK i \in Wrong : \A j \in Wrong : i <= j
    BY <2>1, <2>2, Smallest
  <2>4. i \in 1 .. Len(s) /\ ~Same(i)
    BY <2>3
  <2>5. i # 1
    BY <1>1, <1>2, <2>4
  <2>6. i - 1 \in 1 .. Len(s) - 1 /\ i - 1 \in 1 .. Len(s) /\ ~(i <= i - 1)
    BY <1>2, <2>4, <2>5
  <2>7. Same(i - 1)
    <3> HIDE DEF Same
    <3>1. i - 1 \notin Wrong
      BY <2>3, <2>6
    <3> QED
      BY <2>6, <3>1
  <2>8. s[i - 1][1] # "bottom" /\ s[(i - 1) + 1] = After(T, s[i - 1])
    BY <1>1, <2>6
  <2>9. i - 1 # Len(t)
    BY <1>1, <2>7, <2>8
  <2>10. i - 1 \in 1 .. Len(t) - 1 /\ (i - 1) + 1 = i /\ i <= Len(t)
    BY <1>2, <2>6, <2>7, <2>9
  <2>11. t[(i - 1) + 1] = After(T, t[i - 1])
    BY <1>1, <2>10
  <2> QED
    BY <2>4, <2>7, <2>8, <2>10, <2>11
<1>4. \A i \in 1 .. Len(s) : i <= Len(t) /\ s[i] = t[i]
  BY <1>3
<1>5. Len(s) <= Len(t)
  BY <1>2, <1>4
<1>6. SubSeq(s, 1, Len(s)) = SubSeq(t, 1, Len(s))
  BY <1>1, <1>2, <1>4, <1>5, SubSeqProperties
<1>7. ASSUME y[1] = "bottom"
      PROVE  s = t
  <2>1. t[Len(s)][1] = "bottom"
    BY <1>1, <1>2, <1>4, <1>7
  <2>2. Len(s) = Len(t)
    BY <1>1, <1>2, <1>5, <2>1
  <2> QED
    BY <1>1, <1>2, <1>4, <2>2
<1> QED
  BY <1>5, <1>6, <1>7 DEF IsPrefix

(* The pieces the page is made of. *)
LEMMA PiecesOfPage ==
  /\ Headers \in Pieces /\ <<"top", 0, 0>> \in Pieces /\ Bottom \in Pieces
  /\ \A T \in Tables : \A k \in DOMAIN T :
       /\ <<"head", k, 0>> \in Pieces /\ <<"end", k, 0>> \in Pieces
       /\ \A i \in 1 .. T[k] : <<"row", k, i>> \in Pieces
<1>1. 0 \in 0 .. Lists /\ 0 \in 0 .. 2 * MostRows
  BY HttpdAssumption
<1>2. {"headers", "top", "head", "row", "end", "bottom"} \subseteq Segments
  BY DEF Segments, InScript, Buffered
<1>3. ASSUME NEW T \in Tables, NEW k \in DOMAIN T
      PROVE  /\ k \in 0 .. Lists
             /\ \A i \in 1 .. T[k] : i \in 0 .. 2 * MostRows
  <2>1. k \in 1 .. Lists /\ T[k] \in 0 .. MostRows
    BY TableType
  <2> QED
    BY <2>1, HttpdAssumption
<1> QED
  BY <1>1, <1>2, <1>3 DEF Pieces, Headers, Bottom

(* The rows of list k, and the whole list. *)
Rows(T, k) == [i \in 1 .. T[k] |-> <<"row", k, i>>]
List(T, k) == <<<<"head", k, 0>>>> \o Rows(T, k) \o <<<<"end", k, 0>>>>

(* A list is a part of the page, from its head to its end. *)
LEMMA ListIsPart ==
  ASSUME NEW T \in Tables, NEW k \in DOMAIN T
  PROVE  Part(T, List(T, k), <<"head", k, 0>>, <<"end", k, 0>>)
<1>1. T[k] \in Nat
  BY TableType
<1>2. Part(T, <<<<"head", k, 0>>>>, <<"head", k, 0>>, <<"head", k, 0>>)
  BY PartOfOne, PiecesOfPage
<1>3. Part(T, <<<<"end", k, 0>>>>, <<"end", k, 0>>, <<"end", k, 0>>)
  BY PartOfOne, PiecesOfPage
<1>4. CASE T[k] = 0
  <2>1. Rows(T, k) = <<>>
    BY <1>4 DEF Rows
  <2>2. <<<<"head", k, 0>>>> \o Rows(T, k) = <<<<"head", k, 0>>>>
    BY <1>2, <2>1, ConcatEmptySeq DEF Part
  <2>3. After(T, <<"head", k, 0>>) = <<"end", k, 0>>
    BY <1>4 DEF After
  <2>4. <<"head", k, 0>>[1] # "bottom"
    OBVIOUS
  <2> QED
    BY <1>2, <1>3, <2>2, <2>3, <2>4, PartsJoin DEF List
<1>5. CASE T[k] # 0
  <2>1. Rows(T, k) \in Seq(Pieces) /\ Len(Rows(T, k)) = T[k]
    <3>1. \A i \in 1 .. T[k] : <<"row", k, i>> \in Pieces
      BY PiecesOfPage
    <3>2. Rows(T, k) \in [1 .. T[k] -> Pieces]
      BY <3>1 DEF Rows
    <3> QED
      BY <1>1, <3>2
  <2>2. \A i \in 1 .. T[k] : Rows(T, k)[i] = <<"row", k, i>>
    BY DEF Rows
  <2>3. ASSUME NEW i \in 1 .. T[k] - 1
        PROVE  Rows(T, k)[i][1] # "bottom" /\ Rows(T, k)[i + 1] = After(T, Rows(T, k)[i])
    <3>1. i \in 1 .. T[k] /\ i + 1 \in 1 .. T[k] /\ i < T[k]
      BY <1>1
    <3>2. After(T, <<"row", k, i>>) = <<"row", k, i + 1>>
      BY <3>1 DEF After
    <3> QED
      BY <2>2, <3>1, <3>2
  <2>4. Part(T, Rows(T, k), <<"row", k, 1>>, <<"row", k, T[k]>>)
    <3>1. 1 \in 1 .. T[k] /\ T[k] \in 1 .. T[k]
      BY <1>1, <1>5
    <3>2. Rows(T, k) # <<>>
      BY <1>5, <2>1
    <3> QED
      BY <2>1, <2>2, <2>3, <3>1, <3>2 DEF Part
  <2>5. After(T, <<"head", k, 0>>) = <<"row", k, 1>>
    BY <1>1, <1>5 DEF After
  <2>6. After(T, <<"row", k, T[k]>>) = <<"end", k, 0>>
    BY <1>1 DEF After
  <2>7. <<"head", k, 0>>[1] # "bottom" /\ <<"row", k, T[k]>>[1] # "bottom"
    OBVIOUS
  <2>8. Part(T, <<<<"head", k, 0>>>> \o Rows(T, k), <<"head", k, 0>>, <<"row", k, T[k]>>)
    BY <1>2, <2>4, <2>5, <2>7, PartsJoin
  <2> QED
    BY <1>3, <2>6, <2>7, <2>8, PartsJoin DEF List
<1> QED
  BY <1>4, <1>5

(* FlattenSeq is defined by recursion: there is a function that does as    *)
(* its definition says.                                                    *)
Flattens(f, seqs, n) ==
  f = [i \in 1 .. n |-> IF i = 1 THEN seqs[i] ELSE f[i - 1] \o seqs[i]]

LEMMA FlattenExists ==
  ASSUME NEW seqs, NEW n \in Nat
  PROVE  \E f : Flattens(f, seqs, n)
<1> DEFINE Wrong == {m \in Nat : ~\E f : Flattens(f, seqs, m)}
<1>1. SUFFICES ASSUME Wrong # {}
               PROVE  FALSE
  OBVIOUS
<1>2. PICK m \in Wrong : \A j \in Wrong : m <= j
  BY <1>1, Smallest
<1>3. m \in Nat /\ ~\E f : Flattens(f, seqs, m)
  BY <1>2
<1>4. m # 0
  <2>1. Flattens([i \in 1 .. 0 |-> i], seqs, 0)
    BY DEF Flattens
  <2> QED
    BY <1>3, <2>1
<1>5. m - 1 \in Nat /\ ~(m <= m - 1)
  BY <1>3, <1>4
<1>6. PICK f : Flattens(f, seqs, m - 1)
  BY <1>2, <1>5
<1> DEFINE g == [i \in 1 .. m |-> IF i = m THEN IF i = 1 THEN seqs[i] ELSE f[i - 1] \o seqs[i]
                                           ELSE f[i]]
<1>7. ASSUME NEW i \in 1 .. m
      PROVE  g[i] = IF i = 1 THEN seqs[i] ELSE g[i - 1] \o seqs[i]
  <2>1. CASE i = m
    <3>1. i # 1 => i - 1 \in 1 .. m /\ i - 1 # m
      BY <1>3, <2>1
    <3> QED
      BY <2>1, <3>1
  <2>2. CASE i # m
    <3>1. i \in 1 .. m - 1 /\ (i # 1 => i - 1 \in 1 .. m /\ i - 1 # m)
      BY <1>3, <2>2
    <3>2. f[i] = IF i = 1 THEN seqs[i] ELSE f[i - 1] \o seqs[i]
      BY <1>6, <3>1 DEF Flattens
    <3> QED
      BY <2>2, <3>1, <3>2
  <2> QED
    BY <2>1, <2>2
<1>8. Flattens(g, seqs, m)
  <2>1. g = [i \in 1 .. m |-> g[i]]
    OBVIOUS
  <2> HIDE DEF g
  <2> QED
    BY <1>7, <2>1 DEF Flattens
<1> QED
  BY <1>3, <1>8

(* So are the lists one after the other. *)
LEMMA ListsArePart ==
  ASSUME NEW T \in Tables
  PROVE  Part(T, FlattenSeq([k \in DOMAIN T |-> List(T, k)]), <<"head", 1, 0>>, <<"end", Len(T), 0>>)
<1> DEFINE seqs == [k \in DOMAIN T |-> List(T, k)]
           n == Len(T)
           f == CHOOSE f : Flattens(f, seqs, n)
<1>1. n \in Nat \ {0} /\ DOMAIN T = 1 .. n
  BY TableType
<1>2. Len(seqs) = n
  BY <1>1
<1>3. Flattens(f, seqs, n)
  <2> HIDE DEF seqs, n
  <2> QED
    BY <1>1, FlattenExists
<1>4. FlattenSeq(seqs) = f[n]
  <2> HIDE DEF seqs, n
  <2> QED
    BY <1>1, <1>2 DEF FlattenSeq, Flattens
<1>5. \A i \in 1 .. n : f[i] = IF i = 1 THEN seqs[i] ELSE f[i - 1] \o seqs[i]
  <2> HIDE DEF seqs, n, f
  <2> QED
    BY <1>3 DEF Flattens
<1>6. \A i \in 1 .. n : Part(T, seqs[i], <<"head", i, 0>>, <<"end", i, 0>>)
  BY <1>1, ListIsPart
<1> HIDE DEF seqs, f
<1> DEFINE Good(i) == Part(T, f[i], <<"head", 1, 0>>, <<"end", i, 0>>)
           Wrong == {i \in 1 .. n : ~Good(i)}
<1>7. Wrong = {}
  <2>1. SUFFICES ASSUME Wrong # {}
                 PROVE  FALSE
    OBVIOUS
  <2>2. Wrong \subseteq Nat
    BY <1>1
  <2>3. PICK i \in Wrong : \A j \in Wrong : i <= j
    BY <2>1, <2>2, Smallest
  <2>4. i \in 1 .. n /\ ~Good(i)
    BY <2>3
  <2>5. i # 1
    BY <1>1, <1>5, <1>6, <2>4
  <2>6. i - 1 \in 1 .. n /\ ~(i <= i - 1) /\ i - 1 < n
    BY <1>1, <2>4, <2>5
  <2>7. Good(i - 1)
    <3> HIDE DEF Good
    <3> QED
      BY <2>3, <2>6
  <2>8. f[i] = f[i - 1] \o seqs[i]
    BY <1>5, <2>4, <2>5
  <2>9. After(T, <<"end", i - 1, 0>>) = <<"head", i, 0>> /\ <<"end", i - 1, 0>>[1] # "bottom"
    BY <2>4, <2>6 DEF After
  <2>10. Part(T, f[i - 1] \o seqs[i], <<"head", 1, 0>>, <<"end", i, 0>>)
    BY <1>6, <2>4, <2>7, <2>9, PartsJoin
  <2> QED
    BY <2>4, <2>8, <2>10
<1>8. Good(n)
  BY <1>1, <1>7
<1> QED
  BY <1>4, <1>8 DEF seqs

(* And so is the whole page. *)
LEMMA WholePageIsPart ==
  ASSUME table \in Tables
  PROVE  Part(table, WholePage, Headers, Bottom)
<1> DEFINE lists == FlattenSeq([k \in DOMAIN table |-> List(table, k)])
           n == Len(table)
<1>1. WholePage = <<Headers, <<"top", 0, 0>>>> \o lists \o <<Bottom>>
  BY DEF WholePage, List, Rows, Headers, Bottom
<1>2. Part(table, lists, <<"head", 1, 0>>, <<"end", n, 0>>)
  BY ListsArePart
<1> HIDE DEF lists
<1>3. Part(table, <<Headers, <<"top", 0, 0>>>>, Headers, <<"top", 0, 0>>)
  BY PiecesOfPage DEF Part, After, Headers
<1>4. After(table, <<"top", 0, 0>>) = <<"head", 1, 0>> /\ <<"top", 0, 0>>[1] # "bottom"
  BY DEF After
<1>5. After(table, <<"end", n, 0>>) = Bottom /\ <<"end", n, 0>>[1] # "bottom"
  BY TableType DEF After, Bottom
<1>6. Part(table, <<Bottom>>, Bottom, Bottom)
  BY PartOfOne, PiecesOfPage
<1>7. Part(table, <<Headers, <<"top", 0, 0>>>> \o lists, Headers, <<"end", n, 0>>)
  BY <1>2, <1>3, <1>4, PartsJoin
<1> QED
  BY <1>1, <1>5, <1>6, <1>7, PartsJoin

-----------------------------------------------------------------------------
(* The page of a connection that is alone. *)

(* Where a block is on the page, in pieces. *)
Place(b) == Piece(b.at, b.k, row)

(* All pieces up to the block's place are with the peer or on their way to *)
(* it, and the text is that of the block or none.                          *)
UpTo(b, page) ==
  /\ b.at # "idle"
  /\ Part(table, page, Headers, Place(b))
  /\ b.at \in Buffered => b.k \in DOMAIN table
  /\ b.at = "row" => row[b.k] \in 1 .. table[b.k]
  /\ IF b.at \in Buffered THEN buf = <<Place(b)>> ELSE blen = 0

NotBegun(cn, b) == b.at = "idle" /\ cn.page = <<>> /\ cn.flight = <<>> /\ blen = 0

(* A page is not begun, under way piece by piece, or over.                 *)
OnPage(cn, b) ==
  \/ cn.tcp = "open" /\ NotBegun(cn, b)
  \/ /\ cn.tcp = "open"
     /\ b.len = 1 /\ cn.flight = <<Place(b)>>
     /\ UpTo(b, cn.page \o cn.flight)
  \/ /\ cn.tcp = "finwait" /\ cn.flight = <<>>
     /\ cn.page = <<>> \/ \E z : Part(table, cn.page, Headers, z) /\ z[1] = "bottom"

(* An acknowledgement has come in.                                         *)
Delivered(cn, b) == cn.tcp = "open" /\ cn.flight = <<>> /\ UpTo(b, cn.page)

(* From one segment to the next there is one piece (webserver.c:84-156).   *)
LEMMA NextPlace ==
  ASSUME NEW b \in HttpdState, Iterators, NEW r \in Step(b), b.at \notin {"idle", "bottom"},
         b.at \in Buffered => b.k \in DOMAIN table,
         b.at = "row" => row[b.k] \in 1 .. table[b.k]
  PROVE  \E at \in Segments, k \in 0 .. Lists :
           /\ Follow(b, r) = <<at, k>>
           /\ Piece(at, k, r) = After(table, Place(b))
           /\ at \in Buffered => k \in DOMAIN table
           /\ at = "row" => r[k] \in 1 .. table[k]
           /\ at \notin Buffered => at = "top" \/ b.at \in Buffered
<1>a. /\ Lists \in Nat /\ MostRows \in Nat
      /\ Len(table) \in Nat \ {0} /\ DOMAIN table = 1 .. Len(table) /\ Len(table) \in 1 .. Lists
      /\ \A k \in DOMAIN table : table[k] \in Nat /\ table[k] \in 0 .. MostRows
                                /\ k \in 1 .. Lists /\ Length(k) = table[k]
  BY TableType, HttpdAssumption DEF Iterators, Length
<1> USE <1>a DEF Segments, InScript, Buffered, Place, Piece
<1>0. b.at \in {"headers", "top", "head", "row", "end"}
  BY DEF HttpdState
<1>1. CASE b.at = "headers"
  <2>1. Follow(b, r) = <<"top", 0>> /\ After(table, Place(b)) = <<"top", 0, 0>>
    BY <1>1 DEF Follow, After
  <2> QED
    BY <2>1
<1>2. CASE b.at = "top"
  <2>1. Follow(b, r) = <<"head", 1>> /\ After(table, Place(b)) = <<"head", 1, 0>>
    BY <1>2 DEF Follow, After
  <2> QED
    BY <2>1
<1>3. CASE b.at = "head"
  <2>1. r = [row EXCEPT ![b.k] = IF Length(b.k) > 0 THEN 1 ELSE 0]
    BY <1>3 DEF Step
  <2>2. b.k \in DOMAIN table /\ table[b.k] \in Nat
    BY <1>3
  <2>3. r[b.k] = IF table[b.k] > 0 THEN 1 ELSE 0
    BY <2>1, <2>2 DEF Iterators, InsideLists
  <2>4. Follow(b, r) = <<IF r[b.k] # 0 THEN "row" ELSE "end", b.k>>
    BY <1>3 DEF Follow
  <2>5. After(table, Place(b)) = IF 0 < table[b.k] THEN <<"row", b.k, 1>> ELSE <<"end", b.k, 0>>
    BY <1>3 DEF After
  <2>6. b.k \in 0 .. Lists
    BY <2>2
  <2>7. CASE 0 < table[b.k]
    <3>1. /\ Follow(b, r) = <<"row", b.k>> /\ r[b.k] \in 1 .. table[b.k]
          /\ Piece("row", b.k, r) = After(table, Place(b))
      BY <2>2, <2>3, <2>4, <2>5, <2>7
    <3> QED
      BY <1>3, <2>2, <2>6, <3>1
  <2>8. CASE ~(0 < table[b.k])
    <3>1. /\ Follow(b, r) = <<"end", b.k>>
          /\ Piece("end", b.k, r) = After(table, Place(b))
      BY <2>2, <2>3, <2>4, <2>5, <2>8
    <3> QED
      BY <1>3, <2>2, <2>6, <3>1
  <2> QED
    BY <2>7, <2>8
<1>4. CASE b.at = "row"
  <2>1. PICK i \in Successors(b.k) : r = [row EXCEPT ![b.k] = i]
    BY <1>4 DEF Step
  <2>2. /\ b.k \in DOMAIN table /\ table[b.k] \in Nat /\ row[b.k] \in 1 .. table[b.k]
        /\ Length(b.k) = table[b.k] /\ row[b.k] \notin Removed
    BY <1>4 DEF Removed
  <2>3. r[b.k] = IF row[b.k] < table[b.k] THEN row[b.k] + 1 ELSE 0
    <3>1. i = IF row[b.k] \in 1 .. table[b.k] - 1 THEN row[b.k] + 1 ELSE 0
      BY <2>2 DEF Successors
    <3>2. r[b.k] = i
      BY <2>1, <2>2 DEF Iterators, InsideLists
    <3> QED
      BY <2>2, <3>1, <3>2
  <2>4. Follow(b, r) = <<IF r[b.k] # 0 THEN "row" ELSE "end", b.k>>
    BY <1>4 DEF Follow
  <2>5. After(table, Place(b)) = IF row[b.k] < table[b.k] THEN <<"row", b.k, row[b.k] + 1>>
                                                    ELSE <<"end", b.k, 0>>
    BY <1>4 DEF After
  <2>6. b.k \in 0 .. Lists
    BY <2>2
  <2>7. CASE row[b.k] < table[b.k]
    <3>1. /\ Follow(b, r) = <<"row", b.k>> /\ r[b.k] \in 1 .. table[b.k]
          /\ Piece("row", b.k, r) = After(table, Place(b))
      BY <2>2, <2>3, <2>4, <2>5, <2>7
    <3> QED
      BY <1>4, <2>2, <2>6, <3>1
  <2>8. CASE ~(row[b.k] < table[b.k])
    <3>1. /\ Follow(b, r) = <<"end", b.k>>
          /\ Piece("end", b.k, r) = After(table, Place(b))
      BY <2>2, <2>3, <2>4, <2>5, <2>8
    <3> QED
      BY <1>4, <2>2, <2>6, <3>1
  <2> QED
    BY <2>7, <2>8
<1>5. CASE b.at = "end"
  <2>1. Follow(b, r) = IF b.k < Len(table) THEN <<"head", b.k + 1>> ELSE <<"bottom", 0>>
    BY <1>5 DEF Follow
  <2>2. After(table, Place(b)) = IF b.k < Len(table) THEN <<"head", b.k + 1, 0>> ELSE <<"bottom", 0, 0>>
    BY <1>5 DEF After
  <2>3. CASE b.k < Len(table)
    <3>1. /\ Follow(b, r) = <<"head", b.k + 1>>
          /\ Piece("head", b.k + 1, r) = After(table, Place(b))
      BY <2>1, <2>2, <2>3
    <3>2. b.k + 1 \in DOMAIN table /\ b.k + 1 \in 0 .. Lists
      BY <1>5, <2>3
    <3> QED
      BY <1>5, <3>1, <3>2
  <2>4. CASE ~(b.k < Len(table))
    <3>1. /\ Follow(b, r) = <<"bottom", 0>>
          /\ Piece("bottom", 0, r) = After(table, Place(b))
      BY <2>1, <2>2, <2>4
    <3> QED
      BY <1>5, <3>1
  <2> QED
    BY <2>3, <2>4
<1> QED
  BY <1>0, <1>1, <1>2, <1>3, <1>4, <1>5

(* A connection cn that is served stays on its page and in its order.      *)
Went(c, s, cn) ==
  \E cn2, b2 :
    /\ conn' = [conn EXCEPT ![c] = cn2] /\ block' = [block EXCEPT ![s] = b2]
    /\ cn2.s = cn.s /\ cn2.lone = cn.lone /\ cn2.tcp \in {cn.tcp, "finwait"}
    /\ cn.lone => OnPage(cn2, b2)'
    /\ table' = table

(* What a step of the output that leads to segment at of list k does, and  *)
(* what it sends if there is no text in front of it.                       *)
Sent(c, s, cn, b, r, at, k, p, cn2, b2) ==
  /\ conn' = [conn EXCEPT ![c] = cn2] /\ block' = [block EXCEPT ![s] = b2]
  /\ row' = r /\ table' = table
  /\ b2.at = at /\ b2.k = k
  /\ cn2.s = cn.s /\ cn2.lone = cn.lone /\ cn2.page = cn.page
  /\ at = "idle" => cn2.tcp = "finwait" /\ cn2.flight = <<>>
  /\ at # "idle" => cn2.tcp = cn.tcp
  /\ at # "idle" /\ Kept(b) = 0 /\ p \in Pieces =>
       /\ cn2.flight = <<p>> /\ b2.len = 1
       /\ IF at \in Buffered THEN buf' = <<p>> ELSE blen' = 0

LEMMA SendsPiece ==
  ASSUME NEW c, NEW s, NEW cn \in Connection, NEW b \in HttpdState, NEW r,
         NEW at, NEW k, NEW p, Follow(b, r) = <<at, k>>, p = Piece(at, k, r),
         SendsNext(c, s, cn, b, r)
  PROVE  \E cn2, b2 : Sent(c, s, cn, b, r, at, k, p, cn2, b2)
<1> DEFINE text == (IF at \in Buffered THEN SubSeq(buf, 1, Kept(b)) ELSE <<>>) \o <<p>>
           b2 == [b EXCEPT !.at = at, !.k = k, !.len = Len(text),
                           !.script = ~(at = "idle") /\ (@ \/ b.at = "idle")]
           cn2 == IF at = "idle" THEN Closing(cn) ELSE [cn EXCEPT !.flight = text]
<1>1. /\ row' = r /\ table' = table
      /\ buf' = IF at \in Buffered THEN text ELSE buf
      /\ blen' = IF at \in Buffered THEN Len(text) ELSE Kept(b)
      /\ conn' = [conn EXCEPT ![c] = cn2] /\ block' = [block EXCEPT ![s] = b2]
  <2> DEFINE next == Follow(b, r)
  <2>1. next[1] = at /\ next[2] = k
    OBVIOUS
  <2> HIDE DEF next
  <2> QED
    BY <2>1 DEF SendsNext, next
<1>2. b2.at = at /\ b2.k = k /\ b2.len = Len(text)
  BY DEF HttpdState
<1>3. /\ cn2.s = cn.s /\ cn2.lone = cn.lone /\ cn2.page = cn.page
      /\ at = "idle" => cn2.tcp = "finwait" /\ cn2.flight = <<>>
      /\ at # "idle" => cn2.tcp = cn.tcp /\ cn2.flight = text
  BY DEF Closing, Connection
<1>4. ASSUME Kept(b) = 0, p \in Pieces
      PROVE  text = <<p>> /\ Len(text) = 1
  <2>1. SubSeq(buf, 1, 0) = <<>>
    BY SubSeqEmpty
  <2>2. <<p>> \in Seq(Pieces)
    BY <1>4
  <2>3. <<>> \o <<p>> = <<p>>
    BY <2>2, ConcatEmptySeq
  <2>4. text = <<p>>
    BY <1>4, <2>1, <2>3
  <2> QED
    BY <2>4
<1> HIDE DEF text, b2, cn2
<1>5. at # "idle" /\ Kept(b) = 0 /\ p \in Pieces =>
        /\ cn2.flight = <<p>> /\ b2.len = 1
        /\ IF at \in Buffered THEN buf' = <<p>> ELSE blen' = 0
  BY <1>1, <1>2, <1>3, <1>4
<1> QED
  BY <1>1, <1>2, <1>3, <1>5 DEF Sent

(* The output of a connection that is alone goes from piece to piece.      *)
LEMMA SendsOnPage ==
  ASSUME NEW c, NEW s, NEW cn \in Connection, NEW b \in HttpdState,
         Text, Settled(b),
         cn.lone => cn.tcp = "open" /\ (NotBegun(cn, b) \/ Delivered(cn, b)),
         Sends(c, s, cn, b)
  PROVE  Went(c, s, cn)
<1>0. Iterators /\ table \in Tables /\ (b.at \in Buffered => b.k \in 1 .. Lists)
  BY DEF Text, Settled, Iterators
<1>c. PICK r \in Step(b) : SendsNext(c, s, cn, b, r)
  BY DEF Sends
<1>1. PICK at \in Segments \cup {"idle"}, k \in 0 .. Lists : Follow(b, r) = <<at, k>>
  BY <1>0, FollowsPage
<1> DEFINE p == Piece(at, k, r)
<1>a. p = Piece(at, k, r)
  OBVIOUS
<1> HIDE DEF p
<1>b. PICK cn2, b2 : Sent(c, s, cn, b, r, at, k, p, cn2, b2)
  BY <1>1, <1>a, <1>c, SendsPiece
<1>2. /\ conn' = [conn EXCEPT ![c] = cn2] /\ block' = [block EXCEPT ![s] = b2]
      /\ row' = r /\ table' = table
      /\ b2.at = at /\ b2.k = k
      /\ cn2.s = cn.s /\ cn2.lone = cn.lone /\ cn2.page = cn.page
      /\ at = "idle" => cn2.tcp = "finwait" /\ cn2.flight = <<>>
      /\ at # "idle" => cn2.tcp = cn.tcp
      /\ at # "idle" /\ Kept(b) = 0 /\ p \in Pieces =>
           /\ cn2.flight = <<p>> /\ b2.len = 1
           /\ IF at \in Buffered THEN buf' = <<p>> ELSE blen' = 0
  BY <1>b DEF Sent
<1>3. Place(b2)' = p
  BY <1>2, <1>a DEF Place, Piece
<1>4. ASSUME cn.lone
      PROVE  OnPage(cn2, b2)'
  <2>1. cn.tcp = "open" /\ (NotBegun(cn, b) \/ Delivered(cn, b))
    BY <1>4
  <2>2. Kept(b) = 0
    BY <2>1 DEF Kept, NotBegun, Delivered, UpTo
  <2>3. ASSUME at # "idle", p \in Pieces, Part(table, cn.page \o <<p>>, Headers, p),
               at \in Buffered => k \in DOMAIN table,
               at = "row" => r[k] \in 1 .. table[k]
        PROVE  OnPage(cn2, b2)'
    <3>1. cn2.tcp = "open" /\ cn2.flight = <<p>> /\ b2.len = 1 /\ cn2.page = cn.page
      BY <1>2, <2>1, <2>2, <2>3
    <3>2. b2.at = at /\ b2.k = k /\ row' = r /\ table' = table
      BY <1>2
    <3>3. IF at \in Buffered THEN buf' = <<p>> ELSE blen' = 0
      BY <1>2, <2>2, <2>3
    <3>4. UpTo(b2, cn2.page \o cn2.flight)'
      BY <1>3, <2>3, <3>1, <3>2, <3>3 DEF UpTo
    <3> QED
      BY <1>3, <3>1, <3>4 DEF OnPage
  <2>4. CASE NotBegun(cn, b)
    <3>1. <<at, k>> = <<"headers", 0>>
      BY <1>1, <2>4 DEF NotBegun, Follow
    <3>2. at = "headers" /\ k = 0
      BY <3>1
    <3>3. p = Headers
      BY <3>2 DEF Piece, Headers, p
    <3>4. <<>> \o <<Headers>> = <<Headers>>
      <4>1. <<Headers>> \in Seq(Pieces)
        BY PiecesOfPage
      <4> QED
        BY <4>1, ConcatEmptySeq
    <3>5. Part(table, cn.page \o <<p>>, Headers, p) /\ p \in Pieces
      BY <2>4, <3>3, <3>4, PartOfOne, PiecesOfPage DEF NotBegun
    <3> QED
      BY <2>3, <3>2, <3>5 DEF Buffered
  <2>5. CASE Delivered(cn, b) /\ b.at = "bottom"
    <3>1. <<at, k>> = <<"idle", 0>>
      BY <1>1, <2>5 DEF Follow
    <3>2. at = "idle"
      BY <3>1
    <3>3. Part(table, cn.page, Headers, Place(b)) /\ Place(b)[1] = "bottom"
      BY <2>5 DEF Delivered, UpTo, Place, Piece
    <3> QED
      BY <1>2, <3>2, <3>3 DEF OnPage
  <2>6. CASE Delivered(cn, b) /\ b.at # "bottom"
    <3>1. /\ b.at \notin {"idle", "bottom"}
          /\ (b.at \in Buffered => b.k \in DOMAIN table)
          /\ (b.at = "row" => row[b.k] \in 1 .. table[b.k])
      BY <2>6 DEF Delivered, UpTo
    <3>2. PICK at1 \in Segments, k1 \in 0 .. Lists :
            /\ Follow(b, r) = <<at1, k1>>
            /\ Piece(at1, k1, r) = After(table, Place(b))
            /\ at1 \in Buffered => k1 \in DOMAIN table
            /\ at1 = "row" => r[k1] \in 1 .. table[k1]
      BY <1>0, <3>1, NextPlace
    <3>3. at1 = at /\ k1 = k
      BY <1>1, <3>2
    <3>4. at # "idle"
      BY <3>2, <3>3 DEF Segments, InScript, Buffered
    <3>5. InsideLists(r) /\ (at \in Buffered => k \in 1 .. Lists)
      BY <1>0, <3>2, <3>3, StepKeepsIterators, TableType
    <3>6. p \in Pieces
      BY <1>0, <3>2, <3>3, <3>5, PieceType DEF p
    <3>7. Part(table, cn.page, Headers, Place(b)) /\ Place(b)[1] # "bottom"
      BY <2>6 DEF Delivered, UpTo, Place, Piece
    <3>8. Part(table, <<p>>, After(table, Place(b)), p)
      BY <3>2, <3>3, <3>6, PartOfOne DEF p
    <3>9. Part(table, cn.page \o <<p>>, Headers, p)
      BY <3>7, <3>8, PartsJoin
    <3> QED
      BY <2>3, <3>2, <3>3, <3>4, <3>6, <3>9
  <2> QED
    BY <2>1, <2>4, <2>5, <2>6
<1> QED
  BY <1>2, <1>4 DEF Went

(* What is expected of a connection that is handled with flag.             *)
Awaits(cn, b, flag) ==
  IF flag = "acked" THEN Delivered(cn, b) ELSE cn.tcp = "open" /\ OnPage(cn, b)

(* handle_output keeps to the page (httpd-simple.c). *)
LEMMA OutputOnPage ==
  ASSUME NEW c, NEW s, NEW cn \in Connection, NEW b \in HttpdState,
         NEW flag \in {"none", "acked", "rexmit"},
         Text, Settled(b), cn.lone => Awaits(cn, b, flag),
         HandleOutput(c, s, cn, b, flag)
  PROVE  Went(c, s, cn) \/ UNCHANGED <<conn, block, textVars>>
<1> DEFINE null == ~b.script /\ (b.at \in InScript \/ (b.at = "headers" /\ flag = "acked"))
<1>1. CASE null
  BY <1>1, Zenon DEF HandleOutput
<1>2. CASE ~null /\ (b.at = "idle" \/ flag = "acked")
  <2>1. Sends(c, s, cn, b)
    BY <1>2, Zenon DEF HandleOutput
  <2>2. cn.lone => cn.tcp = "open" /\ (NotBegun(cn, b) \/ Delivered(cn, b))
    BY <1>2 DEF Awaits, OnPage, Delivered, UpTo
  <2> QED
    BY <2>1, <2>2, SendsOnPage
<1>3. CASE ~null /\ ~(b.at = "idle" \/ flag = "acked")
  <2>1. PICK flight \in {cn.flight, Again(cn, b)} :
          conn' = [conn EXCEPT ![c] = [cn EXCEPT !.flight = IF flag = "rexmit" THEN flight ELSE @]]
    BY <1>3, Zenon DEF HandleOutput
  <2>2. block' = [block EXCEPT ![s] = b] /\ UNCHANGED textVars
    BY <1>3, Zenon DEF HandleOutput
  <2> DEFINE cn2 == [cn EXCEPT !.flight = IF flag = "rexmit" THEN flight ELSE @]
  <2>3. /\ cn2.s = cn.s /\ cn2.lone = cn.lone /\ cn2.tcp = cn.tcp /\ cn2.page = cn.page
        /\ cn2.flight \in {cn.flight, flight}
    BY DEF Connection
  <2>4. ASSUME cn.lone
        PROVE  OnPage(cn2, b)'
    <3>1. cn.tcp = "open" /\ OnPage(cn, b) /\ b.at # "idle"
      BY <1>3, <2>4 DEF Awaits
    <3>2. b.len = 1 /\ cn.flight = <<Place(b)>> /\ UpTo(b, cn.page \o cn.flight)
      BY <3>1 DEF OnPage, NotBegun
    <3>3. Again(cn, b) = cn.flight
      <4>1. CASE b.at \in Buffered
        <5>1. buf = <<Place(b)>> /\ buf \in Seq(Pieces)
          BY <3>2, <4>1 DEF UpTo, Text
        <5>2. Min({1, Len(buf)}) = 1
          BY <5>1, MinOfTwo
        <5>3. SubSeq(buf, 1, 1) = buf
          <6>1. Len(buf) = 1 /\ \A i \in 1 .. 1 : buf[i] \in Pieces
            BY <5>1
          <6>2. /\ SubSeq(buf, 1, 1) \in Seq(Pieces) /\ Len(SubSeq(buf, 1, 1)) = 1
                /\ SubSeq(buf, 1, 1)[1] = buf[1]
            BY <6>1, SubSeqProperties
          <6>3. Len(SubSeq(buf, 1, 1)) = Len(buf)
            BY <6>1, <6>2
          <6>4. \A i \in 1 .. Len(SubSeq(buf, 1, 1)) : SubSeq(buf, 1, 1)[i] = buf[i]
            BY <6>2
          <6> QED
            BY <5>1, <6>2, <6>3, <6>4, SeqEqual
        <5> QED
          BY <3>2, <4>1, <5>1, <5>2, <5>3 DEF Again
      <4>2. CASE b.at \notin Buffered
        BY <4>2 DEF Again
      <4> QED
        BY <4>1, <4>2
    <3>4. cn2.flight = cn.flight
      BY <2>1, <2>3, <3>3
    <3> HIDE DEF cn2
    <3> QED
      BY <2>2, <2>3, <3>1, <3>2, <3>4 DEF OnPage, UpTo, Place, textVars
  <2>5. conn' = [conn EXCEPT ![c] = cn2]
    BY <2>1
  <2> HIDE DEF cn2
  <2> QED
    BY <2>2, <2>3, <2>4, <2>5 DEF Went, textVars
<1> QED
  BY <1>1, <1>2, <1>3

(* So does all that is done of one call of the server. *)
LEMMA ConnectionOnPage ==
  ASSUME NEW c, NEW s, NEW cn \in Connection, NEW b \in HttpdState,
         NEW ws \in Seq(STRING), NEW flag \in {"none", "acked", "rexmit"},
         Text, Settled(b), cn.lone => Awaits(cn, b, flag),
         HandleConnection(c, s, cn, b, ws, flag)
  PROVE  Went(c, s, cn) \/ UNCHANGED <<conn, block, textVars>>
<1> DEFINE words == Min({2, b.words + Len(ws)})
           read == [b EXCEPT !.words = words]
           none == [b EXCEPT !.words = 0]
<1>1. /\ words \in 0 .. 2
      /\ b.words = 2 => words = 2
      /\ words < 2 => b.words < 2
  BY MinOfTwo, LenProperties DEF HttpdState
<1>2. Refuses(b, ws) => b.words < 2
  BY LenProperties DEF Refuses, HttpdState
<1> HIDE DEF words
<1>3. /\ read \in HttpdState
      /\ read.words = words /\ read.at = b.at /\ read.k = b.k /\ read.len = b.len
      /\ none.at = b.at
  BY <1>1 DEF HttpdState
<1>4. CASE Refuses(b, ws) \/ read.words < 2
  <2> DEFINE b2 == IF Refuses(b, ws) THEN none ELSE read
             cn2 == IF Refuses(b, ws) THEN Closing(cn) ELSE cn
  <2>1. /\ block' = [block EXCEPT ![s] = b2]
        /\ conn' = [conn EXCEPT ![c] = cn2]
        /\ UNCHANGED textVars
    BY <1>4 DEF HandleConnection, words
  <2>2. b.at = "idle" /\ b2.at = "idle"
    BY <1>1, <1>2, <1>3, <1>4 DEF Settled
  <2>3. /\ cn2.s = cn.s /\ cn2.lone = cn.lone /\ cn2.page = cn.page
        /\ Refuses(b, ws) => cn2.tcp = "finwait" /\ cn2.flight = <<>>
        /\ ~Refuses(b, ws) => cn2.tcp = cn.tcp /\ cn2.flight = cn.flight
    BY DEF Closing, Connection
  <2> HIDE DEF cn2, b2
  <2>4. cn.lone => cn.tcp = "open" /\ NotBegun(cn, b)
    BY <2>2 DEF Awaits, OnPage, Delivered, UpTo
  <2>5. cn.lone => OnPage(cn2, b2)'
    BY <2>1, <2>2, <2>3, <2>4 DEF OnPage, NotBegun, textVars
  <2>6. cn2.tcp \in {cn.tcp, "finwait"}
    BY <2>3
  <2> QED
    BY <2>1, <2>3, <2>5, <2>6 DEF Went, textVars
<1>5. CASE ~(Refuses(b, ws) \/ read.words < 2)
  <2>1. HandleOutput(c, s, cn, read, flag)
    BY <1>5 DEF HandleConnection, words
  <2> HIDE DEF read
  <2>2. Settled(read)
    BY <1>1, <1>3, <1>5 DEF Settled
  <2>3. cn.lone => Awaits(cn, read, flag)
    BY <1>3 DEF Awaits, OnPage, NotBegun, Delivered, UpTo, Place
  <2> QED
    BY <1>3, <2>1, <2>2, <2>3, OutputOnPage
<1> QED
  BY <1>4, <1>5

(* While a connection is alone no other one is open.                       *)
Alone(c) ==
  conn[c].lone =>
    /\ conn[c].tcp = "open" => \A d \in Conns \ {c} : conn[d].tcp # "open"
    /\ OnPage(conn[c], block[conn[c].s])

(* What has not connected yet has received nothing. *)
Untouched(c) ==
  conn[c].tcp = "new" => conn[c].lone = FALSE /\ conn[c].page = <<>> /\ conn[c].flight = <<>>

LonePages == \A c \in Conns : Alone(c) /\ Untouched(c)

(* The server handles connection c, as cn with block b.                    *)
LonePageServed(c, cn, b, ws, flag) ==
  /\ conn[c].tcp = "open"
  /\ cn.tcp # "new"
  /\ Settled(b)
  /\ cn.lone => conn[c].lone /\ cn.s = conn[c].s /\ Awaits(cn, b, flag)
  /\ HandleConnection(c, conn[c].s, cn, b, ws, flag)

(* A page is served only to the connection it belongs to: when the server  *)
(* handles c no other connection that is alone is open.                    *)
LEMMA ServingKeepsPages ==
  ASSUME Shape, LonePages, NEW c \in Conns, NEW cn \in Connection, NEW b \in HttpdState,
         NEW ws \in Seq(STRING), NEW flag \in {"none", "acked", "rexmit"},
         LonePageServed(c, cn, b, ws, flag)
  PROVE  LonePages'
<1> DEFINE s == conn[c].s
<1>1. s \in Blocks /\ Text
  BY DEF Shape, Connection
<1>2. Went(c, s, cn) \/ UNCHANGED <<conn, block, textVars>>
  <2> HIDE DEF s
  <2>1. HandleConnection(c, s, cn, b, ws, flag)
    BY DEF LonePageServed, s
  <2>2. Settled(b) /\ (cn.lone => Awaits(cn, b, flag))
    BY DEF LonePageServed
  <2> QED
    BY <1>1, <2>1, <2>2, ConnectionOnPage
<1>3. CASE UNCHANGED <<conn, block, textVars>>
  BY <1>3 DEF LonePages, Alone, Untouched, OnPage, NotBegun, UpTo, Place, textVars
<1>4. CASE Went(c, s, cn)
  <2>1. PICK cn2, b2 :
          /\ conn' = [conn EXCEPT ![c] = cn2] /\ block' = [block EXCEPT ![s] = b2]
          /\ cn2.s = cn.s /\ cn2.lone = cn.lone /\ cn2.tcp \in {cn.tcp, "finwait"}
          /\ cn.lone => OnPage(cn2, b2)'
          /\ table' = table
    BY <1>4 DEF Went
  <2>2. conn'[c] = cn2 /\ block'[s] = b2 /\ \A d \in Conns \ {c} : conn'[d] = conn[d]
    BY <1>1, <2>1 DEF Shape
  <2>3. Alone(c)' /\ Untouched(c)'
    <3>1. Untouched(c)'
      BY <2>1, <2>2 DEF Untouched, LonePageServed
    <3>2. ASSUME cn2.lone
          PROVE  /\ conn'[c].tcp = "open" => \A d \in Conns \ {c} : conn'[d].tcp # "open"
                 /\ OnPage(conn[c], block[conn[c].s])'
      <4>1. conn[c].lone /\ cn2.s = s /\ conn[c].tcp = "open"
        BY <2>1, <3>2 DEF LonePageServed
      <4>2. \A d \in Conns \ {c} : conn[d].tcp # "open"
        BY <4>1 DEF LonePages, Alone
      <4>3. OnPage(cn2, b2)'
        BY <2>1, <3>2
      <4>4. block'[conn'[c].s] = b2
        BY <2>2, <4>1
      <4>5. OnPage(conn[c], block[conn[c].s])'
        BY <2>2, <4>3, <4>4 DEF OnPage, NotBegun, UpTo, Place
      <4> QED
        BY <2>2, <4>2, <4>5
    <3> QED
      BY <2>2, <3>1, <3>2 DEF Alone
  <2>4. ASSUME NEW d \in Conns \ {c}
        PROVE  Alone(d)' /\ Untouched(d)'
    <3>1. conn'[d] = conn[d] /\ Alone(d) /\ Untouched(d)
      BY <2>2 DEF LonePages
    <3>2. conn[d].lone => conn[d].tcp # "open"
      BY <3>1 DEF Alone, LonePageServed
    <3>3. Alone(d)'
      BY <2>1, <3>1, <3>2 DEF Alone, OnPage
    <3> QED
      BY <3>1, <3>3 DEF Untouched
  <2> QED
    BY <2>3, <2>4 DEF LonePages
<1> QED
  BY <1>2, <1>3, <1>4

(* The calls of the server by the TCP stack. *)
LEMMA CallsKeepPages ==
  ASSUME Shape, LonePages, NEW c \in Conns, NewData(c) \/ Acked(c) \/ Rexmit(c) \/ Poll(c)
  PROVE  LonePages'
<1> DEFINE s == conn[c].s
<1>1. /\ s \in Blocks /\ conn[c] \in Connection /\ block[s] \in HttpdState
      /\ Settled(block[s])
  BY DEF Shape, Connection
<1>2. /\ Awake(s) \in HttpdState /\ Settled(Awake(s))
      /\ Awake(s).at = block[s].at /\ Awake(s).k = block[s].k /\ Awake(s).len = block[s].len
  <2>1. /\ Awake(s).k = block[s].k /\ Awake(s).len = block[s].len
    BY <1>1 DEF Awake, HttpdState
  <2> QED
    BY <1>1, <2>1, BlockTypes
<1>3. <<>> \in Seq(STRING)
  OBVIOUS
<1>4. conn[c].lone => OnPage(conn[c], block[s]) /\ OnPage(conn[c], Awake(s))
  BY <1>2 DEF LonePages, Alone, OnPage, NotBegun, UpTo, Place
<1>5. CASE NewData(c)
  <2> DEFINE q == conn[c].request
  <2>1. PICK n \in 1 .. Len(q) :
          HandleConnection(c, s, [conn[c] EXCEPT !.request = SubSeq(q, n + 1, Len(q))],
                           Awake(s), SubSeq(q, 1, n), "none")
    BY <1>5 DEF NewData
  <2>2. conn[c].tcp = "open"
    BY <1>5 DEF NewData
  <2>3. q \in Seq(STRING)
    BY <1>1 DEF Connection
  <2>4. SubSeq(q, 1, n) \in Seq(STRING) /\ SubSeq(q, n + 1, Len(q)) \in Seq(STRING)
    BY <2>3, SubSeqProperties, ElementOfSeq
  <2> DEFINE cn == [conn[c] EXCEPT !.request = SubSeq(q, n + 1, Len(q))]
  <2>5. /\ cn \in Connection /\ cn.tcp = conn[c].tcp /\ cn.s = s /\ cn.flight = conn[c].flight
        /\ cn.lone = conn[c].lone /\ cn.page = conn[c].page
    BY <1>1, <2>4 DEF Connection
  <2> HIDE DEF cn
  <2>6. HandleConnection(c, s, cn, Awake(s), SubSeq(q, 1, n), "none")
    BY <2>1 DEF cn
  <2>7. cn.lone => Awaits(cn, Awake(s), "none")
    BY <1>4, <2>2, <2>5 DEF Awaits, OnPage, NotBegun
  <2>8. LonePageServed(c, cn, Awake(s), SubSeq(q, 1, n), "none")
    BY <1>2, <2>2, <2>5, <2>6, <2>7 DEF LonePageServed
  <2> HIDE DEF s, q
  <2> QED
    BY <1>2, <2>4, <2>5, <2>8, ServingKeepsPages
<1>6. CASE Acked(c)
  <2> DEFINE cn == Received(conn[c])
  <2>1. /\ conn[c].tcp = "open" /\ conn[c].flight # <<>>
        /\ HandleConnection(c, s, cn, Awake(s), <<>>, "acked")
    BY <1>6 DEF Acked
  <2>2. cn \in Connection /\ cn.tcp = conn[c].tcp /\ cn.s = s
    BY <1>1, ReceivedType
  <2>3. /\ cn.lone = conn[c].lone /\ cn.flight = <<>>
        /\ cn.lone => cn.page = conn[c].page \o conn[c].flight
    BY <1>1 DEF Received, Connection
  <2> HIDE DEF cn
  <2>4. cn.lone => Delivered(cn, Awake(s))
    BY <1>4, <2>1, <2>2, <2>3 DEF OnPage, NotBegun, Delivered
  <2>5. LonePageServed(c, cn, Awake(s), <<>>, "acked")
    BY <1>2, <2>1, <2>2, <2>3, <2>4 DEF LonePageServed, Awaits
  <2> HIDE DEF s
  <2> QED
    BY <1>2, <1>3, <2>2, <2>5, ServingKeepsPages
<1>7. CASE Rexmit(c)
  <2>1. /\ conn[c].tcp = "open"
        /\ HandleConnection(c, s, conn[c], Awake(s), <<>>, "rexmit")
    BY <1>7 DEF Rexmit
  <2>2. LonePageServed(c, conn[c], Awake(s), <<>>, "rexmit")
    BY <1>2, <1>4, <2>1 DEF LonePageServed, Awaits
  <2> HIDE DEF s
  <2> QED
    BY <1>1, <1>2, <1>3, <2>2, ServingKeepsPages
<1>8. CASE Poll(c) /\ block[s].expired
  <2> DEFINE cn == Gone(conn[c], "closed")
             b == [block[s] EXCEPT !.script = FALSE]
  <2>1. /\ conn[c].tcp = "open"
        /\ HandleConnection(c, s, cn, b, <<>>, "none")
    BY <1>8 DEF Poll
  <2>2. cn \in Connection /\ cn.tcp = "closed" /\ cn.lone = FALSE
    BY <1>1, GoneType
  <2>3. b \in HttpdState /\ Settled(b)
    BY <1>1, BlockTypes
  <2> HIDE DEF cn, b
  <2>4. LonePageServed(c, cn, b, <<>>, "none")
    BY <2>1, <2>2, <2>3 DEF LonePageServed
  <2> HIDE DEF s
  <2> QED
    BY <1>3, <2>2, <2>3, <2>4, ServingKeepsPages
<1>9. CASE Poll(c) /\ ~block[s].expired
  <2>1. /\ conn[c].tcp = "open"
        /\ HandleConnection(c, s, conn[c], block[s], <<>>, "none")
    BY <1>9 DEF Poll
  <2>2. LonePageServed(c, conn[c], block[s], <<>>, "none")
    BY <1>1, <1>4, <2>1 DEF LonePageServed, Awaits
  <2> HIDE DEF s
  <2> QED
    BY <1>1, <1>3, <2>2, ServingKeepsPages
<1> QED
  BY <1>5, <1>6, <1>7, <1>8, <1>9

(* A new connection ends the solitude of an open one, and is alone itself  *)
(* only with no other one and no text (webserver.c:56).                    *)
LEMMA ConnectedKeepsPages ==
  ASSUME Shape, LonePages, NEW c \in Conns, Connected(c)
  PROVE  LonePages'
<1>1. conn[c].tcp = "new" /\ UNCHANGED textVars
  BY DEF Connected
<1>2. conn[c].lone = FALSE /\ conn[c].page = <<>> /\ conn[c].flight = <<>>
  BY <1>1 DEF LonePages, Untouched
<1>3. CASE used = Blocks
  <2>1. conn' = [conn EXCEPT ![c] = [conn[c] EXCEPT !.tcp = "closed"]] /\ block' = block
    BY <1>3 DEF Connected
  <2>2. conn'[c].tcp = "closed" /\ conn'[c].lone = FALSE
    BY <1>2, <2>1 DEF Shape, Connection
  <2>3. \A d \in Conns \ {c} : conn'[d] = conn[d]
    BY <2>1 DEF Shape
  <2> QED
    BY <1>1, <2>1, <2>2, <2>3
    DEF LonePages, Alone, Untouched, OnPage, NotBegun, UpTo, Place, textVars
<1>4. CASE used # Blocks
  <2> DEFINE s == Min(Blocks \ used)
             open == {d \in Conns : conn[d].tcp = "open"}
             lone == open = {} /\ blen = 0
  <2>1. block' = [block EXCEPT ![s] = Fresh]
    BY <1>4 DEF Connected
  <2>2. PICK request \in Requests :
          conn' = [d \in Conns |->
             IF d = c THEN [conn[c] EXCEPT !.tcp = "open", !.s = s, !.request = request,
                                           !.lone = lone]
             ELSE [conn[d] EXCEPT !.lone = @ /\ d \notin open]]
    BY <1>4 DEF Connected
  <2>3. s \in Blocks
    <3>1. Blocks \ used \subseteq Nat
      BY HttpdAssumption DEF Blocks
    <3>2. Blocks \ used # {}
      BY <1>4 DEF Shape
    <3> QED
      BY <3>1, <3>2, MinIsElement
  <2> HIDE DEF s
  <2>4. /\ conn'[c].tcp = "open" /\ conn'[c].s = s /\ conn'[c].lone = lone
        /\ conn'[c].page = <<>> /\ conn'[c].flight = <<>>
    BY <1>2, <2>2 DEF Shape, Connection
  <2>5. ASSUME NEW d \in Conns \ {c}
        PROVE  /\ conn'[d].tcp = conn[d].tcp /\ conn'[d].s = conn[d].s
               /\ conn'[d].page = conn[d].page /\ conn'[d].flight = conn[d].flight
               /\ conn'[d].lone = (conn[d].lone /\ d \notin open)
    BY <2>2 DEF Shape, Connection
  <2>6. Alone(c)' /\ Untouched(c)'
    <3>1. ASSUME lone
          PROVE  /\ \A d \in Conns \ {c} : conn'[d].tcp # "open"
                 /\ OnPage(conn[c], block[conn[c].s])'
      <4>1. \A d \in Conns \ {c} : conn'[d].tcp # "open"
        BY <2>5, <3>1
      <4>2. block'[conn'[c].s] = Fresh
        BY <2>1, <2>3, <2>4 DEF Shape
      <4>3. blen' = 0
        BY <1>1, <3>1 DEF textVars
      <4> QED
        BY <2>4, <4>1, <4>2, <4>3, FreshType DEF OnPage, NotBegun
    <3> HIDE DEF lone
    <3> QED
      BY <2>4, <3>1 DEF Alone, Untouched
  <2>7. ASSUME NEW d \in Conns \ {c}
        PROVE  Alone(d)' /\ Untouched(d)'
    <3>1. Alone(d) /\ Untouched(d)
      BY DEF LonePages
    <3>2. conn'[d].lone => conn[d].lone /\ conn[d].tcp # "open"
      BY <2>5
    <3> HIDE DEF open
    <3>3. Alone(d)'
      <4>1. table' = table
        BY <1>1 DEF textVars
      <4> QED
        BY <2>5, <3>1, <3>2, <4>1 DEF Alone, OnPage
    <3>4. Untouched(d)'
      BY <2>5, <3>1 DEF Untouched
    <3> QED
      BY <3>3, <3>4
  <2> QED
    BY <2>6, <2>7 DEF LonePages
<1> QED
  BY <1>3, <1>4

(* The end of another connection may take the script of a block away, but  *)
(* nothing of the page.                                                    *)
LEMMA EndsKeepPages ==
  ASSUME Shape, LonePages, NEW c \in Conns, NEW tcp \in {"closing", "closed", "forgotten"},
         conn' = [conn EXCEPT ![c] = Gone(conn[c], tcp)],
         UNCHANGED <<buf, blen, table, row>>,
         \/ block' = block
         \/ block' = [block EXCEPT ![conn[c].s] =
                        IF Named(c, conn[c].s) THEN [block[conn[c].s] EXCEPT !.script = FALSE]
                                               ELSE Fresh]
  PROVE  LonePages'
<1> DEFINE s == conn[c].s
<1>1. conn[c] \in Connection /\ s \in Blocks
  BY DEF Shape, Connection
<1>2. conn'[c].tcp = tcp /\ conn'[c].lone = FALSE
  BY <1>1, GoneType DEF Shape
<1>3. \A d \in Conns \ {c} : conn'[d] = conn[d]
  BY DEF Shape
<1>4. ASSUME NEW d \in Conns \ {c}
      PROVE  Alone(d)' /\ Untouched(d)'
  <2>1. Alone(d) /\ Untouched(d) /\ conn'[d] = conn[d]
    BY <1>3 DEF LonePages
  <2>2. ASSUME conn[d].lone
        PROVE  /\ conn[d].tcp = "open" => \A e \in Conns \ {d} : conn'[e].tcp # "open"
               /\ OnPage(conn[d], block[conn[d].s])'
    <3>1. conn[d].tcp = "open" => \A e \in Conns \ {d} : conn'[e].tcp # "open"
      BY <1>2, <1>3, <2>1, <2>2 DEF Alone
    <3>2. CASE conn[d].tcp = "open"
      <4> DEFINE u == conn[d].s
      <4>1. u \in Blocks /\ block[u] \in HttpdState
        BY DEF Shape, Connection
      <4>2. u = s => Named(c, s)
        BY <3>2 DEF Named
      <4>3. /\ block'[u].at = block[u].at /\ block'[u].k = block[u].k
            /\ block'[u].len = block[u].len
        <5>1. block'[u] \in {block[u], [block[u] EXCEPT !.script = FALSE]}
          BY <1>1, <4>1, <4>2 DEF Shape
        <5> QED
          BY <4>1, <5>1 DEF HttpdState
      <4>4. OnPage(conn[d], block[u])
        BY <2>1, <2>2 DEF Alone
      <4> QED
        BY <2>1, <3>1, <4>3, <4>4 DEF OnPage, NotBegun, UpTo, Place
    <3>3. CASE conn[d].tcp # "open"
      BY <2>1, <2>2, <3>3 DEF Alone, OnPage
    <3> QED
      BY <3>1, <3>2, <3>3
  <2> QED
    BY <2>1, <2>2 DEF Alone, Untouched
<1> QED
  BY <1>2, <1>4 DEF LonePages, Alone, Untouched

(* LonePages is an invariant, given the shape of the state. *)
LEMMA LonePagesHold == Spec => []LonePages
<1>1. Init => LonePages
  BY DEF Init, LonePages, Alone, Untouched
<1>2. Shape /\ LonePages /\ [Next]_httpdVars => LonePages'
  <2> SUFFICES ASSUME Shape, LonePages, [Next]_httpdVars
               PROVE  LonePages'
    OBVIOUS
  <2>1. ASSUME NEW c \in Conns, NEW tcp \in {"closing", "closed"}, Ended(c, tcp)
        PROVE  LonePages'
    <3>1. /\ conn' = [conn EXCEPT ![c] = Gone(conn[c], tcp)]
          /\ UNCHANGED <<buf, blen, table, row>>
          /\ block' = [block EXCEPT ![conn[c].s] =
                        IF Named(c, conn[c].s) THEN [block[conn[c].s] EXCEPT !.script = FALSE]
                                               ELSE Fresh]
      BY <2>1 DEF Ended
    <3> QED
      BY <3>1, EndsKeepPages
  <2>2. ASSUME NEW c \in Conns, Forget(c)
        PROVE  LonePages'
    <3>1. PICK tcp \in {"closed", "forgotten"} : conn' = [conn EXCEPT ![c] = Gone(conn[c], tcp)]
      BY <2>2 DEF Forget
    <3>2. block' = block /\ UNCHANGED <<buf, blen, table, row>>
      BY <2>2 DEF Forget, textVars
    <3> QED
      BY <3>1, <3>2, EndsKeepPages
  <2>3. ASSUME NEW s \in Blocks, TimerExpires(s)
        PROVE  LonePages'
    <3>1. /\ block' = [block EXCEPT ![s] = [block[s] EXCEPT !.expired = TRUE]]
          /\ conn' = conn /\ UNCHANGED <<buf, blen, table, row>>
      BY <2>3 DEF TimerExpires, textVars
    <3>2. \A u \in Blocks : /\ block'[u].at = block[u].at /\ block'[u].k = block[u].k
                            /\ block'[u].len = block[u].len
      BY <3>1 DEF Shape, HttpdState
    <3>3. \A c \in Conns : conn[c].s \in Blocks
      BY DEF Shape, Connection
    <3> QED
      BY <3>1, <3>2, <3>3 DEF LonePages, Alone, Untouched, OnPage, NotBegun, UpTo, Place
  <2>4. CASE ListsChange
    <3>1. conn' = [c \in Conns |-> [conn[c] EXCEPT !.lone = FALSE, !.page = <<>>]]
      BY <2>4 DEF ListsChange
    <3>2. \A c \in Conns :
            /\ conn'[c].lone = FALSE /\ conn'[c].page = <<>>
            /\ conn'[c].tcp = conn[c].tcp /\ conn'[c].flight = conn[c].flight
      BY <3>1 DEF Shape, Connection
    <3> QED
      BY <3>2 DEF LonePages, Alone, Untouched
  <2>5. CASE UNCHANGED httpdVars
    BY <2>5 DEF LonePages, Alone, Untouched, OnPage, NotBegun, UpTo, Place, httpdVars, textVars
  <2> QED
    BY <2>1, <2>2, <2>3, <2>4, <2>5, ConnectedKeepsPages, CallsKeepPages
    DEF Next, PeerCloses, ConnectionLost, EndsAgain
<1> QED
  BY <1>1, <1>2, ShapeHolds, PTL DEF Spec

(* A connection that finds the buffer empty, stays the only open one and   *)
(* sees no list change gets the page, all of it if the server closes, and  *)
(* nothing else, whatever is retransmitted and however long the lists are  *)
(* (webserver.c:45-58, 84-156).                                            *)
THEOREM HttpdLonePage == Spec => []LonePageIsWhole
<1>1. Shape /\ LonePages => LonePageIsWhole
  <2> SUFFICES ASSUME Shape, LonePages, NEW c \in Conns, conn[c].lone
               PROVE  /\ IsPrefix(conn[c].page \o conn[c].flight, WholePage)
                      /\ conn[c].tcp = "finwait" /\ conn[c].page # <<>> =>
                           conn[c].page = WholePage
    BY DEF LonePageIsWhole
  <2> DEFINE cn == conn[c]
             b == block[cn.s]
  <2>1. cn.page \in Seq(Pieces) /\ cn.flight \in Seq(Pieces)
    BY DEF Shape, Connection
  <2>2. OnPage(cn, b)
    BY DEF LonePages, Alone
  <2>a. Part(table, WholePage, Headers, Bottom)
    BY WholePageIsPart DEF Shape, Text, Iterators
  <2>3. WholePage \in Seq(Pieces) /\ Bottom[1] = "bottom"
    BY <2>a DEF Part, Bottom
  <2>4. IsPrefix(<<>>, WholePage)
    <3>1. SubSeq(<<>>, 1, 0) = <<>> /\ SubSeq(WholePage, 1, 0) = <<>>
      BY SubSeqEmpty
    <3>2. Len(<<>>) = 0 /\ Len(WholePage) \in Nat
      BY <2>3
    <3> QED
      BY <3>1, <3>2 DEF IsPrefix
  <2>5. cn.page = <<>> /\ cn.flight = <<>> => cn.page \o cn.flight = <<>>
    BY <2>1, ConcatEmptySeq
  <2> HIDE DEF cn, b
  <2>6. CASE cn.tcp = "open" /\ NotBegun(cn, b)
    BY <2>4, <2>5, <2>6 DEF NotBegun, cn
  <2>7. CASE cn.tcp = "open" /\ UpTo(b, cn.page \o cn.flight)
    BY <2>a, <2>3, <2>7, PartsAgree DEF UpTo, cn
  <2>8. CASE cn.tcp = "finwait" /\ cn.flight = <<>> /\ cn.page = <<>>
    BY <2>4, <2>5, <2>8 DEF cn
  <2>9. CASE /\ cn.tcp = "finwait" /\ cn.flight = <<>>
             /\ \E z : Part(table, cn.page, Headers, z) /\ z[1] = "bottom"
    <3>1. cn.page \o cn.flight = cn.page
      BY <2>1, <2>9, ConcatEmptySeq
    <3>2. PICK z : Part(table, cn.page, Headers, z) /\ z[1] = "bottom"
      BY <2>9
    <3>3. IsPrefix(cn.page, WholePage) /\ cn.page = WholePage
      BY <2>a, <2>3, <3>2, PartsAgree
    <3> QED
      BY <3>1, <3>3 DEF cn
  <2> QED
    BY <2>2, <2>6, <2>7, <2>8, <2>9 DEF OnPage
<1> QED
  BY <1>1, ShapeHolds, LonePagesHold, PTL
=============================================================================
