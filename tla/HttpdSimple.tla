---------------------------- MODULE HttpdSimple -----------------------------
(***************************************************************************)
(* The web server of the border router (httpd-simple.c, webserver.c): one  *)
(* process that uIP calls once for every event of a TCP connection, a pool *)
(* of connection blocks, a protothread per block, and one text buffer with *)
(* one set of list iterators for all of them.                              *)
(*                                                                         *)
(* uIP (external) has at most one unacknowledged segment per connection,   *)
(* polls only when there is none, and reports an end of the connection     *)
(* twice when the peer was the first to close: when its FIN arrives and    *)
(* when the last acknowledgement does.                                     *)
(***************************************************************************)
EXTENDS Naturals, Sequences, FiniteSets, FiniteSetsExt, SequencesExt

CONSTANTS
  Conns,       \* the TCP connections, by the order in which peers open them
  CONNS,       \* WEBSERVER_CONF_CFS_CONNS: the number of blocks
  Requests,    \* what a peer may send: sequences of words and lines
  Lists,       \* the lists of the page: neighbours, then routes or links
  MostRows,    \* the longest a list may be
  Tables,      \* what the lists may be: the length of each one shown
  Room         \* the pieces of text that fit in buf, however long they are

ASSUME HttpdAssumption ==
  /\ Conns \subseteq Nat /\ CONNS \in Nat \ {0}
  /\ Requests \subseteq Seq(STRING)
  /\ Lists \in Nat \ {0} /\ MostRows \in Nat
  /\ Tables \subseteq Seq(0 .. MostRows)
  /\ \A t \in Tables : Len(t) \in 1 .. Lists
  /\ Room \in Nat

Blocks == 1 .. CONNS

VARIABLES
  conn,      \* uip_conn: state, block, and what is under way to and fro
  used,      \* conns: the blocks memb_alloc has given away
  block,     \* struct httpd_state
  buf,       \* buf: the pieces of text written into it
  blen,      \* blen: how many of them count
  table,     \* how many rows each list has now
  row,       \* nbr and link: the iterator of each list, 0 for NULL, above
             \* MostRows for an entry that is no longer in the list
  overrun,   \* snprintf was given more text than buf has room for
  reused,    \* history: a block was given away that a call may still name
  dropped,   \* history: connections that ended inside SEND since blen = 0
  crashed    \* a NULL script was called

textVars == <<buf, blen, table, row, overrun, dropped>>
httpdVars == <<conn, used, block, textVars, reused, crashed>>

-----------------------------------------------------------------------------
(* The page: the pieces that are sent one by one, list by list.  The two   *)
(* header lines, constant and each a segment of its own, are one piece.    *)

Buffered == {"head", "row", "end"}
InScript == Buffered \cup {"top", "bottom"}

Piece(at, k, r) == <<at, k, IF at = "row" THEN r[k] ELSE 0>>

(* The last list, the links, is not shown when there is no node in it.     *)
Length(k) == IF k \in DOMAIN table THEN table[k] ELSE 0

(* Entries that have left a list; each still points at one that left it    *)
(* later, at one in the list, or at none.                                  *)
Removed == MostRows + 1 .. 2 * MostRows

(* What comes after the entry that the iterator of list k is at; there is  *)
(* nothing behind NULL.                                                    *)
Successors(k) ==
  IF row[k] \in Removed THEN 0 .. Length(k) \cup MostRows + 1 .. row[k] - 1
  ELSE {IF row[k] \in 1 .. Length(k) - 1 THEN row[k] + 1 ELSE 0}

(* A variant of Step that moves on without looking at the next element. *)
StepShort(b) ==
  CASE b.at = "head" -> {[row EXCEPT ![b.k] = IF Length(b.k) > 1 THEN 1 ELSE 0]}
    [] b.at = "row"  -> {[row EXCEPT ![b.k] = IF @ + 1 < Length(b.k) THEN @ + 1 ELSE 0]}
    [] OTHER -> {row}

(* The iterators when b's segment is acknowledged: to the first element,   *)
(* to the next one, or on to NULL, where they stay.                        *)
Step(b) ==
  CASE b.at = "head" -> {[row EXCEPT ![b.k] = IF Length(b.k) > 0 THEN 1 ELSE 0]}
    [] b.at = "row"  -> {[row EXCEPT ![b.k] = i] : i \in Successors(b.k)}
    [] OTHER -> {row}

(* A variant of Follow that does not stop after the last list. *)
FollowEndless(b, r) ==
  CASE b.at = "idle"    -> <<"headers", 0>>
    [] b.at = "headers" -> <<"top", 0>>
    [] b.at \in {"top", "end"}  -> <<"head", b.k + 1>>
    [] b.at \in {"head", "row"} -> <<IF r[b.k] # 0 THEN "row" ELSE "end", b.k>>

(* Where handle_output and generate_routes are then. *)
Follow(b, r) ==
  CASE b.at = "idle"    -> <<"headers", 0>>
    [] b.at = "headers" -> <<"top", 0>>
    [] b.at = "top"     -> <<"head", 1>>
    [] b.at \in {"head", "row"} -> <<IF r[b.k] # 0 THEN "row" ELSE "end", b.k>>
    [] b.at = "end"    -> IF b.k < Len(table) THEN <<"head", b.k + 1>> ELSE <<"bottom", 0>>
    [] b.at = "bottom" -> <<"idle", 0>>

-----------------------------------------------------------------------------

Fresh == [words |-> 0, at |-> "idle", k |-> 0, len |-> 0,
          script |-> FALSE, expired |-> FALSE]

Init ==
  /\ conn = [c \in Conns |-> [tcp |-> "new", s |-> 1, request |-> <<>>,
                              flight |-> <<>>, page |-> <<>>, lone |-> FALSE]]
  /\ used = {}
  /\ block = [s \in Blocks |-> Fresh]
  /\ buf = <<>>
  /\ blen = 0
  /\ table \in Tables
  /\ row = [k \in 1 .. Lists |-> 0]
  /\ overrun = FALSE
  /\ reused = FALSE
  /\ dropped = 0
  /\ crashed = FALSE

(* uip_close: uIP sends its FIN after the call. *)
Closing(cn) == [cn EXCEPT !.tcp = "finwait", !.flight = <<>>]

(* A variant of Kept that never forgets what was sent. *)
KeptAlways(b) == blen

(* SEND sets blen to zero only when its segment is acknowledged. *)
Kept(b) == IF b.at \in Buffered THEN 0 ELSE blen

(* The output, its iterators now r, sends its next segment; ADD writes     *)
(* behind blen, whatever is there, and when that is more than surely fits, *)
(* the text may be cut off or written behind the end of buf.  After the    *)
(* last segment the script is forgotten and the connection closed.         *)
SendsNext(c, s, cn, b, r) ==
  LET next == Follow(b, r)
      adds == next[1] \in Buffered
      text == (IF adds THEN SubSeq(buf, 1, Kept(b)) ELSE <<>>)
                \o <<Piece(next[1], next[2], r)>>
      done == next[1] = "idle"
  IN  /\ row' = r
      /\ buf' = IF adds THEN text ELSE buf
      /\ blen' = IF adds THEN Len(text) ELSE Kept(b)
      /\ overrun' \in {FALSE, adds /\ Len(text) > Room}
      /\ dropped' = IF b.at \in Buffered THEN 0 ELSE dropped
      /\ block' = [block EXCEPT ![s] = [b EXCEPT
           !.at = next[1], !.k = next[2], !.len = Len(text),
           !.script = ~done /\ (@ \/ b.at = "idle")]]
      /\ conn' = [conn EXCEPT ![c] = IF done THEN Closing(cn) ELSE [cn EXCEPT !.flight = text]]
      /\ UNCHANGED table

Sends(c, s, cn, b) == \E r \in Step(b) : SendsNext(c, s, cn, b, r)

(* What a retransmission sends: as many bytes as before, of the buffer as  *)
(* it is now.                                                              *)
Again(cn, b) ==
  IF b.at \in Buffered THEN SubSeq(buf, 1, Min({b.len, Len(buf)})) ELSE cn.flight

(* handle_output, which calls the script whenever it is past the headers:  *)
(* it goes on, sends again or waits.                                       *)
HandleOutput(c, s, cn, b, flag) ==
  IF ~b.script /\ (b.at \in InScript \/ (b.at = "headers" /\ flag = "acked"))
  THEN /\ crashed' = TRUE
       /\ UNCHANGED <<conn, block, textVars>>
  ELSE /\ IF b.at = "idle" \/ flag = "acked"
          THEN Sends(c, s, cn, b)
          ELSE /\ \E flight \in {cn.flight, Again(cn, b)} :
                    conn' = [conn EXCEPT ![c] = [cn EXCEPT
                               !.flight = IF flag = "rexmit" THEN flight ELSE @]]
               /\ block' = [block EXCEPT ![s] = b]
               /\ UNCHANGED textVars
       /\ UNCHANGED crashed

(* The first word has to be a method the server knows, the second a path. *)
Refuses(b, ws) ==
  \E i \in DOMAIN ws : \/ b.words + i = 1 /\ ws[i] # "GET"
                       \/ b.words + i = 2 /\ ws[i] # "/name"

(* handle_connection: handle_input reads the words ws, then, in            *)
(* STATE_OUTPUT (two words read), handle_output.                           *)
HandleConnection(c, s, cn, b, ws, flag) ==
  LET read == [b EXCEPT !.words = Min({2, @ + Len(ws)})] IN
  IF Refuses(b, ws) \/ read.words < 2
  THEN /\ block' = [block EXCEPT ![s] = IF Refuses(b, ws)
                                        THEN [b EXCEPT !.words = 0] ELSE read]
       /\ conn' = [conn EXCEPT ![c] = IF Refuses(b, ws) THEN Closing(cn) ELSE cn]
       /\ UNCHANGED <<textVars, crashed>>
  ELSE HandleOutput(c, s, cn, read, flag)

-----------------------------------------------------------------------------
(* httpd_appcall, once for each event of uIP. *)

(* A new connection takes the first free block, and is reset if there is   *)
(* none.  No other one may be lone from now on.                            *)
Connected(c) ==
  /\ conn[c].tcp = "new" /\ \A d \in Conns : d < c => conn[d].tcp # "new"
  /\ IF used = Blocks
     THEN /\ conn' = [conn EXCEPT ![c].tcp = "closed"]
          /\ UNCHANGED <<used, block, reused>>
     ELSE LET s    == Min(Blocks \ used)
              open == {d \in Conns : conn[d].tcp = "open"}
          IN  /\ used' = used \cup {s}
              /\ block' = [block EXCEPT ![s] = Fresh]
              /\ \E request \in Requests :
                   conn' = [d \in Conns |->
                     IF d = c THEN [conn[c] EXCEPT !.tcp = "open", !.s = s, !.request = request,
                                                   !.lone = open = {} /\ blen = 0]
                     ELSE [conn[d] EXCEPT !.lone = @ /\ d \notin open]]
              /\ reused' = (reused \/ \E d \in Conns : conn[d].tcp = "closing" /\ conn[d].s = s)
  /\ UNCHANGED <<textVars, crashed>>

(* Data, an acknowledgement or a retransmission restarts the timer. *)
Awake(s) == [block[s] EXCEPT !.expired = FALSE]

NewData(c) ==
  /\ conn[c].tcp = "open"
  /\ \E n \in 1 .. Len(conn[c].request) :
       LET q == conn[c].request IN
       HandleConnection(c, conn[c].s, [conn[c] EXCEPT !.request = SubSeq(q, n + 1, Len(q))],
                        Awake(conn[c].s), SubSeq(q, 1, n), "none")
  /\ UNCHANGED <<used, reused>>

(* What a lone connection has received so far is remembered. *)
Received(cn) == [cn EXCEPT !.page = IF cn.lone THEN @ \o cn.flight ELSE <<>>, !.flight = <<>>]

Acked(c) ==
  /\ conn[c].tcp = "open" /\ conn[c].flight # <<>>
  /\ HandleConnection(c, conn[c].s, Received(conn[c]),
                      Awake(conn[c].s), <<>>, "acked")
  /\ UNCHANGED <<used, reused>>

Rexmit(c) ==
  /\ conn[c].tcp = "open" /\ conn[c].flight # <<>>
  /\ HandleConnection(c, conn[c].s, conn[c], Awake(conn[c].s), <<>>, "rexmit")
  /\ UNCHANGED <<used, reused>>

(* Ten seconds without an event. *)
TimerExpires(s) ==
  /\ s \in used /\ ~block[s].expired
  /\ block' = [block EXCEPT ![s].expired = TRUE]
  /\ UNCHANGED <<conn, used, textVars, reused, crashed>>

(* What a connection that has ended, and a block nobody names, still held  *)
(* matters to nobody and is left out.                                      *)
Gone(cn, tcp) == [cn EXCEPT !.tcp = tcp, !.s = IF tcp = "closed" THEN 1 ELSE @,
                            !.request = <<>>, !.flight = <<>>, !.page = <<>>, !.lone = FALSE]
Named(c, s) == \E d \in Conns \ {c} : conn[d].tcp \in {"open", "finwait"} /\ conn[d].s = s

(* Variants of Poll: one that does not free the block, and one that looks  *)
(* at the timer although a segment is on its way.                          *)
PollLeaking(c) ==
  /\ conn[c].tcp = "open" /\ conn[c].flight = <<>>
  /\ block[conn[c].s].expired
  /\ HandleConnection(c, conn[c].s, Gone(conn[c], "closed"),
                      [block[conn[c].s] EXCEPT !.script = FALSE], <<>>, "none")
  /\ UNCHANGED <<used, reused>>

PollAlways(c) ==
  /\ conn[c].tcp = "open"
  /\ block[conn[c].s].expired
  /\ used' = used \ {conn[c].s}
  /\ HandleConnection(c, conn[c].s, Gone(conn[c], "closed"),
                      [block[conn[c].s] EXCEPT !.script = FALSE], <<>>, "none")
  /\ UNCHANGED reused

(* The periodic poll resets a connection whose timer has expired, frees    *)
(* its block, and then handles the connection once more.                   *)
Poll(c) ==
  /\ conn[c].tcp = "open" /\ conn[c].flight = <<>>
  /\ LET s == conn[c].s IN
     IF block[s].expired
     THEN /\ used' = used \ {s}
          /\ HandleConnection(c, s, Gone(conn[c], "closed"),
                              [block[s] EXCEPT !.script = FALSE], <<>>, "none")
     ELSE /\ HandleConnection(c, s, conn[c], block[s], <<>>, "none")
          /\ UNCHANGED used
  /\ UNCHANGED reused

(* A variant of Ended that does not free the block. *)
EndedUnfreed(c, tcp) ==
  LET s == conn[c].s IN
  /\ conn' = [conn EXCEPT ![c] = Gone(@, tcp)]
  /\ block' = [block EXCEPT ![s].script = FALSE]
  /\ UNCHANGED <<used, textVars, reused, crashed>>

(* uip_closed, uip_aborted, uip_timedout: the script is forgotten and the  *)
(* block freed, whoever has it by now.                                     *)
Ended(c, tcp) ==
  LET s == conn[c].s IN
  /\ conn' = [conn EXCEPT ![c] = Gone(@, tcp)]
  /\ block' = [block EXCEPT ![s] = IF Named(c, s) THEN [@ EXCEPT !.script = FALSE] ELSE Fresh]
  /\ used' = used \ {s}
  /\ dropped' = dropped + (IF conn[c].tcp = "open" /\ block[s].at \in Buffered THEN 1 ELSE 0)
  /\ UNCHANGED <<buf, blen, table, row, overrun, reused, crashed>>

(* The peer's FIN; uIP keeps the connection, and the block's address, for  *)
(* a while.                                                                *)
PeerCloses(c) == conn[c].tcp \in {"open", "finwait"} /\ Ended(c, "closing")

(* A reset, or too many retransmissions. *)
ConnectionLost(c) == conn[c].tcp \in {"open", "finwait"} /\ Ended(c, "closed")

(* The last acknowledgement, a late reset or timeout: the second call. *)
EndsAgain(c) == conn[c].tcp = "closing" /\ Ended(c, "closed")

(* uIP ends a connection without a call: one that is closed on both sides  *)
(* (TIME_WAIT), or whose peer never sends its FIN (FIN_WAIT_2).            *)
Forget(c) ==
  /\ conn[c].tcp \in {"closing", "finwait"}
  /\ conn' = [conn EXCEPT ![c] = Gone(@, IF @.tcp = "closing" THEN "closed" ELSE "forgotten")]
  /\ UNCHANGED <<used, block, textVars, reused, crashed>>

(* Neighbours and links come and go; the entry an iterator is at may move  *)
(* or leave its list.  No connection is lone afterwards.                   *)
ListsChange ==
  /\ UNCHANGED <<used, block, buf, blen, overrun, dropped, reused, crashed>>
  /\ table' \in Tables
  /\ row' \in [1 .. Lists -> 0 .. 2 * MostRows]
  /\ \A k \in 1 .. Lists :
       row'[k] \in IF row[k] = 0 THEN {0} ELSE (1 .. Length(k))' \cup Removed
  /\ conn' = [c \in Conns |-> [conn[c] EXCEPT !.lone = FALSE, !.page = <<>>]]

-----------------------------------------------------------------------------

(* Nothing is said of what happens after a call through NULL or a write    *)
(* behind the buffer.                                                      *)
Running == ~crashed /\ ~overrun

Next ==
  /\ Running
  /\ \/ ListsChange
     \/ \E c \in Conns :
          \/ Connected(c) \/ NewData(c) \/ Acked(c) \/ Rexmit(c) \/ Poll(c)
          \/ PeerCloses(c) \/ ConnectionLost(c) \/ EndsAgain(c) \/ Forget(c)
     \/ \E s \in Blocks : TimerExpires(s)

Spec == Init /\ [][Next]_httpdVars

(* Timers run; uIP goes on with each connection: it polls one that is      *)
(* silent, gives up a segment that is never acknowledged, and ends a       *)
(* connection the server has closed one way or another.  No peer has to    *)
(* send or to close anything.                                              *)
Continues(c) ==
  \/ conn[c].tcp = "open" /\ block[conn[c].s].expired /\ Poll(c)
  \/ conn[c].flight # <<>> /\ (Acked(c) \/ ConnectionLost(c))
  \/ conn[c].tcp = "finwait" /\ (PeerCloses(c) \/ ConnectionLost(c) \/ Forget(c))

FairSpec ==
  /\ Spec
  /\ WF_httpdVars(Running /\ \E s \in Blocks : TimerExpires(s))
  /\ WF_httpdVars(Running /\ \E c \in Conns : Continues(c))

-----------------------------------------------------------------------------
(* Properties *)

Segments == {"headers"} \cup InScript
Pieces == (Segments \cup {"idle"}) \X (0 .. Lists) \X (0 .. 2 * MostRows)

TypeOK ==
  /\ \A c \in Conns :
       /\ conn[c].tcp \in {"new", "open", "finwait", "closing", "closed", "forgotten"}
       /\ conn[c].s \in Blocks
       /\ conn[c].request \in Seq(STRING)
       /\ conn[c].flight \in Seq(Pieces) /\ conn[c].page \in Seq(Pieces)
       /\ conn[c].lone \in BOOLEAN
  /\ used \subseteq Blocks
  /\ block \in [Blocks -> [words : 0 .. 2, at : Segments \cup {"idle"}, k : 0 .. Lists,
                           len : Nat, script : BOOLEAN, expired : BOOLEAN]]
  /\ buf \in Seq(Pieces)
  /\ blen \in 0 .. Len(buf)
  /\ table \in Tables
  /\ row \in [1 .. Lists -> Nat]
  /\ \A k \in 1 .. Lists : row[k] \in 0 .. Length(k) \cup Removed
  /\ dropped \in Nat
  /\ overrun \in BOOLEAN /\ reused \in BOOLEAN /\ crashed \in BOOLEAN

(* Every block in use belongs to exactly one connection that may still be  *)
(* called for it, or was lost for good with a connection the peer never    *)
(* closed; and each connection has a block.  This holds until memb_alloc   *)
(* gives away a block while a connection with a call to come still names   *)
(* it: the second memb_free of httpd-simple.c:217 frees it for its new     *)
(* owner.                                                                  *)
PoolAccounts ==
  ~reused =>
    LET owners(s) == {c \in Conns : /\ conn[c].tcp \in {"open", "finwait", "forgotten"}
                                    /\ conn[c].s = s}
    IN  \A s \in Blocks : Cardinality(owners(s)) = IF s \in used THEN 1 ELSE 0

(* The script is never called through a NULL pointer, in particular not by *)
(* the call of handle_connection that follows a timeout                    *)
(* (httpd-simple.c:238, 245); only a second end of a connection whose      *)
(* block has a new owner can take the script away under a page.            *)
NeverCallsNull == crashed => reused

WholePage ==
  <<<<"headers", 0, 0>>, <<"top", 0, 0>>>>
    \o FlattenSeq([k \in DOMAIN table |->
          <<<<"head", k, 0>>>> \o [i \in 1 .. table[k] |-> <<"row", k, i>>]
            \o <<<<"end", k, 0>>>>])
    \o <<<<"bottom", 0, 0>>>>

(* A connection that finds the buffer empty, stays the only open one and   *)
(* sees no list change gets the page, all of it if the server closes, and  *)
(* nothing else, whatever is retransmitted (webserver.c:45-58, 84-156).    *)
LonePageIsWhole ==
  \A c \in Conns : conn[c].lone =>
    /\ IsPrefix(conn[c].page \o conn[c].flight, WholePage)
    /\ conn[c].tcp = "finwait" /\ conn[c].page # <<>> => conn[c].page = WholePage

(* The text in the buffer is no more than one piece for each connection    *)
(* inside SEND and for each that ended there since the buffer was last     *)
(* empty: what ADD may find in front of it (webserver.c:48).               *)
TextHasOrigin ==
  ~reused => blen <= dropped + Cardinality({c \in Conns :
                       conn[c].tcp = "open" /\ block[conn[c].s].at \in Buffered})

(* Connections that are served to their end never write more than the      *)
(* buffer holds, however many and however long the lists: it takes so many *)
(* that were dropped inside SEND, none of the others acknowledged in       *)
(* between, that their leftovers fill it (webserver.c:45-53).              *)
BufferHolds == overrun => reused \/ dropped + CONNS > Room

(* No peer keeps a block for ever by silence: in the end all are back but  *)
(* those of connections the server closed and the peer did not; unless the *)
(* lists change for ever under an iterator, which may go on for ever then. *)
BlocksReturned ==
  \/ []<><<ListsChange>>_httpdVars
  \/ <>[](Running => used \subseteq {conn[c].s : c \in {d \in Conns : conn[d].tcp = "forgotten"}})
=============================================================================
