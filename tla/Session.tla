------------------------------ MODULE Session ------------------------------
(***************************************************************************)
(* A phone and its session, over a connection that may break (app.c): the  *)
(* loop of app_process from recv to send, with the transfer of             *)
(* HistoryPaging as its state.  What HistoryPaging calls a frame is here   *)
(* what the session hands to send, whose result it ignores: the frame may  *)
(* be on its way, or lost because the connection is gone or because the    *)
(* phone has not read for the 10 s of SO_SNDTIMEO; and a send on a         *)
(* connection that was reset raises SIGPIPE, which ends the server.  A     *)
(* frame of which only a part was sent counts as lost.                     *)
(*                                                                         *)
(* Process takes a message and answers it in one step: a send that blocks  *)
(* until the phone reads is a Process that comes after that, and one that  *)
(* blocks until SO_SNDTIMEO loses its frame.                               *)
(*                                                                         *)
(* The phone is external.  It asks for histories and heartbeats, and for   *)
(* other things that drop the transfer.  An Orderly phone follows the      *)
(* protocol and asks ahead: it may ask for the packages of its transfer    *)
(* faster than it reads them, and starts over only when nothing is on its  *)
(* way any more (it waits longer than a message takes).                    *)
(***************************************************************************)
EXTENDS HistoryPaging, Sequences

CONSTANTS
  Orderly,    \* does the phone follow the protocol?
  Window,     \* what a direction of the connection holds: messages
  QueryMax    \* bound: queries of a phone in one connection

ASSUME SessionAssumption ==
  /\ Orderly \in BOOLEAN
  /\ Window \in Nat \ {0}
  /\ QueryMax \in Nat

VARIABLES
  session,   \* "running", "over", or "aborted" with the whole server
  conn,      \* is the connection "up", or "down" on the phone's side?
  toServer,  \* messages on their way to the session
  toPhone,   \* answers on their way to the phone
  asked,     \* the packages the phone has asked for in its transfer
  owed,      \* the history frames it has asked for, and neither read nor lost
  last,      \* the last history frame it has read
  got,       \* the records it has read of that transfer
  missed,    \* the packages it has missed of that transfer, by their numbers
  queries    \* how many queries it has sent

phoneVars   == <<asked, last, got, missed, queries>>
sessionVars == <<vars, session, conn, toServer, toPhone, owed, phoneVars>>

\* messages, by what they do to a transfer; "other" is a message of any other handler,
\* or a query of the wrong length
Request == {"query", "follow", "beat", "other"}
\* an answer that is no history frame
OtherAnswer == NoFrame

SessionTypeOK ==
  /\ TypeOK
  /\ session \in {"running", "over", "aborted"}
  /\ conn \in {"up", "down"}
  /\ toServer \in Seq(Request) /\ Len(toServer) <= Window
  /\ toPhone \in Seq(Frame \cup {NoFrame}) /\ Len(toPhone) <= Window
  /\ asked \in 0 .. 255
  /\ owed \in Int
  /\ last \in Frame \cup {NoFrame}
  /\ got \in Nat
  /\ missed \in Int
  /\ queries \in 0 .. QueryMax

SessionInit ==
  /\ Init
  /\ session = "running"
  /\ conn = "up"
  /\ toServer = <<>>
  /\ toPhone = <<>>
  /\ asked = 0
  /\ owed = 0
  /\ last = NoFrame
  /\ got = 0
  /\ missed = 0
  /\ queries = 0

-----------------------------------------------------------------------------
(* The phone *)

\* a phone never asks for more packages than a transfer may have, an Orderly one for
\* no more than its own has
PhoneSends(r) ==
  /\ conn = "up" /\ session = "running"
  /\ Len(toServer) < Window
  /\ r = "query" => queries < QueryMax
  /\ r = "follow" => asked < 255
  /\ Orderly => /\ r \in {"query", "other"} => toServer = <<>> /\ toPhone = <<>>
                /\ r = "follow" => last.ctrl = FOLLOWS /\ asked < last.total
  /\ queries' = IF r = "query" THEN queries + 1 ELSE queries
  /\ asked' = CASE r = "query" -> 1 [] r = "follow" -> asked + 1 [] OTHER -> asked
  /\ owed' = IF r \in {"query", "follow"} THEN owed + 1 ELSE owed
  /\ last' = IF r \in {"query", "other"} THEN NoFrame ELSE last
  /\ toServer' = Append(toServer, r)
  /\ UNCHANGED <<vars, session, conn, toPhone, got, missed>>

\* the numbers of two packages tell how many were lost between them
PhoneReads ==
  LET a == Head(toPhone) IN
  /\ conn = "up" /\ toPhone # <<>>
  /\ toPhone' = Tail(toPhone)
  /\ \/ /\ a = OtherAnswer
        /\ UNCHANGED <<owed, last, got, missed>>
     \/ /\ a # OtherAnswer
        /\ owed' = owed - 1
        /\ last' = a
        /\ got' = IF a.sent <= 1 THEN a.count ELSE got + a.count
        /\ missed' = IF a.sent <= 1 THEN 0 ELSE missed + (a.sent - last.sent - 1)
  /\ UNCHANGED <<vars, session, conn, toServer, asked, queries>>

PhoneGone ==
  /\ conn = "up"
  /\ conn' = "down"
  /\ UNCHANGED <<vars, session, toServer, toPhone, owed, phoneVars>>

-----------------------------------------------------------------------------
(* The session *)

\* send: the frame is on its way, or lost, or the server is gone
Send(a) ==
  \/ /\ Len(toPhone) < Window
     /\ toPhone' = Append(toPhone, a)
     /\ UNCHANGED <<session, owed>>
  \/ /\ conn = "down" \/ Len(toPhone) = Window
     /\ owed' = IF a = OtherAnswer THEN owed ELSE owed - 1
     /\ UNCHANGED <<toPhone, session>>
  \/ /\ conn = "down"
     /\ session' = "aborted"
     /\ UNCHANGED <<toPhone, owed>>

NoAnswer == UNCHANGED <<toPhone, session, owed>>

\* mutant: a heartbeat drops the transfer, too
Handle_BeatDrops(r) ==
  \/ r = "query" /\ (PhoneQueryEmpty \/ \E found \in FoundCnt : PhoneQuery(found)) /\ Send(frame')
  \/ r = "follow" /\ PhoneFollowAck /\ Send(frame')
  \/ r = "follow" /\ pRecord.pkgTotal - pRecord.pkgSent < 1 /\ UNCHANGED vars /\ NoAnswer
  \/ r \in {"beat", "other"} /\ Drop /\ (NoAnswer \/ Send(OtherAnswer))

\* what the handler of each message does to the transfer, and what it sends; a
\* handler of another message answers if its request is granted
Handle(r) ==
  \/ r = "query" /\ (PhoneQueryEmpty \/ \E found \in FoundCnt : PhoneQuery(found)) /\ Send(frame')
  \/ r = "follow" /\ PhoneFollowAck /\ Send(frame')
  \/ r = "follow" /\ pRecord.pkgTotal - pRecord.pkgSent < 1 /\ UNCHANGED vars /\ NoAnswer
  \/ r = "beat" /\ UNCHANGED vars /\ NoAnswer
  \/ r = "other" /\ Drop /\ (NoAnswer \/ Send(OtherAnswer))

\* app_process takes the next message
Process ==
  /\ session = "running" /\ toServer # <<>>
  /\ toServer' = Tail(toServer)
  /\ Handle(Head(toServer))
  /\ UNCHANGED <<conn, phoneVars>>

\* mutant: the session ends without freeing an unfinished transfer
EndSession_Leaks ==
  /\ session = "running"
  /\ toServer = <<>> \/ conn = "down"
  /\ session' = "over"
  /\ UNCHANGED <<vars, conn, toServer, toPhone, owed, phoneVars>>

\* recv returns 0, an error, or nothing for 60 s
EndSession ==
  /\ session = "running"
  /\ toServer = <<>> \/ conn = "down"
  /\ Drop
  /\ session' = "over"
  /\ UNCHANGED <<conn, toServer, toPhone, owed, phoneVars>>

SessionNext ==
  \/ \E r \in Request : PhoneSends(r)
  \/ PhoneReads
  \/ PhoneGone
  \/ Process
  \/ EndSession

\* the session's thread runs on, and a phone reads what arrives
SessionFairness ==
  /\ WF_sessionVars(Process)
  /\ WF_sessionVars(PhoneReads)

SessionSpec == SessionInit /\ [][SessionNext]_sessionVars /\ SessionFairness

-----------------------------------------------------------------------------
(* Properties *)

\* The packages that reach an orderly phone are those of one transfer, in order, and each
\* one can be placed by its number alone.  The session counts a package as sent that send
\* has lost, because the phone asked ahead and has not read (pkgSent, pUpload): that shows
\* as a gap in the numbers, never as records that are repeated, moved or of another query.
PackagesArriveInOrder ==
  [][last' # last /\ last'.sent > 1 =>
        /\ last.ctrl = FOLLOWS
        /\ last'.sent > last.sent
        /\ last'.total = last.total
        /\ last'.room = last.room
        /\ last'.from = RecsPerPkg * (last'.sent - 1)]_sessionVars

\* A phone that has read the last package has read all the records that were found but
\* those of the packages whose numbers it has missed, unless the number of records is a
\* multiple of a package (see LastPackageCompletes).
HistoryArrivesWhole ==
  last.ctrl = LAST /\ (last.room % RecsPerPkg # 0 \/ last.room <= RecsPerPkg) =>
    got + RecsPerPkg * missed = last.room

\* A session that ends leaves no memory behind, whatever it was in the middle of.
NothingLeftBehind == session = "over" => heap = 0

\* Every query and every follow-ack of an orderly phone gets its answer, unless send loses
\* it, as long as the connection and the session last: heartbeats, the packages that are
\* asked for ahead, a send that timed out before it and failed lookups never swallow it.
AskedIsAnswered ==
  owed > 0 ~> (owed = 0 \/ session # "running" \/ conn = "down")
=============================================================================
