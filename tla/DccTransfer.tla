---------------------------- MODULE DccTransfer ----------------------------
(***************************************************************************)
(* One DCC SEND between two clients (protocols/irc/dcc.go): the sender     *)
(* listens and announces its port through the server, the receiver         *)
(* connects when its user takes the offer, or listens itself when the      *)
(* offer is a reverse one (port 0).  The file goes over TCP in blocks; the *)
(* receiver acks the bytes it got as a counter of a fixed width.           *)
(* The sender of a reverse offer is another program: this one never makes  *)
(* them.  A socket that is closed with data still queued drops it (RST).   *)
(***************************************************************************)
EXTENDS Naturals, Sequences, SequencesExt

CONSTANTS
    Sizes,       \* sizes of files, in blocks (dccBlock)
    Width,       \* values of the ack counter (2^32 bytes in the code)
    None

SizesAssumption == Sizes \subseteq Nat /\ Width \in Nat \ {0} /\ None \notin {"part", "whole"}

VARIABLES
    size, reverse,   \* the file and the kind of the offer
    tx, rx,          \* how far the sender and the receiver are
    offer,           \* c.offers of the receiver holds this offer
    line,            \* the CTCP line on its way: None, "offer", "answer"
    written, queue, got,  \* blocks written, in the socket, received
    acks, acked,     \* counters on their way back; acked() has seen the last one
    socket,          \* "none", "open", "closed" by one of the ends
    labels,          \* c.xfers of the two clients
    source, target,  \* the file sent; the name at the receiver: None, "part", "whole"
    posted           \* the ends that posted their EvSent or EvDownloaded
dccVars == <<size, reverse, tx, rx, offer, line, written, queue, got, acks, acked, socket,
             labels, source, target, posted>>

Over == {"ok", "failed"}
Init ==
    /\ size \in Sizes /\ reverse \in BOOLEAN
    /\ tx = "idle" /\ rx = "idle" /\ offer = FALSE /\ line = None
    /\ written = 0 /\ queue = 0 /\ got = 0 /\ acks = <<>> /\ acked = FALSE
    /\ socket = "none" /\ labels = {} /\ source = "there" /\ target = None /\ posted = {}
data == <<written, queue, got, acks, acked>>
files == <<source, target>>

\* SendFile and dccSend up to the listener: a room, an empty or absent file,
\* no address or no port end it at once.  A reverse offer comes from outside.
SendFile ==
    /\ tx = "idle"
    /\ \/ tx' = "pacing" /\ labels' = labels \cup {"tx"} /\ UNCHANGED posted
       \/ tx' = "failed" /\ posted' = posted \cup {"tx"} /\ UNCHANGED labels
    /\ UNCHANGED <<size, reverse, rx, offer, line, data, socket, files>>

TxFails ==
    /\ tx' = "failed" /\ labels' = labels \ {"tx"} /\ posted' = posted \cup {"tx"}
    /\ socket' = IF socket = "open" /\ tx \in {"streaming", "acking"} THEN "closed" ELSE socket
    /\ UNCHANGED <<size, reverse, rx, offer, line, data, files>>

\* The offer goes out, or the network is down or logged out.
SendOffer ==
    /\ tx = "pacing"
    /\ \/ /\ tx' = "waiting" /\ line' = "offer"
          /\ UNCHANGED <<size, reverse, rx, offer, data, socket, labels, files, posted>>
       \/ TxFails

\* A bug: nothing ends the wait at the listener.
TxWaitsOn == tx \in {"streaming", "acking"} /\ TxFails
\* dccWait with nobody at the listener, the idle deadline of dccConn, or ctx.
TxGivesUp == tx \in {"waiting", "streaming", "acking"} /\ TxFails

\* onDCC: parseOffer takes the line, or drops it (bad name, size, address).
OnDCC ==
    /\ line = "offer" /\ line' = None /\ offer' \in {offer, TRUE}
    /\ UNCHANGED <<size, reverse, tx, rx, data, socket, labels, files, posted>>

\* /dcc get, or the download of the message: Download, then dccGet.
Download ==
    /\ offer /\ rx = "idle" /\ target # "whole"
    /\ rx' = "connecting" /\ labels' = labels \cup {"rx"}
    /\ UNCHANGED <<size, reverse, tx, offer, line, data, socket, files, posted>>

\* Every way out of dccGet: the part file goes, the label too, then the event.
RxEnds(how, name) ==
    /\ rx' = how /\ target' = name
    /\ labels' = labels \ {"rx"} /\ posted' = posted \cup {"rx"}
    /\ socket' = IF socket = "open" THEN "closed" ELSE socket
    /\ UNCHANGED <<size, reverse, tx, offer, line, data, source>>

\* dccConnect: the port of the sender, or ours announced on a reverse offer.
Meet ==
    /\ socket' = "open" /\ tx' = "streaming" /\ rx' = "streaming"
    /\ offer' = FALSE /\ target' = "part"
    /\ UNCHANGED <<size, reverse, data, labels, source, posted>>
DccConnect ==
    /\ rx = "connecting"
    /\ \/ ~reverse /\ tx = "waiting" /\ Meet /\ UNCHANGED line
       \/ ~reverse /\ tx # "waiting" /\ RxEnds("failed", None)
       \/ /\ reverse /\ rx' = "listening" /\ line' = "answer"
          /\ UNCHANGED <<size, reverse, tx, offer, data, socket, labels, files, posted>>
       \/ reverse /\ RxEnds("failed", None)
\* The other program takes the answer and connects to us.
PeerConnects == reverse /\ line = "answer" /\ line' = None /\ rx = "listening" /\ tx = "waiting" /\ Meet

\* The receiver gives up: dccWait, the deadline of a read, a full disk, ctx.
RxGivesUp == rx \in {"connecting", "listening", "streaming"} /\ RxEnds("failed", None)

\* stream, sending: a block into the socket; the last one ends the loop.
Write ==
    /\ tx = "streaming" /\ written < size
    /\ IF socket = "open"
       THEN /\ written' = written + 1 /\ queue' = queue + 1
            /\ tx' = IF written + 1 = size THEN "acking" ELSE tx
            /\ UNCHANGED <<size, reverse, rx, offer, line, got, acks, acked, socket, labels, files, posted>>
       ELSE TxFails

\* stream, receiving, through the ackWriter: a block, then its ack.
Read ==
    /\ rx = "streaming" /\ queue > 0 /\ got < size /\ socket # "reset"
    /\ queue' = queue - 1 /\ got' = got + 1
    /\ acks' = IF socket = "open" THEN Append(acks, (got + 1) % Width) ELSE acks
    /\ UNCHANGED <<size, reverse, tx, rx, offer, line, written, acked, socket, labels, files, posted>>

\* stream ends: the part file takes its name when it is whole.
Close == rx = "streaming" /\ got = size /\ RxEnds("ok", "whole")
\* A bug: what came is given the name, whole or not.
ShortKept == /\ rx = "streaming" /\ got < size
             /\ socket = "reset" \/ (socket = "closed" /\ queue = 0)
             /\ RxEnds("ok", "whole")
Short == /\ rx = "streaming" /\ got < size
         /\ socket = "reset" \/ (socket = "closed" /\ queue = 0)
         /\ RxEnds("failed", None)

\* acked: a counter is read all along; the last byte is known by the value
\* of the counter alone.
ReadAck ==
    /\ tx \in {"streaming", "acking"} /\ acks # <<>>
    /\ acks' = Tail(acks) /\ acked' = (acked \/ Head(acks) = size % Width)
    /\ UNCHANGED <<size, reverse, tx, rx, offer, line, written, queue, got, socket, labels, files, posted>>

\* The sender is done at the last ack: the socket closes, the file sent is
\* removed when it was a temporary one.
Done(ready) ==
    /\ tx = "acking" /\ ready
    /\ tx' = "ok" /\ labels' = labels \ {"tx"} /\ posted' = posted \cup {"tx"}
    /\ source' \in {source, "removed"}
    /\ \/ socket' = "reset" /\ queue > 0 /\ queue' = 0
       \/ socket' = (IF socket = "open" THEN "closed" ELSE socket) /\ UNCHANGED queue
    /\ UNCHANGED <<size, reverse, rx, offer, line, written, got, acks, acked, target>>
\* A bug: the socket is closed as soon as the last block is written.
SentNoAck == Done(TRUE)
Sent == Done(acked)
\* The counters end (the peer is gone) before the last one.
AckError == tx = "acking" /\ ~acked /\ acks = <<>> /\ socket = "closed" /\ TxFails

Next == \/ SendFile \/ SendOffer \/ TxGivesUp \/ OnDCC \/ Download \/ DccConnect \/ PeerConnects
        \/ RxGivesUp \/ Write \/ Read \/ Close \/ Short \/ ReadAck \/ Sent \/ AckError

Spec == Init /\ [][Next]_dccVars

(***************************************************************************)
(* Properties                                                              *)
(***************************************************************************)
\* A file reported sent is whole at the peer, up to the width of the counter
\* ("gives nil once the peer acked size bytes", dcc.go:288): its temporary
\* copy may be removed.  Above the width, SentAnySize does not hold.
SentAnySize == tx = "ok" => got = size
SentWhole == size < Width => SentAnySize

\* The receiver names a file only when it is whole, and a transfer that is
\* over leaves no part file and no label in /dcc.
NamedWhole == /\ target = "whole" => got = size
              /\ rx \in Over => target # "part"
              /\ \A e \in posted : e \notin labels
\* A transfer under way always ends, with its event: the deadlines of the
\* listener and of the socket end what the peer does not.
TransferOver == (tx = "idle" \/ "tx" \in posted) /\ (rx = "idle" \/ "rx" \in posted)
=============================================================================
