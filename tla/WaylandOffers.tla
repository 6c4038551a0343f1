--------------------------- MODULE WaylandOffers ---------------------------
(***************************************************************************)
(* The agent's Wayland clipboard: a data-control manager that publishes    *)
(* the current copy to its devices as an offer, and serves what a client   *)
(* receives from an offer through a pipe, by a worker of its own that      *)
(* first gets the content (which may take seconds) and then writes it.     *)
(* The event loop looks for a new copy every 100 ms.                       *)
(*                                                                         *)
(* A copy is its revision; the content of a format at a revision is a      *)
(* sequence of PipeParts parts, which the pipe takes one at a time.  The   *)
(* source answers get only for the copy it has (Store::get, or the         *)
(* snapshot file's revision).                                              *)
(***************************************************************************)
EXTENDS Integers, Sequences, FiniteSets

CONSTANTS
    Device, Mime, Worker,
    PipeParts,      \* parts a content is written in
    MaxOffers,      \* the limit of a device's outstanding offers (32)
    MaxOffered     \* bound: copies

ASSUME WaylandAssumption ==
    /\ IsFiniteSet(Worker)                 \* the limit of transfers (8)
    /\ {PipeParts, MaxOffers, MaxOffered} \subseteq Nat

VARIABLES
    source,     \* what the source offers: revision and formats
    known,      \* the loop's copy of it; revision 0 before the first
    devices,    \* devices[d]: the offers its client holds, and the one selected
    worker,     \* worker[x]: the transfer it serves
    stopped     \* the server has stopped

wlVars == <<source, known, devices, worker, stopped>>

PipeContent(r, m) == [i \in 1..PipeParts |-> <<r, m, i>>]
NoOffer == [revision |-> 0, formats |-> {}]
FreeWorker == [pc |-> "free", revision |-> 0, mime |-> 0, pipe |-> <<>>, bytes |-> <<>>]

WlInit ==
    /\ \E fs \in SUBSET Mime : source = [revision |-> 1, formats |-> fs]
    /\ known = NoOffer
    /\ devices = [d \in {} |-> NoOffer]
    /\ worker = [x \in Worker |-> FreeWorker]
    /\ stopped = FALSE

-----------------------------------------------------------------------------
\* Another copy: the agent's Store, or the snapshot file, is replaced.
NewCopy ==
    /\ source.revision < MaxOffered
    /\ \E fs \in SUBSET Mime : source' = [revision |-> source.revision + 1, formats |-> fs]
    /\ UNCHANGED <<known, devices, worker, stopped>>

\* publish: a device is told that there is nothing, or given an offer and
\* told that it is the selection; one with too many offers is disconnected.
Published(device, copy) ==
    IF copy.formats = {} THEN [device EXCEPT !.selected = 0]
    ELSE [offers |-> device.offers \cup {copy.revision}, selected |-> copy.revision]
Overrun(device, copy) == copy.formats # {} /\ Cardinality(device.offers) >= MaxOffers

\* refresh: what every client is told when the source has another copy.
Refreshed(ds) ==
    IF source.revision = known.revision THEN ds
    ELSE [d \in {e \in DOMAIN ds : ~Overrun(ds[e], source)} |-> Published(ds[d], source)]
Refresh ==
    /\ ~stopped
    /\ known' = source
    /\ devices' = Refreshed(devices)
    /\ UNCHANGED <<source, worker, stopped>>

\* A client asks for a device: the copy is refreshed and published to it.
GetDevice(d) ==
    /\ ~stopped /\ d \notin DOMAIN devices
    /\ known' = source
    /\ devices' = [e \in DOMAIN Refreshed(devices) \cup {d} |->
                      IF e = d THEN Published([offers |-> {}, selected |-> 0], source) ELSE Refreshed(devices)[e]]
    /\ UNCHANGED <<source, worker, stopped>>

\* The client destroys an offer, or goes.
DestroyOffer(d, r) ==
    /\ d \in DOMAIN devices /\ r \in devices[d].offers
    /\ devices' = [devices EXCEPT ![d].offers = @ \ {r}]
    /\ UNCHANGED <<source, known, worker, stopped>>
WlDisconnect(d) ==
    /\ d \in DOMAIN devices
    /\ devices' = [e \in DOMAIN devices \ {d} |-> devices[e]]
    /\ UNCHANGED <<source, known, worker, stopped>>

\* Receive: refused, which closes the pipe, unless the offer is still the
\* source's copy and the loop's, it has the format, and a worker is free.
StillCurrent(r) == r = source.revision /\ r = known.revision
Receive(d, r, m, x) ==
    /\ ~stopped /\ d \in DOMAIN devices /\ r \in devices[d].offers
    /\ StillCurrent(r) /\ m \in known.formats
    /\ worker[x].pc = "free"
    /\ worker' = [worker EXCEPT ![x] = [FreeWorker EXCEPT !.pc = "getting", !.revision = r, !.mime = m]]
    /\ UNCHANGED <<source, known, devices, stopped>>

\* The worker gets the content of the offer's copy, if that is still there.
\* Mutant: the worker gets whatever is the copy by now.
FetchAny(x) ==
    /\ worker[x].pc = "getting"
    /\ worker' = [worker EXCEPT ![x].pc = "writing", ![x].bytes = PipeContent(source.revision, worker[x].mime)]
    /\ UNCHANGED <<source, known, devices, stopped>>
WorkerFetch(x) ==
    /\ worker[x].pc = "getting"
    /\ IF source.revision = worker[x].revision
       THEN \/ worker' = [worker EXCEPT ![x].pc = "writing", ![x].bytes = PipeContent(source.revision, worker[x].mime)]
            \/ worker' = [worker EXCEPT ![x].pc = "closed"]      \* the request failed or timed out
       ELSE worker' = [worker EXCEPT ![x].pc = "closed"]
    /\ UNCHANGED <<source, known, devices, stopped>>

\* write_pipe: as much as the pipe takes; it ends when all is written, when
\* the server stops, or when the reader takes nothing for too long.
WritePipe(x) ==
    /\ worker[x].pc = "writing"
    /\ \/ /\ ~stopped /\ Len(worker[x].pipe) < PipeParts
          /\ worker' = [worker EXCEPT ![x].pipe = Append(@, worker[x].bytes[Len(@) + 1])]
       \/ /\ worker' = [worker EXCEPT ![x].pc = IF Len(worker[x].pipe) = PipeParts THEN "served" ELSE "closed"]
    /\ UNCHANGED <<source, known, devices, stopped>>

\* The transfer is over and its place free for another.
Forget(x) ==
    /\ worker[x].pc \in {"served", "closed"}
    /\ worker' = [worker EXCEPT ![x] = FreeWorker]
    /\ UNCHANGED <<source, known, devices, stopped>>

\* The server is dropped with its session; its clients are disconnected.
WlStop ==
    /\ ~stopped /\ stopped' = TRUE
    /\ devices' = [d \in {} |-> NoOffer]
    /\ UNCHANGED <<source, known, worker>>

WlNext ==
    \/ NewCopy \/ Refresh \/ WlStop
    \/ \E d \in Device : GetDevice(d) \/ WlDisconnect(d) \/ \E r \in 1..MaxOffered : DestroyOffer(d, r)
    \/ \E d \in Device, r \in 1..MaxOffered, m \in Mime, x \in Worker : Receive(d, r, m, x)
    \/ \E x \in Worker : WorkerFetch(x) \/ WritePipe(x) \/ Forget(x)

WlSpec == WlInit /\ [][WlNext]_wlVars

-----------------------------------------------------------------------------
\* What is written to a pipe is the content of the offer it was received from,
\* or the beginning of it, whatever is copied while the worker waits and
\* writes; only a whole content counts as served.
OfferServesOwn ==
    \A x \in Worker :
        /\ \A i \in DOMAIN worker[x].pipe : worker[x].pipe[i] = <<worker[x].revision, worker[x].mime, i>>
        /\ worker[x].pc = "served" => Len(worker[x].pipe) = PipeParts

\* A device's selection is one of the copies the loop has published last: once
\* the loop has a copy, no device is left with an older one selected.
SelectionCurrent ==
    \A d \in DOMAIN devices :
        devices[d].selected = IF known.formats = {} THEN 0 ELSE known.revision
=============================================================================
