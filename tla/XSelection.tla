----------------------------- MODULE XSelection -----------------------------
(***************************************************************************)
(* The agent's X11 clipboard: one connection, whose client converts the    *)
(* selection into properties of its windows and reads them.  A value of at *)
(* most CHUNK bytes becomes the property at once; a longer one is sent     *)
(* incrementally (INCR): each time the client deletes the property the     *)
(* server puts the next chunk there, and an empty one at the end.  The     *)
(* server keeps one incremental transfer per connection.                   *)
(*                                                                         *)
(* A value is the sequence of its units, Chunk of them to a property.  The *)
(* client follows the protocol, reads a property in parts of any size,     *)
(* and may destroy a window or change a property of its own at any time.   *)
(* One paste per window; atoms, graphics contexts, byte orders and the     *)
(* requests that change nothing are left out.                              *)
(***************************************************************************)
EXTENDS Integers, Sequences, FiniteSets

CONSTANTS
    Window,        \* windows of the client, each with one paste
    Chunk,         \* units in a property (64 KiB)
    Sizes,         \* sizes of the clipboard's values
    MaxProperties, \* the limit of properties (128)
    NoTransfer

Prop == {"paste", "own"}
Key == Window \X Prop

ASSUME XAssumption ==
    /\ Chunk \in Nat \ {0} /\ Sizes \subseteq Nat /\ MaxProperties \in Nat
    /\ NoTransfer \notin [key : Key, bytes : Seq(Nat), offset : Nat]

VARIABLES
    windows,     \* the windows that exist
    properties,  \* the properties, by key
    transfer,    \* the incremental transfer under way, or NoTransfer
    events,      \* windows whose paste has a new chunk, in order, not taken yet
    paste        \* paste[w]: what the client is doing with the window

xVars == <<windows, properties, transfer, events, paste>>

XValue(n) == [i \in 1..n |-> i]
Slice(bytes, from, n) == SubSeq(bytes, from + 1, IF from + n < Len(bytes) THEN from + n ELSE Len(bytes))

XInit ==
    /\ windows = {}
    /\ properties = [k \in {} |-> NoTransfer]
    /\ transfer = NoTransfer
    /\ events = <<>>
    /\ paste = [w \in Window |-> [pc |-> "none", size |-> 0, got |-> <<>>, at |-> 0]]

-----------------------------------------------------------------------------
(* Properties and their notifications: those the client acts on *)

PutProperty(key, kind, bytes) == [k \in DOMAIN properties \cup {key} |->
                             IF k = key THEN [kind |-> kind, bytes |-> bytes] ELSE properties[k]]
LessProperties(keys) == [k \in DOMAIN properties \ keys |-> properties[k]]

\* Deleting the property of the transfer puts its next chunk in its place;
\* once an empty chunk has been put the transfer is over.
NextEnd == IF transfer.offset + Chunk < Len(transfer.bytes) THEN transfer.offset + Chunk ELSE Len(transfer.bytes)
Continues(key) == transfer # NoTransfer /\ transfer.key = key
TransferFinished == transfer.offset = Len(transfer.bytes)
DeleteKey(key) ==
    IF Continues(key)
    THEN /\ properties' = PutProperty(key, "value", Slice(transfer.bytes, transfer.offset, Chunk))
         /\ transfer' = IF TransferFinished THEN NoTransfer ELSE [transfer EXCEPT !.offset = NextEnd]
         /\ events' = Append(events, key[1])
    ELSE /\ properties' = LessProperties({key})
         /\ UNCHANGED <<transfer, events>>

-----------------------------------------------------------------------------
(* Requests *)

CreateWindow(w) ==
    /\ w \notin windows /\ paste[w].pc = "none"
    /\ windows' = windows \cup {w}
    /\ UNCHANGED <<properties, transfer, events, paste>>

\* Destroying a window takes its properties and its transfer with it.
DestroyWindow(w) ==
    /\ w \in windows
    /\ windows' = windows \ {w}
    /\ properties' = LessProperties({w} \X Prop)
    /\ transfer' = IF transfer # NoTransfer /\ transfer.key[1] = w THEN NoTransfer ELSE transfer
    /\ paste' = [paste EXCEPT ![w].pc = IF @ = "done" THEN @ ELSE "gone"]
    /\ UNCHANGED events                               \* the client ignores those of the window

\* The client's own property, for negotiation.
ChangeProperty(w) ==
    /\ w \in windows /\ Cardinality(DOMAIN properties) < MaxProperties
    /\ properties' = PutProperty(<<w, "own">>, "value", <<>>)
    /\ UNCHANGED <<windows, transfer, events, paste>>
DeleteProperty(w) ==
    /\ w \in windows /\ <<w, "own">> \in DOMAIN properties
    /\ DeleteKey(<<w, "own">>)
    /\ UNCHANGED <<windows, paste>>

\* ConvertSelection: refused when there is nothing to paste, while a transfer
\* is under way, or at the limit of properties.
Busy == transfer # NoTransfer \/ Cardinality(DOMAIN properties) >= MaxProperties
Convert(w) ==
    /\ w \in windows /\ paste[w].pc = "none"
    /\ LET key == <<w, "paste">>
       IN  \/ /\ paste' = [paste EXCEPT ![w].pc = "refused"]
              /\ UNCHANGED <<properties, transfer, events>>
           \/ /\ ~Busy
              /\ \E n \in Sizes :
                    /\ paste' = [paste EXCEPT ![w] = [pc |-> "ready", size |-> n, got |-> <<>>, at |-> 0]]
                    /\ IF n > Chunk
                       THEN /\ transfer' = [key |-> key, bytes |-> XValue(n), offset |-> 0]
                            /\ properties' = PutProperty(key, "incr", <<n>>)
                       ELSE properties' = PutProperty(key, "value", XValue(n)) /\ UNCHANGED transfer
              /\ UNCHANGED events                  \* taken before the selection is announced
    /\ UNCHANGED windows

\* A part of a property from where the client is in it, and what that makes
\* of its paste: the rest of the property is read next, or the next chunk.
PartEnd(p, bytes, n) == IF p.at + n < Len(bytes) THEN p.at + n ELSE Len(bytes)
GotMore(p, bytes, n) == p.got \o Slice(bytes, p.at, n)
AfterPart(p, kind, bytes, n) ==
    IF kind = "incr" THEN [p EXCEPT !.pc = "waiting"]
    ELSE IF PartEnd(p, bytes, n) < Len(bytes)
    THEN [p EXCEPT !.got = GotMore(p, bytes, n), !.at = PartEnd(p, bytes, n)]
    ELSE [p EXCEPT !.got = GotMore(p, bytes, n), !.at = 0,
                   !.pc = IF p.pc = "chunk" /\ bytes # <<>> THEN "waiting" ELSE "done"]

\* GetProperty with delete: a part of the property, which is deleted when
\* the part is the rest of it.
\* Mutant: a property is deleted whatever part of it was read.
DeletesAlways(bytes, end) == TRUE
Deletes(bytes, end) == end = Len(bytes)
GetProperty(w, n, key, p) ==
    /\ IF Deletes(p.bytes, PartEnd(paste[w], p.bytes, n)) THEN DeleteKey(key) ELSE UNCHANGED <<properties, transfer, events>>
    /\ paste' = [paste EXCEPT ![w] = AfterPart(@, p.kind, p.bytes, n)]

\* The client reads the announced property, or the chunk it was notified of.
ReadProperty(w) ==
    /\ w \in windows /\ paste[w].pc \in {"ready", "chunk"}
    /\ <<w, "paste">> \in DOMAIN properties
    /\ \E n \in 1..Chunk : GetProperty(w, n, <<w, "paste">>, properties[<<w, "paste">>])
    /\ UNCHANGED windows

\* The client takes a notification: a new value is the chunk it waits for.
TakeNotification ==
    /\ events # <<>>
    /\ events' = Tail(events)
    /\ paste' = [paste EXCEPT ![Head(events)].pc = IF @ = "waiting" THEN "chunk" ELSE @]
    /\ UNCHANGED <<windows, properties, transfer>>

XNext ==
    \/ \E w \in Window : CreateWindow(w) \/ DestroyWindow(w) \/ ChangeProperty(w) \/ DeleteProperty(w) \/ Convert(w) \/ ReadProperty(w)
    \/ TakeNotification

XSpec == XInit /\ [][XNext]_xVars

-----------------------------------------------------------------------------
\* A paste that has ended has the whole value, of whatever size and read in
\* whatever parts; one that waits for a chunk has its notification under way,
\* so that no paste hangs between two chunks (delete, request 20).
PasteWhole ==
    \A w \in Window :
        /\ paste[w].pc = "done" => paste[w].got = XValue(paste[w].size)
        /\ paste[w].pc = "waiting" => \E i \in DOMAIN events : events[i] = w
=============================================================================
