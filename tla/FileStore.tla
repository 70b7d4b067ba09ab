----------------------------- MODULE FileStore -----------------------------
(***************************************************************************)
(* What the file system promises.  A directory of slots holds files, each  *)
(* a sequence of bytes.  A read or a write first grows its file to the end *)
(* of its window, with bytes nobody has chosen; then a write replaces the  *)
(* bytes of the window in some order and a read collects them in theirs.   *)
(*                                                                         *)
(* When the power fails a file that was created may vanish and a file may  *)
(* lose what it has grown by, but each byte that is left is the one that   *)
(* was there, if it was not just being written.                            *)
(*                                                                         *)
(* The promise holds until reliable becomes false.                         *)
(***************************************************************************)
EXTENDS Integers, Sequences, SequencesExt

CONSTANTS Slots, Names

VARIABLES
    files,      \* by slot: the file's name and its bytes
    request,    \* the call in progress
    result,     \* what a read has collected
    reliable

vars == <<files, request, result, reliable>>

Absent == [name |-> "", data |-> <<>>]
NoRequest == [op |-> "none", slot |-> 0, offset |-> 0, len |-> 0, byte |-> ""]

Window == request.offset + 1 .. request.offset + request.len

Init ==
    /\ DOMAIN files = Slots
    /\ request = NoRequest
    /\ result = <<>>
    /\ reliable = TRUE

(* The directory changes by one file that appears, or by one that goes.     *)
Created(old, new) ==
    \E s \in Slots :
        /\ old[s] = Absent
        /\ new[s].name \notin {old[t].name : t \in Slots}
        /\ new = [old EXCEPT ![s] = [name |-> new[s].name, data |-> <<>>]]

Deleted(old, new) ==
    \E n \in Names :
        new = [s \in Slots |-> IF old[s].name = n THEN Absent ELSE old[s]]

ChangeDirectory ==
    /\ request = NoRequest
    /\ UNCHANGED <<request, result>>
    /\ LET old == files
           new == files'
       IN  Created(old, new) \/ Deleted(old, new)

(* A file grows to the end of the window: what it had is its beginning.     *)
Begin ==
    /\ request = NoRequest
    /\ request'.op \in {"read", "write"}
    /\ result' = <<>>
    /\ LET s    == request'.slot
           end  == request'.offset + request'.len
           old  == files
           new  == files'
           size == Len(old[s].data)
       IN  /\ old[s] # Absent
           /\ new = [old EXCEPT ![s].data = new[s].data]
           /\ Len(new[s].data) = IF end > size THEN end ELSE size
           /\ IsPrefix(old[s].data, new[s].data)

WriteSome ==
    /\ request.op = "write"
    /\ UNCHANGED <<request, result>>
    /\ LET s   == request.slot
           old == files
           new == files'
       IN  /\ new = [old EXCEPT ![s].data = new[s].data]
           /\ Len(new[s].data) = Len(old[s].data)
           /\ \A i \in DOMAIN old[s].data :
                \/ new[s].data[i] = old[s].data[i]
                \/ i \in Window /\ new[s].data[i] = request.byte

ReadSome ==
    /\ request.op = "read"
    /\ UNCHANGED <<files, request>>
    /\ IsPrefix(result, result')
    /\ LET data == files[request.slot].data
       IN  \A i \in DOMAIN result' : i <= request.len /\ result'[i] = data[request.offset + i]

End ==
    /\ request # NoRequest
    /\ request' = NoRequest
    /\ result' = <<>>
    /\ UNCHANGED files
    /\ LET data == files[request.slot].data
       IN  \/ request.op = "write" /\ \A i \in Window : data[i] = request.byte
           \/ request.op = "read" /\ Len(result) = request.len

(* What the power failure may have changed: the bytes just being written.   *)
InDanger(s, i) == request.op = "write" /\ request.slot = s /\ i \in Window

PowerFails ==
    /\ request' = NoRequest
    /\ result' = <<>>
    /\ LET old == files
           new == files'
       IN  /\ DOMAIN new = Slots
           /\ \A s \in Slots :
                \/ new[s] = Absent
                \/ /\ new[s].name = old[s].name
                   /\ Len(new[s].data) <= Len(old[s].data)
                   /\ \A i \in DOMAIN new[s].data :
                        InDanger(s, i) \/ new[s].data[i] = old[s].data[i]

Promised ==
    \/ ChangeDirectory
    \/ Begin
    \/ WriteSome
    \/ ReadSome
    \/ End
    \/ PowerFails

Next ==
    \/ reliable /\ reliable' /\ Promised
    \/ ~reliable'

Spec == Init /\ [][Next]_vars
=============================================================================
