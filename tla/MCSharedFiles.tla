--------------------------- MODULE MCSharedFiles ---------------------------
(***************************************************************************)
(* One instance for the two modules whose requests overlap at files: a     *)
(* behaviour is about the shared files or about the data rooms, as part    *)
(* says, and the other one rests.                                          *)
(***************************************************************************)
EXTENDS SharedFiles, DataRooms, TLC

VARIABLE part

AtFilesOrRooms ==
    /\ Init /\ RoomsInit
    /\ \/ part = "files"
       \/ part = "rooms" /\ which = "env" /\ live = Absent

FilesOrRooms ==
    \/ part = "files" /\ Next /\ UNCHANGED <<roomsVars, part>>
    \/ part = "rooms" /\ RoomsNext /\ UNCHANGED <<vars, part>>

SpecOfEither == AtFilesOrRooms /\ [][FilesOrRooms]_<<vars, roomsVars, part>>

\* Requests are interchangeable in either part, and so are rooms and addresses in
\* the one and values, which stand for addresses here, in the other.
Symmetry == Permutations(Rooms) \cup Permutations(Emails) \cup Permutations(Handlers)
=============================================================================
