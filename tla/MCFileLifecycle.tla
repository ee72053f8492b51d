-------------------------- MODULE MCFileLifecycle --------------------------
(* The inventory twice: the files in detail beside extraction, and the      *)
(* courses.  They share no state here, so a behaviour is one of one of them *)
(* while the other rests.                                                   *)
(*                                                                          *)
(* A file of each extraction command; two roots, the second a course of the *)
(* first, with a directory of a reserved name and two of one name.          *)
EXTENDS FileLifecycle, CourseCatalog, TLC
CONSTANTS f1, f2, c1, c2
MCCategory == f1 :> "text" @@ f2 :> "data"
Texts == Permutations({c1, c2})

MCInRoot == [home |-> {"algebra", "misc", "index"}, algebra |-> {"notes", "sets"}]
MCBelow  == [algebra |-> {"notes"}, misc |-> {}, sets |-> {}]
MCNameOf == [algebra |-> "algebra", misc |-> "GENERAL", sets |-> "algebra"]

VARIABLE side \* which of the two moves
LocalInit ==
  /\ side \in {"files", "courses"}
  /\ Init /\ CatalogInit
  /\ side = "courses" => disk = [f \in Files |-> [content |-> Gone, stamp |-> 0]] \* the other rests in one state
  /\ side = "files" => coursesRoot = "home" /\ archive = {}
AtBounds == moves = MaxMoves /\ Len(records) = MaxPasses /\ pass = NoPass
LocalNext ==
  \/ side = "files" /\ Next /\ UNCHANGED <<catalogVars, side>>
  \/ side = "courses" /\ CatalogNext /\ UNCHANGED <<vars, side>>
  \/ AtBounds /\ UNCHANGED <<vars, catalogVars, side>>
LocalSpec == LocalInit /\ [][LocalNext]_<<vars, catalogVars, side>>
=============================================================================
