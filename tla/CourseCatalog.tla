---------------------------- MODULE CourseCatalog ----------------------------
(***************************************************************************)
(* The table of courses, as inventory runs keep it (inventory/core.py).    *)
(* A course is a directory of the configured root; the files directly in   *)
(* the root belong to a synthetic course.  Rows outlive their directories, *)
(* and the root may be configured anew, to a course directory even.        *)
(*                                                                         *)
(* A run commits its own record, then does all of its work in one          *)
(* transaction.  file_count and total_bytes of a course are represented by *)
(* the set of files they count, files_seen of a run by the set it counted. *)
(* Rows of courses are never deleted nor renamed, so a name, which is      *)
(* unique, stands for the id.                                              *)
(***************************************************************************)
EXTENDS Naturals, Sequences

CONSTANTS
  Roots,       \* values of config.courses_root
  CourseDirs,  \* directories in them
  CourseFiles, \* files below them
  InRoot,      \* root -> the directories and files directly in it
  Below,       \* directory -> the files anywhere below it
  NameOf,      \* directory -> its name
  General,     \* GENERAL_COURSE_NAME
  Reserved,    \* the names equal to it but for their case
  NoCourse,    \* no row
  MaxPasses, MaxMoves \* bounds: runs; changes of the archive and of the root

DirsIn(r) == InRoot[r] \cap CourseDirs
CourseNames == {General} \cup {NameOf[d] : d \in CourseDirs}

\* A tree: the directories of a root have names of their own and share no file.
ASSUME CatalogAssumption ==
  /\ CourseDirs \cap CourseFiles = {}
  /\ InRoot \in [Roots -> SUBSET (CourseDirs \cup CourseFiles)]
  /\ Below \in [CourseDirs -> SUBSET CourseFiles]
  /\ \A r \in Roots : \A d \in DirsIn(r) :
       /\ InRoot[r] \cap Below[d] = {}
       /\ \A e \in DirsIn(r) \ {d} : NameOf[d] # NameOf[e] /\ Below[d] \cap Below[e] = {}
  /\ General \in Reserved /\ NoCourse \notin CourseNames
  /\ NoCourse \notin [path : Roots \cup CourseDirs, files : SUBSET CourseFiles]
  /\ MaxPasses \in Nat /\ MaxMoves \in Nat

VARIABLES
  coursesRoot, \* config.courses_root of the next run
  archive,     \* the directories and files there are
  moves,
  catalog,     \* the committed tables: rows of courses, the course of each file row, and
               \* the files not marked as missing
  records,     \* extraction_runs, in the order of their ids
  pass         \* the inventory run, with its view of the tables
catalogVars == <<coursesRoot, archive, moves, catalog, records, pass>>

-----------------------------------------------------------------------------
NoPass == [stage |-> "none"]

CatalogInit ==
  /\ coursesRoot \in Roots
  /\ archive \in SUBSET (CourseDirs \cup CourseFiles)
  /\ moves = 0
  /\ catalog = [courses |-> [n \in CourseNames |-> NoCourse],
                courseOf |-> [f \in CourseFiles |-> NoCourse], present |-> {}]
  /\ records = <<>>
  /\ pass = NoPass

Move == moves < MaxMoves /\ moves' = moves + 1 /\ UNCHANGED <<catalog, records, pass>>
Reconfigure(r) == Move /\ coursesRoot' = r /\ UNCHANGED archive
Appears(x)     == Move /\ archive' = archive \cup {x} /\ UNCHANGED coursesRoot
Vanishes(x)    == Move /\ archive' = archive \ {x} /\ UNCHANGED coursesRoot

-----------------------------------------------------------------------------
\* _start_inventory_run and its commit.
StartRun ==
  /\ pass = NoPass /\ Len(records) < MaxPasses
  /\ records' = Append(records, [status |-> "running", seen |-> {}])
  /\ pass' = [stage |-> "discover", root |-> coursesRoot]
  /\ UNCHANGED <<coursesRoot, archive, moves, catalog>>

\* _discover_course_entries: an entry that cannot be inspected is left out.
Discover(found) ==
  /\ pass.stage = "discover"
  /\ found \subseteq InRoot[pass.root] \cap archive
  /\ pass' = [stage |-> "walk", root |-> pass.root, files |-> found \cap CourseFiles,
              dirs |-> found \cap CourseDirs, view |-> catalog, seenCourses |-> {}, seen |-> {}]
  /\ UNCHANGED <<coursesRoot, archive, moves, catalog, records>>

\* Rows with that path (a UNIQUE column) and another name.
Others(n, path) == {m \in CourseNames \ {n} : /\ pass.view.courses[m] # NoCourse
                                              /\ pass.view.courses[m].path = path}

\* upsert_course, or the row of upsert_general_course; upsert_file for each of
\* the files; update_course_totals.
Counted(n, path, files) ==
  LET view == pass.view
  IN  [pass EXCEPT !.seenCourses = @ \cup {n}, !.seen = @ \cup files,
                   !.view = [courses |-> [view.courses EXCEPT ![n] = [path |-> path, files |-> files]],
                             courseOf |-> [f \in CourseFiles |-> IF f \in files THEN n ELSE view.courseOf[f]],
                             present |-> view.present]]

\* Mutant: the synthetic course is found by its name, wherever its root was.
GeneralFitsByName == Others(General, pass.root) = {}

\* upsert_general_course: its identity is the path.
GeneralFits ==
  /\ Others(General, pass.root) = {}
  /\ pass.view.courses[General] # NoCourse => pass.view.courses[General].path = pass.root

\* Its row is used as it is, or inserted.
GeneralPath == IF pass.view.courses[General] = NoCourse THEN pass.root ELSE pass.view.courses[General].path

RootFiles ==
  /\ pass.stage = "walk" /\ pass.files # {} /\ GeneralFits
  /\ pass' = [Counted(General, GeneralPath, pass.files) EXCEPT !.files = {}]
  /\ UNCHANGED <<coursesRoot, archive, moves, catalog, records>>

\* One course; walk_files leaves out what it cannot list or inspect.
VisitCourse(d, found) ==
  /\ pass.stage = "walk" /\ pass.files = {} /\ d \in pass.dirs
  /\ NameOf[d] \notin Reserved /\ Others(NameOf[d], d) = {}
  /\ found \subseteq Below[d] \cap archive
  /\ pass' = [Counted(NameOf[d], d, found) EXCEPT !.dirs = @ \ {d}]
  /\ UNCHANGED <<coursesRoot, archive, moves, catalog, records>>

\* reset_missing_course_totals.
ResetTotals(courses) ==
  [n \in CourseNames |-> IF courses[n] = NoCourse \/ n \in pass.seenCourses THEN courses[n]
                         ELSE [courses[n] EXCEPT !.files = {}]]

Finish(status, seen) == records' = [records EXCEPT ![Len(records)] = [status |-> status, seen |-> seen]]

\* mark_missing_files and the end of the transaction.
CommitRun ==
  /\ pass.stage = "walk" /\ pass.files = {} /\ pass.dirs = {}
  /\ catalog' = [courses |-> ResetTotals(pass.view.courses), courseOf |-> pass.view.courseOf,
                 present |-> pass.seen]
  /\ Finish("completed", pass.seen)
  /\ pass' = NoPass
  /\ UNCHANGED <<coursesRoot, archive, moves>>

\* The root cannot be listed, a name or a path is taken, or anything else raised:
\* everything is rolled back but the counts so far.
FailRun ==
  /\ pass # NoPass
  /\ Finish("failed", IF pass.stage = "walk" THEN pass.seen ELSE {})
  /\ pass' = NoPass
  /\ UNCHANGED <<coursesRoot, archive, moves, catalog>>

\* The process ends: its record stays as it is.
RunKilled == pass # NoPass /\ pass' = NoPass /\ UNCHANGED <<coursesRoot, archive, moves, catalog, records>>

CatalogNext ==
  \/ \E r \in Roots : Reconfigure(r)
  \/ \E x \in CourseDirs \cup CourseFiles : Appears(x) \/ Vanishes(x)
  \/ StartRun \/ RootFiles \/ CommitRun \/ FailRun \/ RunKilled
  \/ \E found \in SUBSET (CourseDirs \cup CourseFiles) : Discover(found)
  \/ \E d \in CourseDirs : \E found \in SUBSET Below[d] : VisitCourse(d, found)

CatalogSpec == CatalogInit /\ [][CatalogNext]_catalogVars

-----------------------------------------------------------------------------
\* load_inventory_summary: what the CLI and evaluation are shown.
Summary == [latest_inventory_run_id |-> Len(records),
            by_course |-> catalog.courses,
            files |-> {f \in CourseFiles : catalog.courseOf[f] # NoCourse},
            files_missing |-> {f \in CourseFiles : catalog.courseOf[f] # NoCourse} \ catalog.present]

\* Where a row says that its files are.
Holds(n) == LET path == Summary.by_course[n].path IN IF n = General THEN InRoot[path] ELSE Below[path]

(* The totals of every course count exactly its files that are not missing, *)
(* these lie where the course's row says, no two rows have one path, and    *)
(* the newest completed run counted what is not missing, no matter which    *)
(* runs failed, were killed or had another root (_inventory_courses).       *)
CatalogIsHonest ==
  /\ \A n \in CourseNames : Summary.by_course[n] # NoCourse =>
       /\ Summary.by_course[n].files = {f \in Summary.files \ Summary.files_missing : catalog.courseOf[f] = n}
       /\ Summary.by_course[n].files \subseteq Holds(n)
       /\ \A m \in CourseNames \ {n} : Summary.by_course[m] = NoCourse
                                       \/ Summary.by_course[m].path # Summary.by_course[n].path
  /\ \A k \in 1 .. Summary.latest_inventory_run_id :
       records[k].status = "completed" /\ (\A l \in k + 1 .. Len(records) : records[l].status # "completed")
         => records[k].seen = Summary.files \ Summary.files_missing
=============================================================================
