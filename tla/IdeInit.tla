------------------------------- MODULE IdeInit -------------------------------
(***************************************************************************)
(* `mx ideinit` (ideinit, src/mx/commands.py 335-461): for every project   *)
(* of the suite, in order, it regenerates the Eclipse files .classpath,    *)
(* .checkstyle (when the checkstyle project has .checkstyle_checks.xml),   *)
(* .project and the .settings preferences, each through mx.update_file.   *)
(* The .checkstyle file lists one filter per line of the project's         *)
(* .checkstyle.exclude; the assert of 412 ends the command at an excluded  *)
(* directory that does not exist. A file's text is modelled by what the    *)
(* properties tell apart: which file was written, the filter entries of    *)
(* .checkstyle and whether .project names the checkstyle builder.         *)
(***************************************************************************)
EXTENDS Naturals, Sequences

CONSTANTS
    NProjects,   \* the number of projects of mx.projects()
    MaxLines     \* bound on the lines of a .checkstyle.exclude file

ASSUME IdeInitAssumption == NProjects \in Nat /\ MaxLines \in Nat

Projects == 1..NProjects
\* A line of .checkstyle.exclude: a '#' comment, an existing source
\* directory, or a directory that is not there.
LineKinds == {"comment", "dir", "missing"}
Lines == UNION {[1..n -> LineKinds] : n \in 0..MaxLines}
Files == {"classpath", "checkstyle", "project", "settings"}

VARIABLES
    native,     \* p.native
    csConfig,   \* the checkstyle project of p has .checkstyle_checks.xml
    hasExclude, \* the projects that have a .checkstyle.exclude (405)
    exclude,    \* exclude[p]: the lines of p's .checkstyle.exclude
    p,          \* the project the loop of 342 is at
    step,       \* where the body of the loop is, "done" after the loop
    j,          \* the next line of .checkstyle.exclude (409)
    filters,    \* the filter-data lines written to the buffer so far (413)
    written,    \* written[q]: the files update_file wrote for q
    csFilters,  \* csFilters[q]: the filter-data lines of q's .checkstyle
    builder,    \* builder[q]: q's .project names the checkstyle builder
    outcome     \* "running", "ok" or "AssertionError"

vars == <<native, csConfig, hasExclude, exclude, p, step, j, filters, written, csFilters,
          builder, outcome>>

TypeOK ==
    /\ native \subseteq Projects
    /\ csConfig \subseteq Projects
    /\ hasExclude \subseteq Projects
    /\ exclude \in [Projects -> Lines]
    /\ p \in 1..(NProjects + 1)
    /\ step \in {"start", "exclude", "project", "done"}
    /\ j \in 1..(MaxLines + 1)
    /\ filters \in Lines
    /\ written \in [Projects -> SUBSET Files]
    /\ csFilters \in [Projects -> Lines]
    /\ builder \in [Projects -> BOOLEAN]
    /\ outcome \in {"running", "ok", "AssertionError"}

\* Any suite: each project native or not, with or without a checkstyle
\* configuration and an exclude file.
Init ==
    /\ native \in SUBSET Projects
    /\ csConfig \in SUBSET Projects
    /\ hasExclude \in SUBSET Projects
    /\ exclude \in [Projects -> Lines]
    /\ p = 1
    /\ step = IF NProjects = 0 THEN "done" ELSE "start"
    /\ j = 1
    /\ filters = <<>>
    /\ written = [q \in Projects |-> {}]
    /\ csFilters = [q \in Projects |-> <<>>]
    /\ builder = [q \in Projects |-> FALSE]
    /\ outcome = IF NProjects = 0 THEN "ok" ELSE "running"

\* The loop of 342 moves to the next project, or ends.
NextProject ==
    /\ p' = p + 1
    /\ step' = IF p = NProjects THEN "done" ELSE "start"
    /\ outcome' = IF p = NProjects THEN "ok" ELSE outcome

Write(fs) == written' = [written EXCEPT ![p] = @ \cup fs]

\* .checkstyle is written with the filters collected (414-418).
WriteCheckstyle(fs) ==
    /\ Write({"checkstyle"})
    /\ csFilters' = [csFilters EXCEPT ![p] = fs]

-----------------------------------------------------------------------------

\* 343-344: a native project is skipped.
SkipNative ==
    /\ step = "start"
    /\ p \in native
    /\ NextProject
    /\ UNCHANGED <<native, csConfig, hasExclude, exclude, j, filters, written, csFilters,
                   builder>>

\* mutant: the buffer of the previous project's .checkstyle is reused.
StartProjectKeepBuffer ==
    /\ step = "start"
    /\ p \notin native
    /\ IF p \notin csConfig
       THEN Write({"classpath"}) /\ step' = "project"
            /\ UNCHANGED <<filters, csFilters>>
       ELSE IF p \notin hasExclude
       THEN written' = [written EXCEPT ![p] = @ \cup {"classpath", "checkstyle"}]
            /\ csFilters' = [csFilters EXCEPT ![p] = <<>>]
            /\ step' = "project" /\ UNCHANGED filters
       ELSE Write({"classpath"}) /\ step' = "exclude"
            /\ UNCHANGED <<filters, csFilters>>
    /\ j' = 1
    /\ UNCHANGED <<native, csConfig, hasExclude, exclude, p, builder, outcome>>

(***************************************************************************)
(* 346-383, then 385-407: .classpath is written; with a checkstyle         *)
(* configuration the .checkstyle text starts, and is written at once       *)
(* without an exclude file, else the loop over its lines begins.          *)
(***************************************************************************)
StartProject ==
    /\ step = "start"
    /\ p \notin native
    /\ IF p \notin csConfig
       THEN Write({"classpath"}) /\ step' = "project"
            /\ UNCHANGED <<filters, csFilters>>
       ELSE IF p \notin hasExclude
       THEN written' = [written EXCEPT ![p] = @ \cup {"classpath", "checkstyle"}]
            /\ csFilters' = [csFilters EXCEPT ![p] = <<>>]
            /\ step' = "project" /\ UNCHANGED filters
       ELSE Write({"classpath"}) /\ step' = "exclude" /\ filters' = <<>>
            /\ UNCHANGED csFilters
    /\ j' = 1
    /\ UNCHANGED <<native, csConfig, hasExclude, exclude, p, builder, outcome>>

(***************************************************************************)
(* One line of the loop of 409-413: a line not starting with '#' must name *)
(* an existing directory (412); every line, comment or not, becomes a       *)
(* filter-data entry (413). After the last, .checkstyle is written.        *)
(***************************************************************************)
ExcludeLine ==
    LET line == exclude[p][j]
    IN  /\ step = "exclude"
        /\ j <= Len(exclude[p])
        /\ IF line = "missing"
           THEN step' = "done" /\ outcome' = "AssertionError"
                /\ UNCHANGED <<j, filters>>
           ELSE j' = j + 1 /\ filters' = Append(filters, line)
                /\ UNCHANGED <<step, outcome>>
        /\ UNCHANGED <<native, csConfig, hasExclude, exclude, p, written, csFilters, builder>>

EndExclude ==
    /\ step = "exclude"
    /\ j > Len(exclude[p])
    /\ WriteCheckstyle(filters)
    /\ step' = "project"
    /\ UNCHANGED <<native, csConfig, hasExclude, exclude, p, j, filters, builder, outcome>>

\* mutant: .project always names the checkstyle builder.
WriteProjectAlwaysBuilder ==
    /\ step = "project"
    /\ Write({"project", "settings"})
    /\ builder' = [builder EXCEPT ![p] = TRUE]
    /\ NextProject
    /\ UNCHANGED <<native, csConfig, hasExclude, exclude, j, filters, csFilters>>

\* 420-447: .project, with the checkstyle builder and nature when the
\* configuration exists (434, 443); 449-461: the .settings preferences.
WriteProject ==
    /\ step = "project"
    /\ Write({"project", "settings"})
    /\ builder' = [builder EXCEPT ![p] = p \in csConfig]
    /\ NextProject
    /\ UNCHANGED <<native, csConfig, hasExclude, exclude, j, filters, csFilters>>

Next ==
    \/ SkipNative \/ StartProject \/ ExcludeLine \/ EndExclude \/ WriteProject

Spec == Init /\ [][Next]_vars

-----------------------------------------------------------------------------
(* Properties.                                                             *)

\* When ideinit returns, Eclipse sees a consistent workspace: every
\* non-native project has all its files, and its .project runs the
\* checkstyle builder exactly when a .checkstyle file configures it.
EclipseConfigComplete ==
    outcome = "ok" =>
        \A q \in Projects \ native :
            /\ {"classpath", "project", "settings"} \subseteq written[q]
            /\ builder[q] <=> "checkstyle" \in written[q]

====
