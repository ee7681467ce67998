-------------------------------- MODULE Build --------------------------------
(* go_builder.py and ui_builder.py: whether the binary of the server has to be  *)
(* built again, the build of the page and of the binary, and the search for a   *)
(* binary, in a tree with sources that are edited at any time. A file is told   *)
(* apart by the version of the sources it was made of; the times of the files   *)
(* matter only as far as they are later than that of the binary.                *)
EXTENDS Naturals, FiniteSets

CONSTANTS
    MaxEdits,       \* bound: edits of the sources of each part
    MaxChildren     \* bound: bundlers and compilers that go on at the same time after
                    \* their time limit or their host

ASSUME EditsAssumption == MaxEdits \in Nat /\ MaxChildren \in Nat

VARIABLES
    sources,    \* versions of the sources of the server and of the page
    page,       \* what ui/build holds
    binary,     \* what out_bin was compiled from
    newer,      \* what is newer than out_bin
    orphans,    \* pages that bundlers write which outlived their time limit or host
    late,       \* binaries that compilers write which outlived their host
    building,   \* how far find_or_build_binary is
    bundler,    \* the bundler that is run, or was last
    reading,    \* what the build was started from
    missed,     \* (ghost) where a change has escaped the times of the files
    untouched   \* (ghost) nobody has written to the tree since the binary was compiled

tree == <<sources, page, binary, newer>>
children == <<orphans, late>>
ghosts == <<missed, untouched>>
vars == <<tree, children, building, bundler, reading, ghosts>>

Bundlers == 3           \* yarn, npm and deno

Parts == {"server", "page"}
NoPage == [kind |-> "none", of |-> 0]
Fallback == [kind |-> "fallback", of |-> 0]
React(version) == [kind |-> "react", of |-> version]
NoBinary == [server |-> 0, page |-> NoPage]

Versions == 0 .. MaxEdits + 1
Page == {NoPage, Fallback} \union {React(version) : version \in Versions}
Binary == [server : Versions, page : Page]

\* A fresh checkout: ui/build and the binary are not part of it.
Init ==
    /\ sources = [part \in Parts |-> 1]
    /\ page = NoPage /\ orphans = {} /\ late = {}
    /\ binary = NoBinary /\ newer = {}
    /\ building = "no" /\ bundler = 0
    /\ reading = NoBinary
    /\ missed = {} /\ untouched = FALSE

-------------------------------------------------------------------------------
\* Files that needs_rebuild looks at are those below ui/src, the .go files outside
\* of ui and five of the host; ui/serve.go, go.mod, ui/index.html and others are not.
\* A change after a build has read the file is older than the binary it leads to,
\* now or when a compiler that outlived its host is through.
UnderWay == [server |-> {"compiling"}, page |-> {"bundling", "compile", "compiling"}]
Unseen(part) == building \in UnderWay[part] \/ late # {}

Edit(part, watched) ==
    /\ sources[part] <= MaxEdits
    /\ sources' = [sources EXCEPT ![part] = @ + 1]
    /\ newer' = IF watched THEN newer \union {part} ELSE newer
    /\ missed' = IF watched /\ ~Unseen(part) THEN missed ELSE missed \union {part}
    /\ untouched' = FALSE
    /\ UNCHANGED <<page, binary, children, building, bundler, reading>>

\* The child may go on, or not.
Outliving(child) ==
    {{}} \union IF Cardinality(orphans) + Cardinality(late) < MaxChildren THEN {child} ELSE {}

\* A bundler that outlives its time limit, of which only the first process is killed,
\* or its host, empties ui/build and writes the page when it is ready, or fails.
OrphanEmpties ==
    /\ orphans # {}
    /\ page' = NoPage
    /\ untouched' = FALSE
    /\ UNCHANGED <<sources, binary, newer, children, building, bundler, reading, missed>>

OrphanWrites(emitted) ==
    /\ emitted \in orphans
    /\ page' = emitted
    /\ orphans' = orphans \ {emitted}
    /\ newer' = newer \union {"build"}
    /\ missed' = missed \union IF Unseen("page") THEN {"page", "build"} ELSE {}
    /\ untouched' = FALSE
    /\ UNCHANGED <<sources, binary, late, building, bundler, reading>>

\* go build is a process of its own, too: it writes the binary at its end, or fails.
LateCompiled(compiled) ==
    /\ compiled \in late
    /\ compiled.page # NoPage
    /\ binary' = compiled
    /\ newer' = {}
    /\ late' = late \ {compiled}
    /\ untouched' = FALSE
    /\ UNCHANGED <<sources, page, orphans, building, bundler, reading, missed>>

ChildFails ==
    /\ \/ \E emitted \in orphans : orphans' = orphans \ {emitted} /\ UNCHANGED late
       \/ \E compiled \in late : late' = late \ {compiled} /\ UNCHANGED orphans
    /\ UNCHANGED <<tree, building, bundler, reading, ghosts>>

-------------------------------------------------------------------------------
\* index.html and at least one .js in assets, whoever wrote them.
MutantIsReal == page.kind = "react"     \* only what a bundler has emitted
is_real_ui_build == page.kind # "none"

MutantNeedsRebuild ==          \* does not look at the page
    binary = NoBinary \/ "server" \in newer \/ ~is_real_ui_build
needs_rebuild == binary = NoBinary \/ newer # {} \/ ~is_real_ui_build

FindOrBuild ==
    /\ building = "no"
    /\ building' = IF needs_rebuild THEN "bundle" ELSE "search"
    /\ bundler' = 0
    /\ UNCHANGED <<tree, children, reading, ghosts>>

\* build_frontend_ui: those bundlers that are installed, one after the other, until
\* one emits the page.
StartBundler ==
    /\ building = "bundle"
    /\ bundler < Bundlers
    /\ bundler' = bundler + 1
    /\ reading' = [reading EXCEPT !.page = React(sources["page"])]
    /\ building' = "bundling"
    /\ UNCHANGED <<tree, children, ghosts>>

\* The build emits a page: a compiler that outlived its host has read another one,
\* and nothing that was missed before is missed in a page that is up to date.
Emit(emitted) ==
    /\ page' = emitted
    /\ newer' = newer \union {"build"}
    /\ building' = "compile"
    /\ missed' = (missed \union {m \in {"build"} : late # {}})
                      \ {m \in {"page"} : emitted \in {React(sources["page"]), Fallback}}
    /\ UNCHANGED <<sources, binary, children, bundler, reading, untouched>>

BundlerEmits == building = "bundling" /\ Emit(reading.page)

\* It fails before or after it has emptied ui/build, or takes more than its time.
BundlerFails ==
    /\ building = "bundling"
    /\ page' \in {page, NoPage}
    /\ \E child \in Outliving({reading.page}) : orphans' = orphans \union child
    /\ building' = "bundle"
    /\ UNCHANGED <<sources, binary, newer, late, bundler, reading, ghosts>>

write_failsafe_client == building = "bundle" /\ Emit(Fallback)

\* compile_go_binary: the old binary is removed before the new one is compiled.
StartCompiler ==
    /\ building = "compile"
    /\ reading' = [server |-> sources["server"], page |-> page]
    /\ binary' = NoBinary
    /\ building' = "compiling"
    /\ UNCHANGED <<sources, page, newer, children, bundler, ghosts>>

NoCompiler ==
    /\ building = "compile"
    /\ building' = "search"
    /\ UNCHANGED <<tree, children, bundler, reading, ghosts>>

\* Nothing is missed any more in what the binary has as it is now, unless an older
\* one will replace it.
UpToDate ==
    {m \in {"server"} : reading.server = sources["server"] /\ late = {}}
    \union {m \in {"build"} : reading.page = page /\ late = {}}

Compiled ==
    /\ building = "compiling"
    /\ reading.page # NoPage        \* go:embed finds something in ui/build
    /\ binary' = reading
    /\ newer' = {}
    /\ building' = "found"
    /\ missed' = missed \ UpToDate
    /\ untouched' = (page = reading.page)
    /\ UNCHANGED <<sources, page, children, bundler, reading>>

CompileFails ==
    /\ building = "compiling"
    /\ building' = "search"
    /\ untouched' = FALSE
    /\ UNCHANGED <<tree, children, bundler, reading, missed>>

\* The binary of the tree, or else one of another directory or of the PATH.
Search ==
    /\ building = "search"
    /\ building' \in IF binary # NoBinary THEN {"found"} ELSE {"found", "none"}
    /\ UNCHANGED <<tree, children, bundler, reading, ghosts>>

\* The host goes on with what was found, or is killed in the middle of it: what it
\* has started may be killed with it, or go on.
Stop ==
    /\ building # "no"
    /\ building' = "no"
    /\ IF building = "bundling"
       THEN /\ page' \in {page, NoPage}
            /\ \E child \in Outliving({reading.page}) : orphans' = orphans \union child
       ELSE UNCHANGED <<page, orphans>>
    /\ IF building = "compiling"
       THEN \E child \in Outliving({reading}) : late' = late \union child
       ELSE UNCHANGED late
    /\ UNCHANGED <<sources, binary, newer, bundler, reading, ghosts>>

Step ==
    \/ FindOrBuild
    \/ StartBundler \/ BundlerEmits \/ BundlerFails \/ write_failsafe_client
    \/ StartCompiler \/ NoCompiler \/ Compiled \/ CompileFails \/ Search

Next ==
    \/ Step \/ Stop
    \/ \E part \in Parts, watched \in BOOLEAN : Edit(part, watched)
    \/ OrphanEmpties \/ \E emitted \in orphans : OrphanWrites(emitted)
    \/ (\E compiled \in late : LateCompiled(compiled)) \/ ChildFails

Spec == Init /\ [][Next]_vars

-------------------------------------------------------------------------------
TypeOK ==
    /\ sources \in [Parts -> Versions]
    /\ page \in Page /\ orphans \subseteq Page /\ late \subseteq Binary
    /\ binary \in Binary /\ reading \in Binary
    /\ newer \subseteq {"server", "page", "build"} /\ missed \subseteq {"server", "page", "build"}
    /\ building \in {"no", "bundle", "bundling", "compile", "compiling", "search", "found", "none"}
    /\ bundler \in 0 .. Bundlers
    /\ untouched \in BOOLEAN

\* A binary that is behind its sources, or has another page in it than ui/build, is
\* built again by the next start, whatever builds were cut short, and whatever was
\* edited meanwhile, except for a change that the times of the files cannot show.
StaleIsNoticed ==
    building = "no" /\ binary # NoBinary =>
        /\ binary.server # sources["server"] => needs_rebuild \/ "server" \in missed
        /\ page.kind = "react" /\ page.of # sources["page"] => needs_rebuild \/ "page" \in missed
        /\ binary.page # page => needs_rebuild \/ "build" \in missed

\* A start does not build what the start before it has built, if nothing else wrote
\* to the tree.
RestartIsQuick == building = "no" /\ untouched => ~needs_rebuild
=============================================================================
