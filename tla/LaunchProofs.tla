---------------------------- MODULE LaunchProofs ----------------------------
(* Proofs about the start of the host: module Build, for any number of edits (what *)
(* the next start finds out from the times of the files), and module Launch, for   *)
(* any number of hosts and crashes (what one host leaves to the next).             *)
EXTENDS Build, Launch, TLAPS

(* The build. *)

\* A process that outlives its bundler writes a page that the bundler would have.
OrphanBundled == \A emitted \in orphans : emitted.kind = "react"

\* What is being read is up to date, or missed says what is not: by the bundler, in
\* the page that it has emitted, by the compiler, and by those that outlived their host.
PageBehind == page.kind = "react" /\ page.of # sources["page"]

BundlerKnows ==
    building = "bundling" =>
        /\ reading.page.kind = "react"
        /\ reading.page.of # sources["page"] => "page" \in missed

PageEmitted == building \in {"compile", "compiling"} /\ PageBehind => "page" \in missed

CompilerKnows ==
    building = "compiling" =>
        /\ reading.server # sources["server"] => "server" \in missed
        /\ page # NoPage /\ reading.page # page => "build" \in missed

LateKnows ==
    \A compiled \in late :
        /\ compiled.server # sources["server"] => "server" \in missed
        /\ page # NoPage /\ compiled.page # page => "build" \in missed
        /\ PageBehind => "page" \in missed

\* StaleIsNoticed at any time, and with the reason for the server.
ServerKnown ==
    binary # NoBinary /\ binary.server # sources["server"] => "server" \in newer \union missed

PageKnown == PageBehind => needs_rebuild \/ "page" \in missed

SameKnown == binary # NoBinary /\ binary.page # page => needs_rebuild \/ "build" \in missed

\* RestartIsQuick at any time.
Quick == untouched => ~needs_rebuild /\ building \in {"no", "search", "found", "none"}

BuildInv ==
    /\ TypeOK
    /\ OrphanBundled
    /\ BundlerKnows /\ PageEmitted /\ CompilerKnows /\ LateKnows
    /\ ServerKnown /\ PageKnown /\ SameKnown
    /\ Quick

USE DEF Parts, Bundlers, NoPage, Fallback, React, NoBinary, Versions, Page, Binary,
        tree, children, ghosts, vars

-------------------------------------------------------------------------------
\* The initial state.
LEMMA InitInv == Init => BuildInv
<1> SUFFICES ASSUME Init PROVE BuildInv
  OBVIOUS
<1> USE DEF Init
<1>1. 0 \in Versions /\ 1 \in Versions
  BY EditsAssumption
<1>2. NoPage \in Page /\ NoBinary \in Binary
  BY <1>1
<1>3. sources \in [Parts -> Versions] /\ newer = {} /\ missed = {} /\ bundler \in 0 .. Bundlers
  BY <1>1
<1>t. TypeOK
  BY <1>2, <1>3 DEF TypeOK
<1>4. OrphanBundled /\ BundlerKnows /\ PageEmitted /\ CompilerKnows /\ LateKnows
  BY DEF OrphanBundled, BundlerKnows, PageEmitted, CompilerKnows, LateKnows, PageBehind
<1>5. ServerKnown /\ PageKnown /\ SameKnown /\ Quick
  BY DEF ServerKnown, PageKnown, PageBehind, SameKnown, Quick
<1>q. QED
  BY <1>t, <1>4, <1>5 DEF BuildInv

\* The types are kept by every step.
LEMMA TypeStep == TypeOK /\ [Next]_vars => TypeOK'
<1> SUFFICES ASSUME TypeOK, [Next]_vars PROVE TypeOK'
  OBVIOUS
<1> USE EditsAssumption DEF TypeOK
<1>1. ASSUME NEW part \in Parts, NEW watched \in BOOLEAN, Edit(part, watched) PROVE TypeOK'
  <2>1. sources' \in [Parts -> Versions]
    BY <1>1 DEF Edit
  <2>2. newer' \subseteq {"server", "page", "build"} /\ missed' \subseteq {"server", "page", "build"}
    BY <1>1 DEF Edit
  <2>q. QED
    BY <1>1, <2>1, <2>2 DEF Edit
<1>2. CASE OrphanEmpties
  BY <1>2 DEF OrphanEmpties
<1>3. ASSUME NEW emitted \in orphans, OrphanWrites(emitted) PROVE TypeOK'
  <2>1. page' \in Page /\ orphans' \subseteq Page
    BY <1>3 DEF OrphanWrites
  <2>2. newer' \subseteq {"server", "page", "build"} /\ missed' \subseteq {"server", "page", "build"}
    BY <1>3 DEF OrphanWrites
  <2>q. QED
    BY <1>3, <2>1, <2>2 DEF OrphanWrites
<1>4. ASSUME NEW compiled \in late, LateCompiled(compiled) PROVE TypeOK'
  BY <1>4 DEF LateCompiled
<1>5. CASE ChildFails
  BY <1>5 DEF ChildFails
<1>6. CASE FindOrBuild
  BY <1>6 DEF FindOrBuild
<1>7. CASE StartBundler
  BY <1>7 DEF StartBundler
<1>8. CASE BundlerEmits
  BY <1>8 DEF BundlerEmits, Emit
<1>9. CASE BundlerFails
  <2>1. page' \in Page /\ orphans' \subseteq Page
    BY <1>9 DEF BundlerFails, Outliving
  <2>q. QED
    BY <1>9, <2>1 DEF BundlerFails
<1>10. CASE write_failsafe_client
  BY <1>10 DEF write_failsafe_client, Emit
<1>11. CASE StartCompiler
  BY <1>11 DEF StartCompiler
<1>12. CASE NoCompiler
  BY <1>12 DEF NoCompiler
<1>13. CASE Compiled
  BY <1>13 DEF Compiled, UpToDate
<1>14. CASE CompileFails
  BY <1>14 DEF CompileFails
<1>15. CASE Search
  BY <1>15 DEF Search
<1>16. CASE Stop
  BY <1>16 DEF Stop, Outliving
<1>17. CASE UNCHANGED vars
  BY <1>17
<1>q. QED
  BY <1>1, <1>2, <1>3, <1>4, <1>5, <1>6, <1>7, <1>8, <1>9, <1>10, <1>11, <1>12, <1>13, <1>14, <1>15, <1>16, <1>17
     DEF Next, Step

\* The rest of the invariant is kept by every step.
LEMMA StepInv == BuildInv /\ [Next]_vars => BuildInv'
<1> SUFFICES ASSUME BuildInv, [Next]_vars PROVE BuildInv'
  OBVIOUS
<1>0. TypeOK /\ TypeOK'
  BY TypeStep DEF BuildInv
<1> USE <1>0 DEF BuildInv, needs_rebuild, is_real_ui_build
<1>1. ASSUME NEW part \in Parts, NEW watched \in BOOLEAN, Edit(part, watched) PROVE BuildInv'
  <2>1. OrphanBundled'
    BY <1>1 DEF Edit, Unseen, UnderWay, OrphanBundled, BundlerKnows
  <2>2. BundlerKnows'
    BY <1>1 DEF Edit, Unseen, UnderWay, BundlerKnows, TypeOK
  <2>3. PageEmitted'
    BY <1>1 DEF Edit, Unseen, UnderWay, PageEmitted, PageBehind, BundlerKnows, OrphanBundled, TypeOK
  <2>4. CompilerKnows'
    BY <1>1 DEF Edit, Unseen, UnderWay, CompilerKnows, TypeOK
  <2>5. LateKnows'
    BY <1>1 DEF Edit, Unseen, UnderWay, LateKnows, PageBehind, PageEmitted, BundlerKnows, CompilerKnows, TypeOK
  <2>6. ServerKnown'
    BY <1>1 DEF Edit, Unseen, UnderWay, ServerKnown, CompilerKnows, LateKnows, TypeOK
  <2>7. PageKnown'
    BY <1>1 DEF Edit, Unseen, UnderWay, PageKnown, PageBehind, PageEmitted, LateKnows, TypeOK
  <2>8. SameKnown'
    BY <1>1 DEF Edit, Unseen, UnderWay, SameKnown, CompilerKnows, LateKnows, TypeOK
  <2>9. Quick'
    BY <1>1 DEF Edit, Unseen, UnderWay, Quick, TypeOK
  <2>q. QED
    BY <2>1, <2>2, <2>3, <2>4, <2>5, <2>6, <2>7, <2>8, <2>9
<1>2. CASE OrphanEmpties
  <2>1. OrphanBundled'
    BY <1>2 DEF OrphanEmpties, OrphanBundled, BundlerKnows
  <2>2. BundlerKnows'
    BY <1>2 DEF OrphanEmpties, BundlerKnows, TypeOK
  <2>3. PageEmitted'
    BY <1>2 DEF OrphanEmpties, PageEmitted, PageBehind, BundlerKnows, OrphanBundled, TypeOK
  <2>4. CompilerKnows'
    BY <1>2 DEF OrphanEmpties, CompilerKnows, TypeOK
  <2>5. LateKnows'
    BY <1>2 DEF OrphanEmpties, LateKnows, PageBehind, PageEmitted, BundlerKnows, CompilerKnows, TypeOK
  <2>6. ServerKnown'
    BY <1>2 DEF OrphanEmpties, ServerKnown, CompilerKnows, LateKnows, TypeOK
  <2>7. PageKnown'
    BY <1>2 DEF OrphanEmpties, PageKnown, PageBehind, PageEmitted, LateKnows, TypeOK
  <2>8. SameKnown'
    BY <1>2 DEF OrphanEmpties, SameKnown, CompilerKnows, LateKnows, TypeOK
  <2>9. Quick'
    BY <1>2 DEF OrphanEmpties, Quick, TypeOK
  <2>q. QED
    BY <2>1, <2>2, <2>3, <2>4, <2>5, <2>6, <2>7, <2>8, <2>9
<1>3. ASSUME NEW emitted \in orphans, OrphanWrites(emitted) PROVE BuildInv'
  <2>1. OrphanBundled'
    BY <1>3 DEF OrphanWrites, Unseen, UnderWay, OrphanBundled, BundlerKnows
  <2>2. BundlerKnows'
    BY <1>3 DEF OrphanWrites, Unseen, UnderWay, BundlerKnows, TypeOK
  <2>3. PageEmitted'
    BY <1>3 DEF OrphanWrites, Unseen, UnderWay, PageEmitted, PageBehind, BundlerKnows, OrphanBundled, TypeOK
  <2>4. CompilerKnows'
    BY <1>3 DEF OrphanWrites, Unseen, UnderWay, CompilerKnows, TypeOK
  <2>5. LateKnows'
    BY <1>3 DEF OrphanWrites, Unseen, UnderWay, LateKnows, PageBehind, PageEmitted, BundlerKnows, CompilerKnows, TypeOK
  <2>6. ServerKnown'
    BY <1>3 DEF OrphanWrites, Unseen, UnderWay, ServerKnown, CompilerKnows, LateKnows, TypeOK
  <2>7. PageKnown'
    BY <1>3 DEF OrphanWrites, Unseen, UnderWay, PageKnown, PageBehind, PageEmitted, LateKnows, TypeOK
  <2>8. SameKnown'
    BY <1>3 DEF OrphanWrites, Unseen, UnderWay, SameKnown, CompilerKnows, LateKnows, TypeOK
  <2>9. Quick'
    BY <1>3 DEF OrphanWrites, Unseen, UnderWay, Quick, TypeOK
  <2>q. QED
    BY <2>1, <2>2, <2>3, <2>4, <2>5, <2>6, <2>7, <2>8, <2>9
<1>4. ASSUME NEW compiled \in late, LateCompiled(compiled) PROVE BuildInv'
  <2>1. OrphanBundled'
    BY <1>4 DEF LateCompiled, OrphanBundled, BundlerKnows
  <2>2. BundlerKnows'
    BY <1>4 DEF LateCompiled, BundlerKnows, TypeOK
  <2>3. PageEmitted'
    BY <1>4 DEF LateCompiled, PageEmitted, PageBehind, BundlerKnows, OrphanBundled, TypeOK
  <2>4. CompilerKnows'
    BY <1>4 DEF LateCompiled, CompilerKnows, TypeOK
  <2>5. LateKnows'
    BY <1>4 DEF LateCompiled, LateKnows, PageBehind, PageEmitted, BundlerKnows, CompilerKnows, TypeOK
  <2>6. ServerKnown'
    BY <1>4 DEF LateCompiled, ServerKnown, CompilerKnows, LateKnows, TypeOK
  <2>7. PageKnown'
    BY <1>4 DEF LateCompiled, PageKnown, PageBehind, PageEmitted, LateKnows, TypeOK
  <2>8. SameKnown'
    BY <1>4 DEF LateCompiled, SameKnown, CompilerKnows, LateKnows, TypeOK
  <2>9. Quick'
    BY <1>4 DEF LateCompiled, Quick, TypeOK
  <2>q. QED
    BY <2>1, <2>2, <2>3, <2>4, <2>5, <2>6, <2>7, <2>8, <2>9
<1>5. CASE ChildFails
  <2>1. OrphanBundled'
    BY <1>5 DEF ChildFails, OrphanBundled, BundlerKnows
  <2>2. BundlerKnows'
    BY <1>5 DEF ChildFails, BundlerKnows, TypeOK
  <2>3. PageEmitted'
    BY <1>5 DEF ChildFails, PageEmitted, PageBehind, BundlerKnows, OrphanBundled, TypeOK
  <2>4. CompilerKnows'
    BY <1>5 DEF ChildFails, CompilerKnows, TypeOK
  <2>5. LateKnows'
    BY <1>5 DEF ChildFails, LateKnows, PageBehind, PageEmitted, BundlerKnows, CompilerKnows, TypeOK
  <2>6. ServerKnown'
    BY <1>5 DEF ChildFails, ServerKnown, CompilerKnows, LateKnows, TypeOK
  <2>7. PageKnown'
    BY <1>5 DEF ChildFails, PageKnown, PageBehind, PageEmitted, LateKnows, TypeOK
  <2>8. SameKnown'
    BY <1>5 DEF ChildFails, SameKnown, CompilerKnows, LateKnows, TypeOK
  <2>9. Quick'
    BY <1>5 DEF ChildFails, Quick, TypeOK
  <2>q. QED
    BY <2>1, <2>2, <2>3, <2>4, <2>5, <2>6, <2>7, <2>8, <2>9
<1>6. CASE FindOrBuild
  BY <1>6 DEF FindOrBuild, TypeOK, PageBehind, OrphanBundled, BundlerKnows, PageEmitted,
      CompilerKnows, LateKnows, ServerKnown, PageKnown, SameKnown, Quick
<1>7. CASE StartBundler
  <2>1. OrphanBundled'
    BY <1>7 DEF StartBundler, OrphanBundled, BundlerKnows
  <2>2. BundlerKnows'
    BY <1>7 DEF StartBundler, BundlerKnows, TypeOK
  <2>3. PageEmitted'
    BY <1>7 DEF StartBundler, PageEmitted, PageBehind, BundlerKnows, OrphanBundled, TypeOK
  <2>4. CompilerKnows'
    BY <1>7 DEF StartBundler, CompilerKnows, TypeOK
  <2>5. LateKnows'
    BY <1>7 DEF StartBundler, LateKnows, PageBehind, PageEmitted, BundlerKnows, CompilerKnows, TypeOK
  <2>6. ServerKnown'
    BY <1>7 DEF StartBundler, ServerKnown, CompilerKnows, LateKnows, TypeOK
  <2>7. PageKnown'
    BY <1>7 DEF StartBundler, PageKnown, PageBehind, PageEmitted, LateKnows, TypeOK
  <2>8. SameKnown'
    BY <1>7 DEF StartBundler, SameKnown, CompilerKnows, LateKnows, TypeOK
  <2>9. Quick'
    BY <1>7 DEF StartBundler, Quick, TypeOK
  <2>q. QED
    BY <2>1, <2>2, <2>3, <2>4, <2>5, <2>6, <2>7, <2>8, <2>9
<1>8. CASE BundlerEmits
  <2>1. OrphanBundled'
    BY <1>8 DEF BundlerEmits, Emit, OrphanBundled, BundlerKnows
  <2>2. BundlerKnows'
    BY <1>8 DEF BundlerEmits, Emit, BundlerKnows, TypeOK
  <2>3. PageEmitted'
    BY <1>8 DEF BundlerEmits, Emit, PageEmitted, PageBehind, BundlerKnows, OrphanBundled, TypeOK
  <2>4. CompilerKnows'
    BY <1>8 DEF BundlerEmits, Emit, CompilerKnows, TypeOK
  <2>5. LateKnows'
    BY <1>8 DEF BundlerEmits, Emit, LateKnows, PageBehind, PageEmitted, BundlerKnows, CompilerKnows, TypeOK
  <2>6. ServerKnown'
    BY <1>8 DEF BundlerEmits, Emit, ServerKnown, CompilerKnows, LateKnows, TypeOK
  <2>7. PageKnown'
    BY <1>8 DEF BundlerEmits, Emit, PageKnown, PageBehind, PageEmitted, LateKnows, TypeOK
  <2>8. SameKnown'
    BY <1>8 DEF BundlerEmits, Emit, SameKnown, CompilerKnows, LateKnows, TypeOK
  <2>9. Quick'
    BY <1>8 DEF BundlerEmits, Emit, Quick, TypeOK
  <2>q. QED
    BY <2>1, <2>2, <2>3, <2>4, <2>5, <2>6, <2>7, <2>8, <2>9
<1>9. CASE BundlerFails
  <2>1. OrphanBundled'
    BY <1>9 DEF BundlerFails, Outliving, OrphanBundled, BundlerKnows
  <2>2. BundlerKnows'
    BY <1>9 DEF BundlerFails, Outliving, BundlerKnows, TypeOK
  <2>3. PageEmitted'
    BY <1>9 DEF BundlerFails, Outliving, PageEmitted, PageBehind, BundlerKnows, OrphanBundled, TypeOK
  <2>4. CompilerKnows'
    BY <1>9 DEF BundlerFails, Outliving, CompilerKnows, TypeOK
  <2>5. LateKnows'
    BY <1>9 DEF BundlerFails, Outliving, LateKnows, PageBehind, PageEmitted, BundlerKnows, CompilerKnows, TypeOK
  <2>6. ServerKnown'
    BY <1>9 DEF BundlerFails, Outliving, ServerKnown, CompilerKnows, LateKnows, TypeOK
  <2>7. PageKnown'
    BY <1>9 DEF BundlerFails, Outliving, PageKnown, PageBehind, PageEmitted, LateKnows, TypeOK
  <2>8. SameKnown'
    BY <1>9 DEF BundlerFails, Outliving, SameKnown, CompilerKnows, LateKnows, TypeOK
  <2>9. Quick'
    BY <1>9 DEF BundlerFails, Outliving, Quick, TypeOK
  <2>q. QED
    BY <2>1, <2>2, <2>3, <2>4, <2>5, <2>6, <2>7, <2>8, <2>9
<1>10. CASE write_failsafe_client
  <2>1. OrphanBundled'
    BY <1>10 DEF write_failsafe_client, Emit, OrphanBundled, BundlerKnows
  <2>2. BundlerKnows'
    BY <1>10 DEF write_failsafe_client, Emit, BundlerKnows, TypeOK
  <2>3. PageEmitted'
    BY <1>10 DEF write_failsafe_client, Emit, PageEmitted, PageBehind, BundlerKnows, OrphanBundled, TypeOK
  <2>4. CompilerKnows'
    BY <1>10 DEF write_failsafe_client, Emit, CompilerKnows, TypeOK
  <2>5. LateKnows'
    BY <1>10 DEF write_failsafe_client, Emit, LateKnows, PageBehind, PageEmitted, BundlerKnows, CompilerKnows, TypeOK
  <2>6. ServerKnown'
    BY <1>10 DEF write_failsafe_client, Emit, ServerKnown, CompilerKnows, LateKnows, TypeOK
  <2>7. PageKnown'
    BY <1>10 DEF write_failsafe_client, Emit, PageKnown, PageBehind, PageEmitted, LateKnows, TypeOK
  <2>8. SameKnown'
    BY <1>10 DEF write_failsafe_client, Emit, SameKnown, CompilerKnows, LateKnows, TypeOK
  <2>9. Quick'
    BY <1>10 DEF write_failsafe_client, Emit, Quick, TypeOK
  <2>q. QED
    BY <2>1, <2>2, <2>3, <2>4, <2>5, <2>6, <2>7, <2>8, <2>9
<1>11. CASE StartCompiler
  <2>1. OrphanBundled'
    BY <1>11 DEF StartCompiler, OrphanBundled, BundlerKnows
  <2>2. BundlerKnows'
    BY <1>11 DEF StartCompiler, BundlerKnows, TypeOK
  <2>3. PageEmitted'
    BY <1>11 DEF StartCompiler, PageEmitted, PageBehind, BundlerKnows, OrphanBundled, TypeOK
  <2>4. CompilerKnows'
    BY <1>11 DEF StartCompiler, CompilerKnows, TypeOK
  <2>5. LateKnows'
    BY <1>11 DEF StartCompiler, LateKnows, PageBehind, PageEmitted, BundlerKnows, CompilerKnows, TypeOK
  <2>6. ServerKnown'
    BY <1>11 DEF StartCompiler, ServerKnown, CompilerKnows, LateKnows, TypeOK
  <2>7. PageKnown'
    BY <1>11 DEF StartCompiler, PageKnown, PageBehind, PageEmitted, LateKnows, TypeOK
  <2>8. SameKnown'
    BY <1>11 DEF StartCompiler, SameKnown, CompilerKnows, LateKnows, TypeOK
  <2>9. Quick'
    BY <1>11 DEF StartCompiler, Quick, TypeOK
  <2>q. QED
    BY <2>1, <2>2, <2>3, <2>4, <2>5, <2>6, <2>7, <2>8, <2>9
<1>12. CASE NoCompiler
  BY <1>12 DEF NoCompiler, TypeOK, PageBehind, OrphanBundled, BundlerKnows, PageEmitted,
      CompilerKnows, LateKnows, ServerKnown, PageKnown, SameKnown, Quick
<1>13. CASE Compiled
  <2>1. OrphanBundled'
    BY <1>13 DEF Compiled, UpToDate, OrphanBundled, BundlerKnows
  <2>2. BundlerKnows'
    BY <1>13 DEF Compiled, UpToDate, BundlerKnows, TypeOK
  <2>3. PageEmitted'
    BY <1>13 DEF Compiled, UpToDate, PageEmitted, PageBehind, BundlerKnows, OrphanBundled, TypeOK
  <2>4. CompilerKnows'
    BY <1>13 DEF Compiled, UpToDate, CompilerKnows, TypeOK
  <2>5. LateKnows'
    BY <1>13 DEF Compiled, UpToDate, LateKnows, PageBehind, PageEmitted, BundlerKnows, CompilerKnows, TypeOK
  <2>6. ServerKnown'
    BY <1>13 DEF Compiled, UpToDate, ServerKnown, CompilerKnows, LateKnows, TypeOK
  <2>7. PageKnown'
    BY <1>13 DEF Compiled, UpToDate, PageKnown, PageBehind, PageEmitted, LateKnows, TypeOK
  <2>8. SameKnown'
    BY <1>13 DEF Compiled, UpToDate, SameKnown, CompilerKnows, LateKnows, TypeOK
  <2>9. Quick'
    BY <1>13 DEF Compiled, UpToDate, Quick, TypeOK
  <2>q. QED
    BY <2>1, <2>2, <2>3, <2>4, <2>5, <2>6, <2>7, <2>8, <2>9
<1>14. CASE CompileFails
  BY <1>14 DEF CompileFails, TypeOK, PageBehind, OrphanBundled, BundlerKnows, PageEmitted,
      CompilerKnows, LateKnows, ServerKnown, PageKnown, SameKnown, Quick
<1>15. CASE Search
  BY <1>15 DEF Search, TypeOK, PageBehind, OrphanBundled, BundlerKnows, PageEmitted,
      CompilerKnows, LateKnows, ServerKnown, PageKnown, SameKnown, Quick
<1>16. CASE Stop
  <2>1. OrphanBundled'
    BY <1>16 DEF Stop, Outliving, OrphanBundled, BundlerKnows
  <2>2. BundlerKnows'
    BY <1>16 DEF Stop, Outliving, BundlerKnows, TypeOK
  <2>3. PageEmitted'
    BY <1>16 DEF Stop, Outliving, PageEmitted, PageBehind, BundlerKnows, OrphanBundled, TypeOK
  <2>4. CompilerKnows'
    BY <1>16 DEF Stop, Outliving, CompilerKnows, TypeOK
  <2>5. LateKnows'
    BY <1>16 DEF Stop, Outliving, LateKnows, PageBehind, PageEmitted, BundlerKnows, CompilerKnows, TypeOK
  <2>6. ServerKnown'
    BY <1>16 DEF Stop, Outliving, ServerKnown, CompilerKnows, LateKnows, TypeOK
  <2>7. PageKnown'
    BY <1>16 DEF Stop, Outliving, PageKnown, PageBehind, PageEmitted, LateKnows, TypeOK
  <2>8. SameKnown'
    BY <1>16 DEF Stop, Outliving, SameKnown, CompilerKnows, LateKnows, TypeOK
  <2>9. Quick'
    BY <1>16 DEF Stop, Outliving, Quick, TypeOK
  <2>q. QED
    BY <2>1, <2>2, <2>3, <2>4, <2>5, <2>6, <2>7, <2>8, <2>9
<1>17. CASE UNCHANGED vars
  BY <1>17 DEF TypeOK, PageBehind, OrphanBundled, BundlerKnows, PageEmitted, CompilerKnows, LateKnows,
      ServerKnown, PageKnown, SameKnown, Quick
<1>q. QED
  BY <1>1, <1>2, <1>3, <1>4, <1>5, <1>6, <1>7, <1>8, <1>9, <1>10, <1>11, <1>12, <1>13, <1>14, <1>15, <1>16, <1>17
     DEF Next, Step

-------------------------------------------------------------------------------
\* The types are right in every state of the specification.
THEOREM BuildTypes == Spec => []TypeOK
<1>1. BuildInv => TypeOK
  BY DEF BuildInv
<1>q. QED
  BY InitInv, StepInv, <1>1, PTL DEF Spec

\* find_or_build_binary: whatever builds failed, timed out or were cut short, the
\* next start notices a stale binary or page, but for changes that the times of the
\* files cannot show, for any number of edits.
THEOREM NothingStaleIsKept == Spec => []StaleIsNoticed
<1>1. BuildInv => StaleIsNoticed
  BY DEF BuildInv, StaleIsNoticed, ServerKnown, PageKnown, PageBehind, SameKnown, needs_rebuild
<1>q. QED
  BY InitInv, StepInv, <1>1, PTL DEF Spec

\* needs_rebuild: what was built is not built again as long as nothing has changed.
THEOREM NothingIsBuiltTwice == Spec => []RestartIsQuick
<1>1. BuildInv => RestartIsQuick
  BY DEF BuildInv, RestartIsQuick, Quick
<1>q. QED
  BY InitInv, StepInv, <1>1, PTL DEF Spec

-------------------------------------------------------------------------------
(* The launch. *)

\* A host that restores the default source has looked it up.
LaunchTyped ==
    /\ LaunchTypeOK
    /\ \A h \in Hosts :
          pc[h] \in {"module", "default", "build", "wait", "bridge", "browser", "toolbar", "up",
                    "close_browser", "stop_server", "restore"} => original[h] # "none"

LEMMA LaunchTypesInductive ==
    /\ LaunchInit => LaunchTyped
    /\ LaunchTyped /\ [LaunchNext]_launchVars => LaunchTyped'
<1> USE HostsAssumption, CrashesAssumption
    DEF LaunchTyped, LaunchTypeOK, ports, sound, windows, seen, Ended, Goto, Others
<1>1. LaunchInit => LaunchTyped
  <2> SUFFICES ASSUME LaunchInit PROVE LaunchTyped
    OBVIOUS
  <2>1. crashes \in 0 .. MaxCrashes
    BY DEF LaunchInit
  <2>2. pc = [h \in Hosts |-> "off"] /\ server = [h \in Hosts |-> "none"]
    BY DEF LaunchInit
  <2>3. QED
    BY <2>1, <2>2 DEF LaunchInit
<1>2. LaunchTyped /\ [LaunchNext]_launchVars => LaunchTyped'
  <2> SUFFICES ASSUME LaunchTyped, [LaunchNext]_launchVars PROVE LaunchTyped'
    OBVIOUS
  <2>1. CASE UNCHANGED launchVars
    BY <2>1 DEF launchVars
  <2>2. ASSUME NEW h \in Hosts, Launch(h) \/ KillServer(h) \/ KillHost(h) \/ Bind(h)
        PROVE  LaunchTyped'
    <3>1. CASE Launch(h)
      BY <3>1 DEF Launch
    <3>2. CASE KillServer(h)
      BY <3>2 DEF KillServer
    <3>3. CASE KillHost(h)
      BY <3>3 DEF KillHost
    <3>4. CASE Bind(h)
      BY <3>4 DEF Bind
    <3>5. QED
      BY <2>2, <3>1, <3>2, <3>3, <3>4
  <2>3. ASSUME NEW h \in Hosts, GetDefault(h) \/ LoadModule(h) \/ SetDefault(h)
        PROVE  LaunchTyped'
    <3>1. CASE GetDefault(h)
      <4>1. PICK at \in {"module", "build"} : pc' = [pc EXCEPT ![h] = at]
        BY <3>1 DEF GetDefault
      <4>2. /\ UNCHANGED <<ports, default, modules, loaded, windows, seen>>
            /\ original' = [original EXCEPT ![h] = default]
        BY <3>1 DEF GetDefault
      <4>3. QED
        BY <4>1, <4>2
    <3>2. CASE LoadModule(h)
      BY <3>2 DEF LoadModule
    <3>3. CASE SetDefault(h)
      BY <3>3 DEF SetDefault
    <3>4. QED
      BY <2>3, <3>1, <3>2, <3>3
  <2>4. ASSUME NEW h \in Hosts,
               FindBinary(h) \/ WaitForServer(h) \/ StartBridge(h) \/ LaunchBrowser(h)
        PROVE  LaunchTyped'
    <3>1. CASE FindBinary(h)
      BY <3>1 DEF FindBinary
    <3>2. CASE WaitForServer(h) \/ StartBridge(h)
      BY <3>2 DEF WaitForServer, StartBridge
    <3>3. CASE LaunchBrowser(h)
      BY <3>3 DEF LaunchBrowser
    <3>4. QED
      BY <2>4, <3>1, <3>2, <3>3
  <2>5. ASSUME NEW h \in Hosts, ShowToolbar(h) \/ Quit(h) \/ CloseBrowser(h) \/ StopServer(h)
        PROVE  LaunchTyped'
    BY <2>5 DEF ShowToolbar, Quit, CloseBrowser, StopServer
  <2>6. ASSUME NEW h \in Hosts, CleanupAudio(h) \/ Crash(h) PROVE LaunchTyped'
    BY <2>6 DEF CleanupAudio, Crash
  <2>7. QED
    BY <2>1, <2>2, <2>3, <2>4, <2>5, <2>6 DEF LaunchNext, Start, Cleanup
<1>3. QED
  BY <1>1, <1>2

-------------------------------------------------------------------------------
\* One host after the other.

Active(h) == pc[h] \notin Ended
InTurn == ~together /\ \A h \in Hosts : pc[h] \notin {"killed", "failed"}

\* Nobody is under way, and the machine is as it was found.
Untouched ==
    /\ default = "own"
    /\ modules \subseteq {NoHost}
    /\ NoHost \in modules \/ \E g \in Hosts : pc[g] = "ended" /\ ~loaded[g]
    /\ \A h \in Hosts : server[h] \in {"none", "gone"}
    /\ browser = NoHost /\ pages = {} /\ bridge = NoHost

\* Only h is under way: what is not as it was found is its doing, and it knows.
Alone(h) ==
    /\ \A g \in Others(h) : pc[g] \in {"off", "ended"} /\ server[g] \in {"none", "gone"}
    /\ IF pc[h] \in {"kill_server", "kill_host", "sources"} THEN default = "own"
                                                            ELSE original[h] = "own"
    /\ modules \subseteq {NoHost, h}
    /\ h \in modules => loaded[h]
    /\ NoHost \in modules \/ \E g \in Others(h) : pc[g] = "ended" /\ ~loaded[g]
    /\ pages # {} => browser = h
    /\ browser \in {NoHost, h} /\ bridge \in {NoHost, h}
    /\ pc[h] \in {"stop_server", "restore"} => pages = {} /\ browser = NoHost
    /\ pc[h] = "restore" => server[h] = "gone"

OneByOne ==
    InTurn => /\ (\A h \in Hosts : ~Active(h)) => Untouched
              /\ \A h \in Hosts : Active(h) => Alone(h)

LEMMA OneByOneInductive ==
    LaunchTypeOK /\ LaunchTypeOK' /\ OneByOne /\ [LaunchNext]_launchVars => OneByOne'
<1> SUFFICES ASSUME LaunchTypeOK, LaunchTypeOK', OneByOne, [LaunchNext]_launchVars, InTurn'
             PROVE  /\ (\A h \in Hosts : ~Active(h)') => Untouched'
                    /\ \A h \in Hosts : Active(h)' => Alone(h)'
  BY DEF OneByOne
<1> USE HostsAssumption DEF InTurn, ports, sound, windows, seen, Ended, Goto, Others
<1>1. CASE UNCHANGED launchVars
  BY <1>1 DEF launchVars, OneByOne, Active, Untouched, Alone
<1>2. InTurn
  <2>1. together => together'
    BY DEF LaunchNext, Launch, Start, Cleanup, KillServer, KillHost, GetDefault, LoadModule,
           SetDefault, FindBinary, Bind, WaitForServer, StartBridge, LaunchBrowser,
           ShowToolbar, Quit, CloseBrowser, StopServer, CleanupAudio, Crash, launchVars
  <2>2. ASSUME NEW g \in Hosts, pc[g] \in {"killed", "failed"},
               NEW h \in Hosts, Launch(h) \/ Start(h) \/ Bind(h) \/ Quit(h) \/ Cleanup(h) \/ Crash(h)
        PROVE  pc'[g] \in {"killed", "failed"}
    <3> USE <2>2 DEF LaunchTypeOK
    <3>1. CASE Launch(h) \/ KillServer(h) \/ Bind(h)
      <4>1. /\ pc' = pc \/ pc' = [pc EXCEPT ![h] = "kill_server"] \/ pc' = [pc EXCEPT ![h] = "kill_host"]
            /\ pc' = pc \/ pc[h] \in {"off", "kill_server"}
        BY <3>1 DEF Launch, KillServer, Bind
      <4>2. QED
        BY <4>1
    <3>2. CASE KillHost(h) \/ GetDefault(h) \/ LoadModule(h) \/ SetDefault(h)
      BY <3>2 DEF KillHost, GetDefault, LoadModule, SetDefault
    <3>3. CASE FindBinary(h) \/ WaitForServer(h) \/ StartBridge(h) \/ LaunchBrowser(h) \/ ShowToolbar(h)
      BY <3>3 DEF FindBinary, WaitForServer, StartBridge, LaunchBrowser, ShowToolbar
    <3>4. CASE Crash(h)
      <4>1. pc' = [pc EXCEPT ![h] = "killed"]
        BY <3>4 DEF Crash
      <4>2. QED
        BY <4>1
    <3>5. CASE Quit(h) \/ Cleanup(h)
      BY <3>5 DEF Quit, Cleanup, CloseBrowser, StopServer, CleanupAudio
    <3>6. QED
      BY <2>2, <3>1, <3>2, <3>3, <3>4, <3>5 DEF Start
  <2>3. QED
    BY <1>1, <2>1, <2>2 DEF LaunchNext, launchVars
\* Whoever takes a step is the only one under way afterwards, unless it ends.
<1>3. ASSUME NEW h \in Hosts, Active(h)', Alone(h)'
      PROVE  /\ (\A g \in Hosts : ~Active(g)') => Untouched'
             /\ \A g \in Hosts : Active(g)' => Alone(g)'
  BY <1>3 DEF Active, Alone
<1>4. ASSUME NEW h \in Hosts, Launch(h)
      PROVE  Active(h)' /\ Alone(h)'
  <2>1. Untouched /\ \A g \in Others(h) : pc[g] \in {"off", "ended"}
    BY <1>2, <1>4 DEF Launch, OneByOne, Active, LaunchTypeOK
  <2>2. QED
    BY <1>4, <2>1 DEF Launch, Untouched, Active, Alone, LaunchTypeOK
<1>5. ASSUME NEW h \in Hosts, Bind(h)
      PROVE  Active(h)' /\ Alone(h)'
  <2>1. Active(h) /\ Alone(h)
    BY <1>2, <1>5 DEF Bind, OneByOne, Active, Untouched, Alone
  <2>2. QED
    BY <1>5, <2>1 DEF Bind, Active, Alone, LaunchTypeOK
<1>6. ASSUME NEW h \in Hosts, Start(h)
      PROVE  Active(h)' /\ Alone(h)'
  <2>1. Active(h) /\ Alone(h)
    BY <1>2, <1>6 DEF OneByOne, Active, Start, KillServer, KillHost, GetDefault, LoadModule,
           SetDefault, FindBinary, WaitForServer, StartBridge, LaunchBrowser, ShowToolbar
  <2> USE <2>1 DEF Active, Alone, LaunchTypeOK
  <2>2. CASE KillServer(h) \/ KillHost(h)
    BY <2>2 DEF KillServer, KillHost
  <2>3. CASE GetDefault(h) \/ LoadModule(h) \/ SetDefault(h)
    BY <2>3 DEF GetDefault, LoadModule, SetDefault
  <2>4. CASE FindBinary(h) \/ WaitForServer(h)
    BY <2>4 DEF FindBinary, WaitForServer
  <2>5. CASE StartBridge(h) \/ LaunchBrowser(h) \/ ShowToolbar(h)
    BY <2>5 DEF StartBridge, LaunchBrowser, ShowToolbar
  <2>6. QED
    BY <1>6, <2>2, <2>3, <2>4, <2>5 DEF Start
<1>7. ASSUME NEW h \in Hosts, Quit(h) \/ CloseBrowser(h) \/ StopServer(h)
      PROVE  Active(h)' /\ Alone(h)'
  <2>1. Active(h) /\ Alone(h)
    BY <1>2, <1>7 DEF OneByOne, Active, Quit, CloseBrowser, StopServer
  <2>2. QED
    BY <1>7, <2>1 DEF Quit, CloseBrowser, StopServer, Active, Alone, LaunchTypeOK
<1>8. ASSUME NEW h \in Hosts, CleanupAudio(h)
      PROVE  Untouched' /\ \A g \in Hosts : ~Active(g)'
  <2>1. Active(h) /\ Alone(h)
    BY <1>2, <1>8 DEF OneByOne, Active, CleanupAudio
  <2>2. pc'[h] = "ended" /\ \A g \in Others(h) : pc'[g] = pc[g]
    BY <1>8 DEF CleanupAudio, LaunchTypeOK
  <2>3. modules' \subseteq {NoHost}
    BY <1>8, <2>1 DEF CleanupAudio, Alone
  <2>4. NoHost \in modules' \/ \E g \in Hosts : pc'[g] = "ended" /\ ~loaded'[g]
    BY <1>8, <2>1, <2>2 DEF CleanupAudio, Alone
  <2>5. QED
    BY <1>8, <2>1, <2>2, <2>3, <2>4 DEF CleanupAudio, Untouched, Alone, Active
<1>9. ASSUME NEW h \in Hosts PROVE ~Crash(h)
  BY DEF Crash, LaunchTypeOK
<1>10. QED
  BY <1>1, <1>3, <1>4, <1>5, <1>6, <1>7, <1>8, <1>9 DEF LaunchNext, Cleanup

\* As long as one host after the other is started and ends by itself, the machine is
\* left as it was found: cleanup undoes what start did, for any number of runs.
THEOREM MachineIsLeftAsFound == LaunchSpec => []CleanSlate
<1>1. LaunchInit => OneByOne
  BY DEF LaunchInit, OneByOne, Active, Ended, Untouched
<1>2. OneByOne => CleanSlate
  BY DEF OneByOne, InTurn, CleanSlate, Active, Ended, Untouched
<1>3. QED
  BY <1>1, <1>2, LaunchTypesInductive, OneByOneInductive, PTL DEF LaunchSpec, LaunchTyped

-------------------------------------------------------------------------------
\* Takeover.

\* Stages after the ports have been freed, and those with the bridge.
Behind == {"sources", "module", "default", "build", "wait", "bridge", "browser", "toolbar"}
Bridged == {"browser", "toolbar", "up"}

\* f has ended, or was up when h was started and still has its bridge: it can be killed.
GivesWay(f) ==
    \/ pc[f] \in Ended
    \/ bridge = f /\ pc[f] \in {"up", "close_browser", "stop_server", "restore"}

Takes(h) ==
    /\ pc[h] \in {"kill_server", "kill_host"} =>
          \A f \in Others(h) : GivesWay(f) /\ server[f] # "starting"
    /\ pc[h] = "kill_host" => \A f \in Others(h) : server[f] # "ready"
    /\ pc[h] \in Behind =>
          \A f \in Others(h) : pc[f] \in Ended /\ server[f] \in {"none", "gone"}
    /\ pc[h] = "up" =>
          \A f \in Others(h) : /\ pc[f] \in Ended \union {"kill_server", "kill_host"}
                               /\ server[f] \in {"none", "gone"}
    /\ pc[h] \in Behind \ Bridged => bridge = NoHost
    /\ pc[h] \in Bridged => bridge = h

TakenOver == \A h \in Hosts : clear[h] => Takes(h)

LEMMA TakenOverInductive ==
    LaunchTypeOK /\ LaunchTypeOK' /\ TakenOver /\ [LaunchNext]_launchVars => TakenOver'
<1> SUFFICES ASSUME LaunchTypeOK, LaunchTypeOK', TakenOver, [LaunchNext]_launchVars,
                    NEW h \in Hosts, clear'[h]
             PROVE  Takes(h)'
  BY DEF TakenOver
<1> USE HostsAssumption
    DEF ports, sound, windows, seen, Ended, Goto, Others, Takes, GivesWay, Behind, Bridged
<1>1. CASE UNCHANGED launchVars
  BY <1>1 DEF launchVars, TakenOver
<1>2. CASE Launch(h)
  BY <1>2 DEF Launch, LaunchTypeOK
<1>3. ASSUME NEW g \in Others(h), Launch(g) PROVE Takes(h)'
  <2>1. clear[h] /\ pc[h] \in Ended \union {"up"}
    BY <1>3 DEF Launch
  <2>2. QED
    BY <1>3, <2>1 DEF TakenOver, Launch, LaunchTypeOK
<1>4. ASSUME NEW g \in Hosts,
             Start(g) \/ Bind(g) \/ Quit(g) \/ Cleanup(g) \/ Crash(g)
      PROVE  clear[h] /\ Takes(h)
  BY <1>4 DEF TakenOver, Start, Cleanup, KillServer, KillHost, GetDefault, LoadModule,
         SetDefault, FindBinary, Bind, WaitForServer, StartBridge, LaunchBrowser, ShowToolbar,
         Quit, CloseBrowser, StopServer, CleanupAudio, Crash
<1>5. ASSUME NEW g \in Hosts, Start(g) PROVE Takes(h)'
  <2> USE <1>4, <1>5 DEF LaunchTypeOK
  <2>1. CASE KillServer(g)
    BY <2>1 DEF KillServer
  <2>2. CASE KillHost(g)
    BY <2>2 DEF KillHost
  <2>3. CASE GetDefault(g) \/ LoadModule(g) \/ SetDefault(g)
    BY <2>3 DEF GetDefault, LoadModule, SetDefault
  <2>4. CASE FindBinary(g) \/ WaitForServer(g)
    BY <2>4 DEF FindBinary, WaitForServer
  <2>5. CASE StartBridge(g)
    BY <2>5 DEF StartBridge
  <2>6. CASE LaunchBrowser(g) \/ ShowToolbar(g)
    BY <2>6 DEF LaunchBrowser, ShowToolbar
  <2>7. QED
    BY <2>1, <2>2, <2>3, <2>4, <2>5, <2>6 DEF Start
<1>6. ASSUME NEW g \in Hosts, Bind(g) \/ Quit(g) PROVE Takes(h)'
  BY <1>4, <1>6 DEF Bind, Quit, LaunchTypeOK
<1>7. ASSUME NEW g \in Hosts, Cleanup(g) PROVE Takes(h)'
  BY <1>4, <1>7 DEF Cleanup, CloseBrowser, StopServer, CleanupAudio, LaunchTypeOK
<1>8. ASSUME NEW g \in Hosts, Crash(g) PROVE Takes(h)'
  <2>1. /\ pc' = [pc EXCEPT ![g] = "killed"]
        /\ bridge' = IF bridge = g THEN NoHost ELSE bridge
        /\ server' = server
    BY <1>8 DEF Crash
  <2>2. QED
    BY <1>4, <1>8, <2>1 DEF LaunchTypeOK
<1>9. QED
  BY <1>1, <1>2, <1>3, <1>5, <1>6, <1>7, <1>8 DEF LaunchNext

\* A host that comes up after another one that was up, gone or killed has the bridge,
\* and nobody else is up or has a server left.
THEOREM NewHostTakesOver == LaunchSpec => []TakeOver
<1>1. LaunchInit => TakenOver
  BY DEF LaunchInit, TakenOver
<1>2. TakenOver => TakeOver
  BY DEF TakenOver, TakeOver, Takes, Bridged, Others, Ended
<1>3. QED
  BY <1>1, <1>2, LaunchTypesInductive, TakenOverInductive, PTL DEF LaunchSpec, LaunchTyped
===============================================================================
