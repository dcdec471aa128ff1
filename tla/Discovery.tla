----------------------------- MODULE Discovery ------------------------------
(***************************************************************************)
(* The search for the log of the game on Linux: the Steam libraries that   *)
(* hold the game, from every root of a Steam installation (steam.rs), the  *)
(* Lutris prefix, and the freshest log among them (discovery.rs).  Each    *)
(* look at the file system is a step; the file system changes in between.  *)
(* (HOME is set.  The other systems have one fixed directory.)             *)
(***************************************************************************)
EXTENDS Integers, SequencesExt

(* The five roots, in order: two links and three directories.              *)
candidate_steam_roots == <<".steam/root", ".steam/steam", "native", "flatpak", "snap">>

Lutris == "lutris"    \* its prefix; the prefix of a library has its name

VARIABLES
  links,    \* the directory each root leads to, for the roots that exist
  vdf,      \* the lines of libraryfolders.vdf, by directory
  prefixes, \* the libraries with a compatdata directory for the game
  log,      \* the modification time of each Player.log there is

  pc,       \* the search: "idle", "roots", "logs", "check"
  todo,     \* roots or candidates still to be looked at
  seen_roots,
  steam_libraries,
  readable, \* the logs found, with their times
  answer    \* of the last search, <<>> before

files == <<links, vdf, prefixes, log>>
search == <<pc, todo, seen_roots, steam_libraries, readable, answer>>

-----------------------------------------------------------------------------
(* The scanner of libraryfolders.vdf.  A line is <<"{">>, <<"}">>, a       *)
(* header <<key>> or an entry <<key, value>>.                              *)

ScanStart ==
  [current_path |-> <<>>, in_apps_block |-> FALSE, brace_depth |-> 0,
   apps_depth |-> 0, returned |-> FALSE]

Close(s) ==
  LET leaves == s.in_apps_block /\ s.brace_depth = s.apps_depth
  IN  [s EXCEPT !.in_apps_block = @ /\ ~leaves,
                !.current_path = IF leaves THEN <<>> ELSE @,
                !.brace_depth = IF @ = 0 THEN 0 ELSE @ - 1]

ScanLine(s, line, appid) ==
  IF s.returned THEN s
  ELSE IF line = <<"{">> THEN [s EXCEPT !.brace_depth = @ + 1]
  ELSE IF line = <<"}">> THEN Close(s)
  ELSE IF s.in_apps_block THEN [s EXCEPT !.returned = (line[1] = appid)]
  ELSE IF line = <<"apps">>
  THEN [s EXCEPT !.in_apps_block = TRUE, !.apps_depth = s.brace_depth + 1]
  ELSE IF Len(line) = 2 /\ line[1] = "path" THEN [s EXCEPT !.current_path = <<line[2]>>]
  ELSE s

parse_library_for_appid(lines, appid) ==
  LET end == FoldLeft(LAMBDA s, line : ScanLine(s, line, appid), ScanStart, lines)
  IN  IF end.returned THEN end.current_path ELSE <<>>

(* A directory of Steam: the library its file names, or else itself, if    *)
(* the game has been run there.                                            *)
library_for_root(root, appid) ==
  LET listed == parse_library_for_appid(vdf[root], appid)
  IN  IF listed # <<>> THEN listed
      ELSE IF root \in prefixes THEN <<root>> ELSE <<>>

-----------------------------------------------------------------------------
(* The steps of the search.                                                *)

linux_candidate_base_dirs(libraries) == Append(libraries, Lutris)

(* Mutant: the first log there is.                                         *)
FirstLog(found) == IF found = <<>> THEN <<>> ELSE <<Head(found)>>

(* max_by_key: the last of the freshest.                                   *)
select_freshest_candidate(found) ==
  LET freshest == {i \in DOMAIN found :
                     \A j \in DOMAIN found : \/ found[j][2] < found[i][2]
                                             \/ found[j][2] = found[i][2] /\ j <= i}
  IN  SelectSeq(found, LAMBDA entry : \E i \in freshest : entry = found[i])

DiscoveryInit ==
  /\ pc = "idle" /\ todo = <<>> /\ seen_roots = {} /\ steam_libraries = <<>>
  /\ readable = <<>> /\ answer = <<>>

(* The callers search again until there is a log.                          *)
discover_log_file ==
  /\ pc = "idle"
  /\ pc' = "roots" /\ todo' = candidate_steam_roots /\ answer' = <<>>
  /\ UNCHANGED <<files, seen_roots, steam_libraries, readable>>

(* A root that does not exist, or leads where another one led, is skipped. *)
ProbeRoot ==
  /\ pc = "roots" /\ todo # <<>>
  /\ todo' = Tail(todo)
  /\ IF Head(todo) \in DOMAIN links /\ links[Head(todo)] \notin seen_roots
     THEN LET canonical_root == links[Head(todo)] IN
          /\ seen_roots' = seen_roots \cup {canonical_root}
          /\ steam_libraries' =
               steam_libraries \o library_for_root(canonical_root, "2141910")
     ELSE UNCHANGED <<seen_roots, steam_libraries>>
  /\ UNCHANGED <<files, pc, readable, answer>>

ListCandidates ==
  /\ pc = "roots" /\ todo = <<>>
  /\ pc' = "logs" /\ todo' = linux_candidate_base_dirs(steam_libraries)
  /\ seen_roots' = {}
  /\ UNCHANGED <<files, steam_libraries, readable, answer>>

ReadTime ==
  /\ pc = "logs" /\ todo # <<>>
  /\ todo' = Tail(todo)
  /\ readable' = IF Head(todo) \in DOMAIN log
                 THEN Append(readable, <<Head(todo), log[Head(todo)]>>) ELSE readable
  /\ UNCHANGED <<files, pc, seen_roots, steam_libraries, answer>>

(* No log: the error names the first Steam library, or else Lutris.        *)
resolve_base_dir ==
  /\ pc = "logs" /\ todo = <<>>
  /\ LET chosen == select_freshest_candidate(readable)
     IN  IF chosen # <<>>
         THEN pc' = "check" /\ readable' = chosen /\ UNCHANGED answer
         ELSE /\ pc' = "idle" /\ readable' = <<>>
              /\ answer' = <<"LogFileMissing",
                             Head(linux_candidate_base_dirs(steam_libraries))>>
  /\ steam_libraries' = <<>>
  /\ UNCHANGED <<files, todo, seen_roots>>

check_existence ==
  /\ pc = "check"
  /\ pc' = "idle" /\ readable' = <<>>
  /\ answer' = LET chosen == Head(readable)[1]
               IN  IF chosen \in DOMAIN log THEN <<"Ok", chosen>>
                   ELSE <<"LogFileMissing", chosen>>
  /\ UNCHANGED <<files, todo, seen_roots, steam_libraries>>

Search ==
  \/ discover_log_file \/ ProbeRoot \/ ListCandidates \/ ReadTime
  \/ resolve_base_dir \/ check_existence
=============================================================================
