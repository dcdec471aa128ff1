---------------------------- MODULE LogDiscovery ----------------------------
(***************************************************************************)
(* The search for the log while the file system changes: Steam moves the   *)
(* game to another library, the game writes its log there, logs vanish     *)
(* with a disk or an uninstallation.                                       *)
(***************************************************************************)
EXTENDS Discovery

CONSTANTS MaxTime, MaxMoves   \* ticks of the clock, rewritings of a vdf file

ASSUME BoundsAssumption == MaxTime \in Nat /\ MaxMoves \in Nat

VARIABLES
  clock,
  moves,    \* rewritings so far
  due,      \* history: the time, when the search began, of each log that it
            \* has been bound to find ever since, by the way to it
  vanished  \* history: where a log has gone away since then

vars == <<files, search, clock, moves, due, vanished>>

(* Steam (external): its directory is a library, another is on a disk that *)
(* two installations may share.  Its file lists them with their games, of  *)
(* which one has a number that begins with the number of the game.         *)
LibraryLines(name, path, apps) ==
  <<<<name>>, <<"{">>, <<"path", path>>, <<"label", "">>,
    <<"apps">>, <<"{">>, <<"21419100", "size">>>>
  \o (IF path \in apps THEN <<<<"2141910", "size">>>> ELSE <<>>)
  \o <<<<"}">>, <<"}">>>>

FileListing(root, apps) ==
  <<<<"libraryfolders">>, <<"{">>>> \o LibraryLines("0", root, apps)
  \o LibraryLines("1", "disk", apps) \o <<<<"}">>>>

(* The usual installation, or one in a directory of the player's together  *)
(* with a Flatpak.                                                         *)
LinksChoices ==
  {[path \in {".steam/root", ".steam/steam", "native"} |-> "native"],
   [path \in {".steam/root", ".steam/steam", "flatpak"} |->
      IF path = "flatpak" THEN "flatpak" ELSE "elsewhere"]}

Roots == {links[path] : path \in DOMAIN links}
Libraries == Roots \cup {"disk"}

(* The libraries that list the game, of an installation.                   *)
ListedIn(root) ==
  {library \in {root, "disk"} :
     \E apps \in SUBSET {root, "disk"} :
       vdf[root] = FileListing(root, apps) /\ library \in apps}

(* The ways to a log: the one library that an installation lists, or its   *)
(* own directory, if it lists none and the game has been run there; and    *)
(* Lutris.                                                                 *)
Ways ==
  {way \in Roots \X Libraries :
     \/ ListedIn(way[1]) = {way[2]}
     \/ ListedIn(way[1]) = {} /\ way[2] = way[1] /\ way[1] \in prefixes}
  \cup {<<Lutris, Lutris>>}

Init ==
  /\ links \in LinksChoices
  /\ vdf \in [Roots -> {<<>>}]
  /\ prefixes = {} /\ log = <<>>
  /\ clock = 0 /\ moves = 0 /\ due = <<>> /\ vanished = {}
  /\ DiscoveryInit

-----------------------------------------------------------------------------

Lists(root) ==
  /\ moves < MaxMoves /\ moves' = moves + 1
  /\ \E apps \in SUBSET {root, "disk"} :
       vdf' = [vdf EXCEPT ![root] = FileListing(root, apps)]
  /\ due' = [way \in {way \in DOMAIN due : way[1] # root} |-> due[way]]
  /\ UNCHANGED <<links, prefixes, log, search, clock, vanished>>

(* The game runs where it is installed.                                    *)
GameWrites(place) ==
  /\ place = Lutris \/ \E root \in Roots : place \in ListedIn(root)
  /\ log' = [other \in DOMAIN log \cup {place} |->
               IF other = place THEN clock ELSE log[other]]
  /\ prefixes' = prefixes \cup ({place} \ {Lutris})
  /\ UNCHANGED <<links, vdf, search, clock, moves, due, vanished>>

LogVanishes(place) ==
  /\ place \in DOMAIN log
  /\ log' = [other \in DOMAIN log \ {place} |-> log[other]]
  /\ due' = [way \in {way \in DOMAIN due : way[2] # place} |-> due[way]]
  /\ vanished' = IF pc = "idle" THEN {} ELSE vanished \cup {place}
  /\ UNCHANGED <<links, vdf, prefixes, search, clock, moves>>

Tick ==
  /\ clock < MaxTime /\ clock' = clock + 1
  /\ UNCHANGED <<files, search, moves, due, vanished>>

SearchStep ==
  /\ Search
  /\ IF pc = "idle"
     THEN /\ due' = [way \in {way \in Ways : way[2] \in DOMAIN log} |-> log[way[2]]]
          /\ UNCHANGED vanished
     ELSE IF pc' = "idle" THEN due' = <<>> /\ vanished' = {}
     ELSE UNCHANGED <<due, vanished>>
  /\ UNCHANGED <<clock, moves>>

Next ==
  \/ \E root \in Roots : Lists(root)
  \/ \E place \in Libraries \cup {Lutris} : GameWrites(place) \/ LogVanishes(place)
  \/ Tick
  \/ SearchStep

Spec == Init /\ [][Next]_vars

(* A search ends with a log that is there, and no log that it was bound to *)
(* find throughout was fresher when it began: a stale log never shadows    *)
(* the one being written.  It reports a log as missing only if that log    *)
(* vanished during the search, or if there was no log it was bound to      *)
(* find.                                                                   *)
LiveLogFound ==
  [][pc # "idle" /\ pc' = "idle" =>
       LET place == answer'[2]
       IN  IF answer'[1] = "Ok"
           THEN /\ place \in DOMAIN log
                /\ \A way \in DOMAIN due : due[way] <= log[place]
           ELSE place \in vanished \/ DOMAIN due = {}]_vars
=============================================================================
