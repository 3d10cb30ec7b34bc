--------------------------- MODULE MovieDatabase ---------------------------
(***************************************************************************)
(* class imdb of assn-2-six-degrees, and imdb-test, which asks it for      *)
(* players.  The data files are what the class maps into memory: functions *)
(* from byte offsets to the name, title, year, count or offset stored      *)
(* there.  Names and titles are natural numbers, in the order of the       *)
(* strings they stand for; a film is <<title, year>>.                      *)
(***************************************************************************)
EXTENDS Integers, Sequences, SequencesExt, FiniteSetsExt

CONSTANTS Player, Film,
          NameLength,   \* the characters in a name or a title
          Casts,        \* what the data files may say: who plays in each film
          NumToPrint    \* kNumFilmsToPrint, kNumCostarsToPrint

\* A film's year fits in a signed byte, 1900 taken away.
ASSUME NamesAssumption ==
    /\ IsFiniteSet(Player) /\ Player \subseteq Nat \ {0}
    /\ IsFiniteSet(Film) /\ Film \subseteq Nat \X (1772..2027)
    /\ NameLength \in [DOMAIN NameLength -> Nat]
    /\ Player \subseteq DOMAIN NameLength /\ \A f \in Film : f[1] \in DOMAIN NameLength
    /\ Casts \subseteq [Film -> SUBSET Player]
    /\ NumToPrint \in Nat

VARIABLES cast,                  \* the relation that the files were written from
          actorFile, movieFile,
          shown                  \* what imdb-test printed last

dbVars == <<cast, actorFile, movieFile, shown>>

Nothing(p) == [player |-> p, films |-> {}, names |-> {}, costars |-> <<>>]

-----------------------------------------------------------------------------
(* The data files, which are not in the repository: a count, the offsets   *)
(* of the records in the order of their keys, the records.  A record is    *)
(* `used' bytes of text, then at the next even byte how many entries it    *)
(* has, then at the next multiple of four the entries.                     *)

Up(n, k) == ((n + (k - 1)) \div k) * k
ListAt(used) == Up(Up(used, 2) + 2, 4)

\* film::operator<
FilmLess(f, g) == f[1] < g[1] \/ (f[1] = g[1] /\ f[2] < g[2])

FilmOrder   == {r \in Film \X Film : FilmLess(r[1], r[2])}
PlayerOrder == {r \in Player \X Player : r[1] < r[2]}
Sorted(S, order) ==
    CHOOSE s \in [1..Cardinality(S) -> S] :
        \A j, k \in DOMAIN s : j < k => <<s[j], s[k]>> \in order
Place(s, e) == CHOOSE k \in DOMAIN s : s[k] = e

Films(c)        == Sorted({f \in Film : c[f] # {}}, FilmOrder)
Players(c)      == Sorted(UNION {c[f] : f \in Film}, PlayerOrder)
CreditsIn(c, p) == Sorted({f \in Film : p \in c[f]}, FilmOrder)
CastIn(c, f)    == Sorted(c[f], PlayerOrder)

UsedByPlayer(p) == NameLength[p] + 1
UsedByFilm(f)   == NameLength[f[1]] + 2     \* one byte for the year

\* Where the records of these sizes begin, and at last where they end.
Offsets(sizes) ==
    LET at[k \in 1..(Len(sizes) + 1)] ==
            IF k = 1 THEN 4 + 4 * Len(sizes) ELSE at[k - 1] + sizes[k - 1]
    IN  at
Size(used, n) == ListAt(used) + 4 * n
PlayerOffsets(c) ==
    LET players == Players(c)
    IN  Offsets([k \in DOMAIN players |->
                   Size(UsedByPlayer(players[k]), Cardinality({f \in Film : players[k] \in c[f]}))])
FilmOffsets(c) ==
    LET films == Films(c)
    IN  Offsets([k \in DOMAIN films |-> Size(UsedByFilm(films[k]), Cardinality(c[films[k]]))])

\* What is at which place in a record.
PlacesIn(r) == {0, r.used - 1, Up(r.used, 2)} \cup
               {ListAt(r.used) + 4 * (i - 1) : i \in DOMAIN r.entries}
ValueIn(r, d) == IF d = 0 THEN r.name
                 ELSE IF d = r.used - 1 THEN r.year
                 ELSE IF d = Up(r.used, 2) THEN Len(r.entries)
                 ELSE r.entries[(d - ListAt(r.used)) \div 4 + 1]

FileOf(at, records) ==
    LET n == Len(records)
        recordAt(a) == CHOOSE k \in 1..n : at[k] <= a /\ a < at[k + 1]
        places == {4 * k : k \in 0..n} \cup UNION {{at[k] + d : d \in PlacesIn(records[k])} : k \in 1..n}
    IN  [a \in places |-> IF a = 0 THEN n
                          ELSE IF a < at[1] THEN at[a \div 4]
                          ELSE ValueIn(records[recordAt(a)], a - at[recordAt(a)])]

WriteActorFile(c) ==
    LET players == Players(c)
        films == Films(c)
        filmAt == FilmOffsets(c)
        credits(p) == LET mine == CreditsIn(c, p)
                      IN  [i \in DOMAIN mine |-> filmAt[Place(films, mine[i])]]
    IN  FileOf(PlayerOffsets(c),
               [k \in DOMAIN players |-> [used |-> UsedByPlayer(players[k]), name |-> players[k],
                                          year |-> 0, entries |-> credits(players[k])]])

WriteMovieFile(c) ==
    LET films == Films(c)
        players == Players(c)
        playerAt == PlayerOffsets(c)
        members(f) == LET them == CastIn(c, f)
                      IN  [i \in DOMAIN them |-> playerAt[Place(players, them[i])]]
    IN  FileOf(FilmOffsets(c),
               [k \in DOMAIN films |-> [used |-> UsedByFilm(films[k]), name |-> films[k][1],
                                        year |-> films[k][2] - 1900, entries |-> members(films[k])]])

-----------------------------------------------------------------------------
(* imdb.cc *)

Read(file, at) == IF at \in DOMAIN file THEN file[at] ELSE 0
LengthOf(name) == IF name \in DOMAIN NameLength THEN NameLength[name] ELSE 0
Entries(file, at, n) == [i \in 1..n |-> Read(file, at + 4 * (i - 1))]

\* bsearch among n elements, of which the key compares with the i-th as
\* compare[i] says: the position of one that is equal, 0 if it meets none.
Bsearch(n, compare) ==
    LET find[area \in (0..n) \X (0..n)] ==
            LET l   == area[1]
                u   == area[2]
                mid == (l + u) \div 2
            IN  IF l >= u THEN 0
                ELSE IF compare[mid + 1] < 0 THEN find[<<l, mid>>]
                ELSE IF compare[mid + 1] > 0 THEN find[<<mid + 1, u>>]
                ELSE mid + 1
    IN  find[<<0, n>>]

CompareActors(player, offset) == player - Read(actorFile, offset)

\* The offsets in movieFile of the films of the player whose record is at
\* playerOffset.
GetMovieOffsets(playerOffset) ==
    LET padded == ((LengthOf(Read(actorFile, playerOffset)) + 2) \div 2) * 2
    IN  Entries(actorFile, playerOffset + ((padded + 2 + 2) \div 4) * 4,
                Read(actorFile, playerOffset + padded))

\* yearByte is a signed char.
ReadFilm(record) ==
    LET title == Read(movieFile, record)
        yearByte == Read(movieFile, record + LengthOf(title) + 1)
    IN  <<title, 1900 + ((yearByte + 128) % 256) - 128>>

CompareMovies(movie, offset) ==
    LET second == ReadFilm(offset)
    IN  IF second = movie THEN 0 ELSE IF FilmLess(movie, second) THEN -1 ELSE 1

PickMovieTitles(offsets, films) == films \o [i \in DOMAIN offsets |-> ReadFilm(offsets[i])]

\* What the call returns and the vector it has been given as it leaves it.
GetCredits(player, films) ==
    LET k == Bsearch(Read(actorFile, 0),
                     [i \in 1..Read(actorFile, 0) |->
                        CompareActors(player, Read(actorFile, 4 * i))])
    IN  IF k = 0 THEN [found |-> FALSE, films |-> films]
        ELSE [found |-> TRUE,
              films |-> PickMovieTitles(GetMovieOffsets(Read(actorFile, 4 * k)), films)]

\* Mutant: the year's byte is forgotten.
GetPlayersYearless(record, players) ==
    LET used == LengthOf(Read(movieFile, record)) + 1
        offset == ((used + 1) \div 2) * 2
        actors == Entries(movieFile, record + ((offset + 2 + 2) \div 4) * 4,
                          Read(movieFile, record + offset))
    IN  players \o [i \in DOMAIN actors |-> Read(actorFile, actors[i])]

GetPlayers(record, players) ==
    LET used == LengthOf(Read(movieFile, record)) + 2
        offset == ((used + 1) \div 2) * 2
        actors == Entries(movieFile, record + ((offset + 2 + 2) \div 4) * 4,
                          Read(movieFile, record + offset))
    IN  players \o [i \in DOMAIN actors |-> Read(actorFile, actors[i])]

GetCast(movie, players) ==
    LET k == Bsearch(Read(movieFile, 0),
                     [i \in 1..Read(movieFile, 0) |->
                        CompareMovies(movie, Read(movieFile, 4 * i))])
    IN  IF k = 0 THEN [found |-> FALSE, players |-> players]
        ELSE [found |-> TRUE, players |-> GetPlayers(Read(movieFile, 4 * k), players)]

-----------------------------------------------------------------------------
(* imdb-test.cc *)

\* listMovies, listCostars: which of n entries are printed.
Printed(n) == LET first == Min({n, NumToPrint})
              IN  (1..first) \cup ((Max({first, n - NumToPrint}) + 1)..n)

ListMovies(credits) == {credits[n] : n \in Printed(Len(credits))}

\* The map from costars to the films they share with the player.
ListCostars(player, credits) ==
    LET inFilm(f) == ToSet(GetCast(f, <<>>).players) \ {player}
        costars == UNION {inFilm(f) : f \in ToSet(credits)}
    IN  [c \in costars |-> {f \in ToSet(credits) : c \in inFilm(f)}]

ListAllMoviesAndCostars(player) ==
    LET credits == GetCredits(player, <<>>)
    IN  IF ~credits.found \/ credits.films = <<>> THEN Nothing(player)
        ELSE LET costars == ListCostars(player, credits.films)
                 order == Sorted(DOMAIN costars, PlayerOrder)
             IN  [player |-> player,
                  films |-> ListMovies(credits.films),
                  names |-> {order[n] : n \in Printed(Len(order))},
                  costars |-> costars]

Opened == /\ actorFile = WriteActorFile(cast)
          /\ movieFile = WriteMovieFile(cast)
          /\ shown = Nothing(0)

DbInit == cast \in Casts /\ Opened

\* One turn of the loop of queryForActors.
QueryForActors(player) == /\ shown' = ListAllMoviesAndCostars(player)
                          /\ UNCHANGED <<cast, actorFile, movieFile>>

DbSpec == DbInit /\ [][\E player \in Player : QueryForActors(player)]_dbVars

-----------------------------------------------------------------------------
\* What the class gets from the files: the films of a player, the cast of a film.
ReadsRight ==
    /\ \A p \in Player : LET credits == GetCredits(p, <<>>)
                            mine == {f \in Film : p \in cast[f]}
                        IN  /\ credits.found <=> mine # {}
                            /\ credits.films \in Seq(Film) /\ ToSet(credits.films) = mine
    /\ \A f \in Film : LET players == GetCast(f, <<>>).players
                      IN  players \in Seq(Player) /\ ToSet(players) = cast[f]

\* The films and the players that the class returns are those that the files
\* were written from, for everybody, and so is what imdb-test shows of them:
\* the costars are those who share a film with the player, each with just these
\* films, films of one title kept apart; and when not all are printed, the
\* first and the last are (getCredits, getCast and the padding of the records
\* that they skip, listCostars).
CostarsExact ==
    LET p == shown.player
        together(c) == {f \in Film : {p, c} \subseteq cast[f]}
        credits == CreditsIn(cast, p)
        costars == Sorted({c \in Player \ {p} : together(c) # {}}, PlayerOrder)
        shows(some, all) == /\ some \subseteq ToSet(all)
                            /\ \A n \in DOMAIN all :
                                  n <= NumToPrint \/ n > Len(all) - NumToPrint => all[n] \in some
    IN  /\ ReadsRight
        /\ shown.costars = [c \in ToSet(costars) |-> together(c)]
        /\ shows(shown.names, costars)
        /\ shows(shown.films, credits)
=============================================================================
