--------------------------- MODULE BackgroundProofs ---------------------------
(***************************************************************************)
(* What the background work of the host keeps true, proved for any number  *)
(* of writers, requests, cards, books and archives.                        *)
(***************************************************************************)
EXTENDS MCBackground, FiniteSets, TLAPS, WellFoundedInduction, FiniteSetTheorems

\* Every nonempty set of naturals has a least element.
LEMMA LeastExists ==
    ASSUME NEW T, T \subseteq Nat, T # {}
    PROVE  \E x \in T : \A y \in T : x <= y
<1>1. PICK x \in T : \A y \in T : <<y, x>> \notin OpToRel(<, Nat)
  BY NatLessThanWellFounded, WFMin
<1>2. ASSUME NEW y \in T
      PROVE  x <= y
  <2>1. <<y, x>> \notin {p \in Nat \X Nat : p[1] < p[2]}
    BY <1>1, <1>2 DEF OpToRel
  <2>2. x \in Nat /\ y \in Nat
    OBVIOUS
  <2> QED
    BY <2>1, <2>2
<1> QED
  BY <1>2
-----------------------------------------------------------------------------
(***************************************************************************)
(* Pictures                                                                *)
(***************************************************************************)

Sites == {"rest", "lock", "look", "fetch", "write", "rename", "sweep", "remember",
          "check", "remove"}
PictureJob ==
    [at : Sites, card : Cards \cup {""}, print : Prints \cup {""},
     path : Prints \cup Cards \cup {""}, previous : Prints \cup Cards \cup {""},
     attach : BOOLEAN]

\* A request is somewhere, and past its first question it knows what it is about.
JobInv ==
    /\ writer \in [Writers -> PictureJob]
    /\ \A w \in Writers : writer[w].at # "rest" =>
          writer[w].card \in Cards /\ writer[w].print \in Prints

\* A row names the file of its own fingerprint or the file of a card, and so does
\* what a writer is about to name.
PathInv ==
    /\ \A c \in Cards : row[c].path \in Cards \cup {row[c].print}
    /\ \A w \in Writers : writer[w].at \in {"sweep", "remember"} =>
          writer[w].path \in Cards \cup {writer[w].print}

\* No two writers hold the lock of one fingerprint.
PrintLockInv ==
    \A v, w \in Writers : v # w /\ Picture!Holds(v) /\ Picture!Holds(w) =>
        writer[v].print # writer[w].print

\* Where no writer died and no card was asked for twice at once: each card has one
\* writer, who knows the file its row names, and a file no row names has a writer
\* who is about to name it or to remove it.
Tends(w, path) ==
    \/ writer[w].at \in {"sweep", "remember"} /\ writer[w].path = path
    \/ writer[w].at \in {"check", "remove"} /\ writer[w].previous = path

TidyInv ==
    ~tangled =>
        /\ \A v, w \in Writers : v # w /\ writer[v].at # "rest" /\ writer[w].at # "rest" =>
              writer[v].card # writer[w].card
        /\ \A w \in Writers : writer[w].at \in {"fetch", "write", "rename", "sweep", "remember"} =>
              writer[w].previous = row[writer[w].card].path
        /\ \A path \in files : Picture!Referenced(path) \/ \E w \in Writers : Tends(w, path)

\* The inductive invariant of the pictures.
PictureInv ==
    /\ Picture!TypeOK /\ JobInv /\ PathInv /\ PrintLockInv /\ Picture!FetchedOnce /\ TidyInv

\* What a step of one writer does to the requests: the others stand still.
LEMMA JobSet ==
    ASSUME JobInv, NEW w \in Writers, NEW j \in PictureJob,
           writer' = [writer EXCEPT ![w] = j],
           j.at # "rest" => j.card \in Cards /\ j.print \in Prints
    PROVE  /\ JobInv'
           /\ writer'[w] = j
           /\ \A v \in Writers \ {w} : writer'[v] = writer[v]
BY DEF JobInv

\* A request that is over.
LEMMA Finished ==
    ASSUME JobInv, NEW w \in Writers, Picture!Finish(w)
    PROVE  /\ JobInv'
           /\ writer'[w].at = "rest"
           /\ \A v \in Writers \ {w} : writer'[v] = writer[v]
<1>1. Picture!AtRest \in PictureJob /\ Picture!AtRest.at = "rest"
  BY DEF Picture!AtRest, PictureJob, Sites
<1> QED
  BY <1>1, JobSet DEF Picture!Finish

\* A request that goes on to its next site.
LEMMA WentTo ==
    ASSUME JobInv, NEW w \in Writers, NEW step \in Sites, Picture!To(w, step),
           writer[w].at # "rest"
    PROVE  /\ JobInv'
           /\ writer'[w].at = step /\ writer'[w].card = writer[w].card
           /\ writer'[w].print = writer[w].print /\ writer'[w].path = writer[w].path
           /\ writer'[w].previous = writer[w].previous
           /\ \A v \in Writers \ {w} : writer'[v] = writer[v]
<1> DEFINE j == [writer[w] EXCEPT !.at = step]
<1>1. writer[w] \in PictureJob /\ writer[w].card \in Cards /\ writer[w].print \in Prints
  BY DEF JobInv
<1>2. /\ j \in PictureJob /\ j.at = step /\ j.card = writer[w].card
      /\ j.print = writer[w].print /\ j.path = writer[w].path
      /\ j.previous = writer[w].previous
  BY <1>1 DEF PictureJob
<1>3. writer' = [writer EXCEPT ![w] = j]
  BY DEF Picture!To
<1> HIDE DEF j
<1> QED
  BY <1>1, <1>2, <1>3, JobSet

\* What a row names is a file of a fingerprint or of a card.
LEMMA RowTyped ==
    ASSUME Picture!TypeOK
    PROVE  /\ Picture!Paths = Prints \cup Cards
           /\ \A c \in Cards : /\ row[c].path \in Prints \cup Cards \cup {""}
                              /\ row[c].print \in Prints \cup {""}
<1>1. {Picture!OwnFile(c) : c \in Cards} = Cards
  BY DEF Picture!OwnFile
<1>2. Picture!Paths = Prints \cup Cards
  BY <1>1 DEF Picture!Paths
<1> QED
  BY <1>2 DEF Picture!TypeOK

\* The invariant where a step leaves rows and files as they are and moves one
\* request: it takes a lock that is free, knows the file it is about to name,
\* downloads what no row has, and does not drop a file it tends.
LEMMA MovedRequest ==
    ASSUME PictureInv, NEW w \in Writers, JobInv',
           \A v \in Writers \ {w} : writer'[v] = writer[v],
           row' = row, files' = files,
           Picture!Holds(w)' => \A v \in Writers \ {w} :
              Picture!Holds(v) => writer[v].print # writer'[w].print,
           writer'[w].at \in {"sweep", "remember"} =>
              writer'[w].path \in Cards \cup {writer'[w].print},
           writer'[w].at \in {"fetch", "write", "rename"} =>
              \A c \in Cards : ~(row[c].print = writer'[w].print /\ row[c].path \in files),
           ~tangled' => ~tangled,
           ~tangled' /\ writer'[w].at # "rest" => \A v \in Writers \ {w} :
              writer[v].at # "rest" => writer[v].card # writer'[w].card,
           ~tangled' /\ writer'[w].at \in {"fetch", "write", "rename", "sweep", "remember"} =>
              writer'[w].previous = row[writer'[w].card].path,
           ~tangled' => \A path \in files :
              Tends(w, path) => Tends(w, path)' \/ Picture!Referenced(path)
    PROVE  PathInv' /\ PrintLockInv' /\ Picture!FetchedOnce' /\ TidyInv'
<1> USE DEF PictureInv
<1>1. PathInv'
  BY DEF PathInv
<1>2. PrintLockInv'
  BY DEF PrintLockInv, Picture!Holds, Picture!On
<1>3. Picture!FetchedOnce'
  BY DEF Picture!FetchedOnce
<1>4. TidyInv'
  <2> SUFFICES ASSUME ~tangled'
               PROVE  TidyInv'
    BY DEF TidyInv
  <2>1. \A v, u \in Writers : v # u /\ writer'[v].at # "rest" /\ writer'[u].at # "rest" =>
           writer'[v].card # writer'[u].card
    BY DEF TidyInv
  <2>2. \A v \in Writers : writer'[v].at \in {"fetch", "write", "rename", "sweep", "remember"} =>
           writer'[v].previous = row'[writer'[v].card].path
    BY DEF TidyInv
  <2>3. ASSUME NEW path \in files
        PROVE  Picture!Referenced(path)' \/ \E v \in Writers : Tends(v, path)'
    <3>1. CASE Picture!Referenced(path)
      BY <3>1 DEF Picture!Referenced
    <3>2. CASE Tends(w, path)
      BY <3>2 DEF Picture!Referenced
    <3>3. ASSUME NEW v \in Writers \ {w}, Tends(v, path)
          PROVE  Tends(v, path)'
      BY <3>3 DEF Tends
    <3> QED
      BY <3>1, <3>2, <3>3 DEF TidyInv
  <2> QED
    BY <2>1, <2>2, <2>3 DEF TidyInv
<1> QED
  BY <1>1, <1>2, <1>3, <1>4

\* A request that gives up before its file is there leaves nothing to tend.
LEMMA GivesUp ==
    ASSUME PictureInv, NEW w \in Writers, Picture!Finish(w),
           writer[w].at \in {"look", "fetch", "write", "rename"},
           row' = row, files' = files, tangled' = tangled
    PROVE  JobInv' /\ PathInv' /\ PrintLockInv' /\ Picture!FetchedOnce' /\ TidyInv'
<1> USE DEF PictureInv
<1>1. JobInv' /\ writer'[w].at = "rest" /\ \A v \in Writers \ {w} : writer'[v] = writer[v]
  BY Finished
<1>2. PathInv' /\ PrintLockInv' /\ Picture!FetchedOnce' /\ TidyInv'
  BY <1>1, MovedRequest DEF Picture!Holds, Picture!On, Tends
<1> QED
  BY <1>1, <1>2

\* A writer that holds the lock and goes on holding it.
LEMMA Proceeds ==
    ASSUME PictureInv, NEW w \in Writers,
           \/ writer[w].at = "fetch" /\ Picture!To(w, "write")
           \/ writer[w].at = "write" /\ Picture!To(w, "rename")
           \/ writer[w].at = "sweep" /\ Picture!To(w, "remember"),
           row' = row, files' = files, tangled' = tangled
    PROVE  JobInv' /\ PathInv' /\ PrintLockInv' /\ Picture!FetchedOnce' /\ TidyInv'
<1> USE DEF PictureInv
<1>1. PICK step \in {"write", "rename", "remember"} :
         /\ Picture!To(w, step)
         /\ step \in {"write", "rename"} => writer[w].at \in {"fetch", "write"}
         /\ step = "remember" => writer[w].at = "sweep"
  OBVIOUS
<1>2. Picture!Holds(w) /\ writer[w].at # "rest"
  BY <1>1 DEF Picture!Holds
<1>3. /\ JobInv' /\ writer'[w].at = step /\ writer'[w].card = writer[w].card
      /\ writer'[w].print = writer[w].print /\ writer'[w].path = writer[w].path
      /\ writer'[w].previous = writer[w].previous
      /\ \A v \in Writers \ {w} : writer'[v] = writer[v]
  BY <1>1, <1>2, WentTo DEF Sites
<1>4. \A v \in Writers \ {w} : Picture!Holds(v) => writer[v].print # writer'[w].print
  BY <1>2, <1>3 DEF PrintLockInv
<1>5. writer'[w].at \in {"sweep", "remember"} => writer'[w].path \in Cards \cup {writer'[w].print}
  BY <1>1, <1>3 DEF PathInv
<1>6. writer'[w].at \in {"fetch", "write", "rename"} =>
         \A c \in Cards : ~(row[c].print = writer'[w].print /\ row[c].path \in files)
  BY <1>1, <1>3 DEF Picture!FetchedOnce
<1>7. ~tangled' => /\ ~tangled
                   /\ \A v \in Writers \ {w} : writer[v].at # "rest" => writer[v].card # writer'[w].card
                   /\ writer'[w].previous = row[writer'[w].card].path
                   /\ \A path \in files : Tends(w, path) => Tends(w, path)'
  BY <1>1, <1>2, <1>3 DEF TidyInv, Tends
<1> QED
  BY <1>3, <1>4, <1>5, <1>6, <1>7, MovedRequest

\* The steps that take and keep the lock: BeginLocked, Look, Fetch, WriteTemp,
\* a Rename that fails, Sweep; and the end of a request without one.
LEMMA LockedSteps ==
    ASSUME PictureInv, NEW w \in Writers,
           \/ Picture!BeginLocked(w) \/ Picture!Look(w) \/ Picture!Fetch(w)
           \/ Picture!WriteTemp(w) \/ Picture!Sweep(w) \/ Picture!CheckPrevious(w)
           \/ Picture!Rename(w) /\ w \notin temp
    PROVE  JobInv' /\ PathInv' /\ PrintLockInv' /\ Picture!FetchedOnce' /\ TidyInv'
<1> USE DEF PictureInv
<1>a. row' = row /\ files' = files /\ tangled' = tangled
  BY DEF Picture!BeginLocked, Picture!Look, Picture!Fetch, Picture!WriteTemp, Picture!Sweep,
         Picture!CheckPrevious, Picture!Rename, Picture!store, Picture!rest, Picture!searches
<1>1. CASE Picture!BeginLocked(w)
  <2>1. writer[w].at = "lock" /\ Picture!To(w, "look") /\ Picture!LockFree(writer[w].print)
    BY <1>1 DEF Picture!BeginLocked, Picture!On
  <2>2. /\ JobInv' /\ writer'[w].at = "look"
        /\ writer'[w].card = writer[w].card /\ writer'[w].print = writer[w].print
        /\ \A v \in Writers \ {w} : writer'[v] = writer[v]
    BY <2>1, WentTo DEF Sites
  <2>3. PathInv' /\ PrintLockInv' /\ Picture!FetchedOnce' /\ TidyInv'
    BY <1>a, <2>1, <2>2, MovedRequest DEF Picture!LockFree, Tends, TidyInv
  <2> QED
    BY <2>2, <2>3
<1>2. CASE Picture!Look(w)
  <2>1. writer[w].at = "look" /\ Picture!Holds(w)
    BY <1>2 DEF Picture!Look, Picture!On, Picture!Holds
  <2>2. CASE Picture!Finish(w)
    BY <1>a, <2>1, <2>2, GivesUp
  <2> DEFINE previous == row[writer[w].card].path
  <2>3. ASSUME NEW path \in Picture!PublishedImage(writer[w].print),
               writer' = [writer EXCEPT ![w].at = "remember", ![w].path = path,
                                        ![w].previous = previous]
        PROVE  JobInv' /\ PathInv' /\ PrintLockInv' /\ Picture!FetchedOnce' /\ TidyInv'
    <3> DEFINE j == [writer[w] EXCEPT !.at = "remember", !.path = path, !.previous = previous]
    <3>1. PICK c \in Cards : row[c].print = writer[w].print /\ row[c].path \in files /\ path = row[c].path
      BY <2>3 DEF Picture!PublishedImage, Picture!Live
    <3>2. path \in Prints \cup Cards \cup {""} /\ previous \in Prints \cup Cards \cup {""}
      BY <2>1, <3>1, RowTyped DEF JobInv
    <3>3. writer[w] \in PictureJob /\ writer[w].card \in Cards /\ writer[w].print \in Prints
      BY <2>1 DEF JobInv
    <3>4. /\ j \in PictureJob /\ j.at = "remember" /\ j.card = writer[w].card
          /\ j.print = writer[w].print /\ j.path = path /\ j.previous = previous
      BY <3>2, <3>3 DEF PictureJob, Sites
    <3>5. writer' = [writer EXCEPT ![w] = j]
      BY <2>3
    <3> HIDE DEF j, previous
    <3>6. JobInv' /\ writer'[w] = j /\ \A v \in Writers \ {w} : writer'[v] = writer[v]
      BY <3>3, <3>4, <3>5, JobSet
    <3>7. path \in Cards \cup {writer[w].print}
      BY <3>1 DEF PathInv
    <3>8. \A v \in Writers \ {w} : Picture!Holds(v) => writer[v].print # writer[w].print
      BY <2>1 DEF PrintLockInv
    <3>9. PathInv' /\ PrintLockInv' /\ Picture!FetchedOnce' /\ TidyInv'
      BY <1>a, <2>1, <3>4, <3>6, <3>7, <3>8, MovedRequest DEF Tends, TidyInv, previous
    <3> QED
      BY <3>6, <3>9
  <2>4. ASSUME Picture!PublishedImage(writer[w].print) = {},
               writer' = [writer EXCEPT ![w].at = "fetch", ![w].previous = previous]
        PROVE  JobInv' /\ PathInv' /\ PrintLockInv' /\ Picture!FetchedOnce' /\ TidyInv'
    <3> DEFINE j == [writer[w] EXCEPT !.at = "fetch", !.previous = previous]
    <3>1. \A c \in Cards : ~(row[c].print = writer[w].print /\ row[c].path \in files)
      BY <2>4 DEF Picture!PublishedImage, Picture!Live
    <3>2. previous \in Prints \cup Cards \cup {""}
      BY <2>1, RowTyped DEF JobInv
    <3>3. writer[w] \in PictureJob /\ writer[w].card \in Cards /\ writer[w].print \in Prints
      BY <2>1 DEF JobInv
    <3>4. /\ j \in PictureJob /\ j.at = "fetch" /\ j.card = writer[w].card
          /\ j.print = writer[w].print /\ j.previous = previous
      BY <3>2, <3>3 DEF PictureJob, Sites
    <3>5. writer' = [writer EXCEPT ![w] = j]
      BY <2>4
    <3> HIDE DEF j, previous
    <3>6. JobInv' /\ writer'[w] = j /\ \A v \in Writers \ {w} : writer'[v] = writer[v]
      BY <3>3, <3>4, <3>5, JobSet
    <3>8. \A v \in Writers \ {w} : Picture!Holds(v) => writer[v].print # writer[w].print
      BY <2>1 DEF PrintLockInv
    <3>9. PathInv' /\ PrintLockInv' /\ Picture!FetchedOnce' /\ TidyInv'
      BY <1>a, <2>1, <3>1, <3>4, <3>6, <3>8, MovedRequest DEF Tends, TidyInv, previous
    <3> QED
      BY <3>6, <3>9
  <2> QED
    BY <1>2, <2>2, <2>3, <2>4 DEF Picture!Look
<1>3. CASE Picture!Fetch(w)
  <2>1. writer[w].at = "fetch" /\ (Picture!Finish(w) \/ Picture!To(w, "write"))
    BY <1>3 DEF Picture!Fetch, Picture!On
  <2> QED
    BY <1>a, <2>1, GivesUp, Proceeds
<1>4. CASE Picture!WriteTemp(w)
  <2>1. writer[w].at = "write" /\ Picture!To(w, "rename")
    BY <1>4 DEF Picture!WriteTemp, Picture!On
  <2> QED
    BY <1>a, <2>1, Proceeds
<1>5. CASE Picture!Sweep(w)
  <2>1. writer[w].at = "sweep" /\ Picture!To(w, "remember")
    BY <1>5 DEF Picture!Sweep, Picture!On
  <2> QED
    BY <1>a, <2>1, Proceeds
<1>6. CASE Picture!Rename(w) /\ w \notin temp
  <2>1. writer[w].at = "rename" /\ Picture!Finish(w)
    BY <1>6 DEF Picture!Rename, Picture!On
  <2> QED
    BY <1>a, <2>1, GivesUp
<1>7. CASE Picture!CheckPrevious(w)
  <2>1. writer[w].at = "check"
    BY <1>7 DEF Picture!CheckPrevious, Picture!On
  <2>2. CASE Picture!Referenced(writer[w].previous) /\ Picture!Finish(w)
    <3>1. JobInv' /\ writer'[w].at = "rest" /\ \A v \in Writers \ {w} : writer'[v] = writer[v]
      BY <2>2, Finished
    <3>2. PathInv' /\ PrintLockInv' /\ Picture!FetchedOnce' /\ TidyInv'
      BY <1>a, <2>1, <2>2, <3>1, MovedRequest DEF Picture!Holds, Picture!On, Tends
    <3> QED
      BY <3>1, <3>2
  <2>3. CASE Picture!To(w, "remove")
    <3>1. /\ JobInv' /\ writer'[w].at = "remove" /\ writer'[w].previous = writer[w].previous
          /\ writer'[w].card = writer[w].card
          /\ \A v \in Writers \ {w} : writer'[v] = writer[v]
      BY <2>1, <2>3, WentTo DEF Sites
    <3>2. PathInv' /\ PrintLockInv' /\ Picture!FetchedOnce' /\ TidyInv'
      BY <1>a, <2>1, <3>1, MovedRequest DEF Picture!Holds, Picture!On, Tends, TidyInv
    <3> QED
      BY <3>1, <3>2
  <2> QED
    BY <1>7, <2>2, <2>3 DEF Picture!CheckPrevious
<1> QED
  BY <1>1, <1>2, <1>3, <1>4, <1>5, <1>6, <1>7

\* A request that begins: the card's subject has a fingerprint, and a card that
\* somebody is asking for already tangles the two.
LEMMA Asked ==
    ASSUME PictureInv, NEW w \in Writers, NEW c \in Cards, NEW b \in BOOLEAN, Picture!Ask(w, c, b)
    PROVE  JobInv' /\ PathInv' /\ PrintLockInv' /\ Picture!FetchedOnce' /\ TidyInv'
<1> USE DEF PictureInv
<1> DEFINE j == [Picture!AtRest EXCEPT !.at = "lock", !.card = c, !.print = subject[c], !.attach = b]
<1>1. subject[c] \in Prints
  BY DEF Picture!Ask, Picture!Wanted, Picture!CachedPicture, Picture!TypeOK, Picture!Grammar
<1>2. j \in PictureJob /\ j.at = "lock" /\ j.card = c /\ j.print = subject[c]
  BY <1>1 DEF Picture!AtRest, PictureJob, Sites
<1>3. /\ writer[w].at = "rest" /\ writer' = [writer EXCEPT ![w] = j]
      /\ row' = row /\ files' = files
      /\ tangled' = (tangled \/ \E v \in Writers : writer[v].at # "rest" /\ writer[v].card = c)
  BY DEF Picture!Ask, Picture!On, Picture!store
<1> HIDE DEF j
<1>4. JobInv' /\ writer'[w] = j /\ \A v \in Writers \ {w} : writer'[v] = writer[v]
  BY <1>1, <1>2, <1>3, JobSet
<1>5. /\ ~Picture!Holds(w)' /\ writer'[w].at = "lock" /\ writer'[w].card = c
      /\ \A path \in files : ~Tends(w, path)
  BY <1>2, <1>3, <1>4 DEF Picture!Holds, Tends
<1>6. ~tangled' => /\ ~tangled
                   /\ \A v \in Writers \ {w} : writer[v].at # "rest" => writer[v].card # c
  BY <1>3
<1>7. PathInv' /\ PrintLockInv' /\ Picture!FetchedOnce' /\ TidyInv'
  BY <1>3, <1>4, <1>5, <1>6, MovedRequest
<1> QED
  BY <1>4, <1>7

\* A request whose process dies.
LEMMA Died ==
    ASSUME PictureInv, NEW w \in Writers, Picture!Crash(w)
    PROVE  JobInv' /\ PathInv' /\ PrintLockInv' /\ Picture!FetchedOnce' /\ TidyInv'
<1> USE DEF PictureInv
<1>1. JobInv' /\ writer'[w].at = "rest" /\ \A v \in Writers \ {w} : writer'[v] = writer[v]
  BY Finished DEF Picture!Crash
<1>2. row' = row /\ files' = files /\ tangled' = TRUE
  BY DEF Picture!Crash, Picture!store
<1>3. PathInv' /\ PrintLockInv' /\ Picture!FetchedOnce' /\ TidyInv'
  BY <1>1, <1>2, MovedRequest DEF Picture!Holds, Picture!On
<1> QED
  BY <1>1, <1>3

\* A file that is renamed into place is no other writer's, whose lock is another.
LEMMA Renamed ==
    ASSUME PictureInv, NEW w \in Writers, Picture!Rename(w), w \in temp
    PROVE  JobInv' /\ PathInv' /\ PrintLockInv' /\ Picture!FetchedOnce' /\ TidyInv'
<1> USE DEF PictureInv
<1> DEFINE j == [writer[w] EXCEPT !.at = "sweep", !.path = writer[w].print]
<1>1. writer[w].at = "rename" /\ writer[w] \in PictureJob
  BY DEF Picture!Rename, Picture!On, JobInv
<1>2. writer[w].card \in Cards /\ writer[w].print \in Prints /\ Picture!Holds(w)
  BY <1>1 DEF JobInv, Picture!Holds
<1>3. /\ j \in PictureJob /\ j.at = "sweep" /\ j.card = writer[w].card
      /\ j.print = writer[w].print /\ j.path = writer[w].print
      /\ j.previous = writer[w].previous
  BY <1>1, <1>2 DEF PictureJob, Sites
<1>4. /\ writer' = [writer EXCEPT ![w] = j] /\ files' = files \cup {writer[w].print}
      /\ row' = row /\ tangled' = tangled
  BY DEF Picture!Rename, Picture!SharedPath, Picture!rest
<1> HIDE DEF j
<1>5. JobInv' /\ writer'[w] = j /\ \A v \in Writers \ {w} : writer'[v] = writer[v]
  BY <1>2, <1>3, <1>4, JobSet
<1>6. PathInv'
  BY <1>3, <1>4, <1>5 DEF PathInv
<1>7. \A v \in Writers \ {w} : Picture!Holds(v) => writer[v].print # writer[w].print
  BY <1>2 DEF PrintLockInv
<1>8. PrintLockInv'
  BY <1>3, <1>5, <1>7 DEF PrintLockInv, Picture!Holds, Picture!On
<1>9. Picture!FetchedOnce'
  <2> SUFFICES ASSUME NEW v \in Writers, writer'[v].at \in {"fetch", "write", "rename"},
                      NEW c \in Cards, row[c].print = writer'[v].print, row[c].path \in files'
               PROVE  FALSE
    BY <1>4 DEF Picture!FetchedOnce
  <2>1. v \in Writers \ {w} /\ writer'[v] = writer[v] /\ Picture!Holds(v)
    BY <1>3, <1>5 DEF Picture!Holds, Picture!On
  <2>2. row[c].path = writer[w].print
    BY <1>4, <2>1 DEF Picture!FetchedOnce
  <2>3. row[c].print = writer[w].print
    BY <1>2, <2>2, PictureAssumption DEF PathInv
  <2> QED
    BY <1>7, <2>1, <2>3
<1>10. TidyInv'
  <2> SUFFICES ASSUME ~tangled
               PROVE  TidyInv'
    BY <1>4 DEF TidyInv
  <2>1. \A v, u \in Writers : v # u /\ writer'[v].at # "rest" /\ writer'[u].at # "rest" =>
           writer'[v].card # writer'[u].card
    BY <1>1, <1>3, <1>5 DEF TidyInv
  <2>2. \A v \in Writers : writer'[v].at \in {"fetch", "write", "rename", "sweep", "remember"} =>
           writer'[v].previous = row'[writer'[v].card].path
    BY <1>1, <1>3, <1>4, <1>5 DEF TidyInv
  <2>3. ASSUME NEW path \in files'
        PROVE  Picture!Referenced(path)' \/ \E v \in Writers : Tends(v, path)'
    <3>1. CASE path = writer[w].print
      BY <1>3, <1>5, <3>1 DEF Tends
    <3>2. CASE path # writer[w].print
      <4>1. Picture!Referenced(path) \/ \E v \in Writers : Tends(v, path)
        BY <1>4, <3>2 DEF TidyInv
      <4>2. ~Tends(w, path)
        BY <1>1 DEF Tends
      <4> QED
        BY <1>4, <1>5, <4>1, <4>2 DEF Tends, Picture!Referenced
    <3> QED
      BY <3>1, <3>2
  <2> QED
    BY <2>1, <2>2, <2>3 DEF TidyInv
<1> QED
  BY <1>5, <1>6, <1>8, <1>9, <1>10

\* A row that is written has the fingerprint its writer has locked; what it named
\* before is known to the writer.
LEMMA Remembered ==
    ASSUME PictureInv, NEW w \in Writers, Picture!Remember(w)
    PROVE  JobInv' /\ PathInv' /\ PrintLockInv' /\ Picture!FetchedOnce' /\ TidyInv'
<1> USE DEF PictureInv
<1> DEFINE j == writer[w]
<1>1. j.at = "remember" /\ Picture!Holds(w)
  BY DEF Picture!Remember, Picture!On, Picture!Holds
<1>2. j.card \in Cards /\ j.print \in Prints /\ j.path \in Cards \cup {j.print}
  BY <1>1 DEF JobInv, PathInv
<1>3. /\ row' = [row EXCEPT ![j.card] = [print |-> j.print, path |-> j.path]]
      /\ files' = files /\ tangled' = tangled
      /\ \/ j.previous \in {"", j.path} /\ Picture!Finish(w)
         \/ j.previous \notin {"", j.path} /\ Picture!To(w, "check")
  BY DEF Picture!Remember, Picture!rest
<1>4. /\ JobInv'
      /\ \/ j.previous \in {"", j.path} /\ writer'[w].at = "rest"
         \/ writer'[w].at = "check" /\ writer'[w].previous = j.previous /\ writer'[w].card = j.card
      /\ \A v \in Writers \ {w} : writer'[v] = writer[v]
  BY <1>1, <1>3, Finished, WentTo DEF Sites
<1>5. /\ row'[j.card].print = j.print /\ row'[j.card].path = j.path
      /\ \A c \in Cards \ {j.card} : row'[c] = row[c]
  BY <1>2, <1>3 DEF Picture!TypeOK
<1>6. PathInv'
  BY <1>2, <1>4, <1>5 DEF PathInv
<1>7. \A v \in Writers \ {w} : Picture!Holds(v) => writer[v].print # j.print
  BY <1>1 DEF PrintLockInv
<1>8. PrintLockInv'
  BY <1>4 DEF PrintLockInv, Picture!Holds, Picture!On
<1>9. Picture!FetchedOnce'
  <2> SUFFICES ASSUME NEW v \in Writers, writer'[v].at \in {"fetch", "write", "rename"},
                      NEW c \in Cards, row'[c].print = writer'[v].print, row'[c].path \in files
               PROVE  FALSE
    BY <1>3 DEF Picture!FetchedOnce
  <2>1. v \in Writers \ {w} /\ writer'[v] = writer[v] /\ Picture!Holds(v)
    BY <1>4 DEF Picture!Holds, Picture!On
  <2>2. c # j.card
    BY <1>5, <1>7, <2>1
  <2> QED
    BY <1>5, <2>1, <2>2 DEF Picture!FetchedOnce
<1>10. TidyInv'
  <2> SUFFICES ASSUME ~tangled
               PROVE  TidyInv'
    BY <1>3 DEF TidyInv
  <2>a. \A v \in Writers : writer'[v].at # "rest" =>
           writer[v].at # "rest" /\ writer'[v].card = writer[v].card
    <3> SUFFICES ASSUME NEW v \in Writers, writer'[v].at # "rest"
                 PROVE  writer[v].at # "rest" /\ writer'[v].card = writer[v].card
      OBVIOUS
    <3>1. CASE v = w
      BY <1>1, <1>4, <3>1
    <3>2. CASE v # w
      BY <1>4, <3>2
    <3> QED
      BY <3>1, <3>2
  <2>1. \A v, u \in Writers : v # u /\ writer'[v].at # "rest" /\ writer'[u].at # "rest" =>
           writer'[v].card # writer'[u].card
    BY <2>a DEF TidyInv
  <2>2. ASSUME NEW v \in Writers,
               writer'[v].at \in {"fetch", "write", "rename", "sweep", "remember"}
        PROVE  writer'[v].previous = row'[writer'[v].card].path
    <3>1. v \in Writers \ {w} /\ writer'[v] = writer[v]
      BY <1>4, <2>2
    <3>2. writer[v].card \in Cards \ {j.card}
      BY <1>1, <2>2, <3>1 DEF TidyInv, JobInv
    <3> QED
      BY <1>5, <2>2, <3>1, <3>2 DEF TidyInv
  <2>3. ASSUME NEW path \in files
        PROVE  Picture!Referenced(path)' \/ \E v \in Writers : Tends(v, path)'
    <3>1. j.previous = row[j.card].path
      BY <1>1 DEF TidyInv
    <3>2. path # ""
      BY RowTyped, PictureAssumption DEF Picture!TypeOK
    <3>3. CASE path = j.path
      BY <1>2, <1>5, <3>3 DEF Picture!Referenced
    <3>4. CASE path # j.path /\ path = j.previous
      BY <1>4, <3>2, <3>4 DEF Tends
    <3>5. CASE path # j.path /\ path # j.previous
      <4>1. Picture!Referenced(path) \/ \E v \in Writers : Tends(v, path)
        BY DEF TidyInv
      <4>2. ~Tends(w, path)
        BY <1>1, <3>5 DEF Tends
      <4>3. ASSUME NEW c \in Cards, row[c].path = path
            PROVE  row'[c].path = path
        BY <1>5, <3>1, <3>5, <4>3
      <4> QED
        BY <1>4, <4>1, <4>2, <4>3 DEF Tends, Picture!Referenced
    <3> QED
      BY <3>3, <3>4, <3>5
  <2> QED
    BY <1>3, <2>1, <2>2, <2>3 DEF TidyInv
<1> QED
  BY <1>4, <1>6, <1>8, <1>9, <1>10

\* Removing the file before leaves the others, and nothing to tend.
LEMMA Removed ==
    ASSUME PictureInv, NEW w \in Writers, Picture!RemovePrevious(w)
    PROVE  JobInv' /\ PathInv' /\ PrintLockInv' /\ Picture!FetchedOnce' /\ TidyInv'
<1> USE DEF PictureInv
<1>1. /\ writer[w].at = "remove" /\ files' = files \ {writer[w].previous}
      /\ row' = row /\ tangled' = tangled
  BY DEF Picture!RemovePrevious, Picture!On, Picture!Kept, Picture!rest
<1>2. JobInv' /\ writer'[w].at = "rest" /\ \A v \in Writers \ {w} : writer'[v] = writer[v]
  BY Finished DEF Picture!RemovePrevious
<1>3. PathInv' /\ PrintLockInv' /\ Picture!FetchedOnce'
  BY <1>1, <1>2 DEF PathInv, PrintLockInv, Picture!FetchedOnce, Picture!Holds, Picture!On
<1>4. TidyInv'
  <2> SUFFICES ASSUME ~tangled
               PROVE  TidyInv'
    BY <1>1 DEF TidyInv
  <2>1. \A v, u \in Writers : v # u /\ writer'[v].at # "rest" /\ writer'[u].at # "rest" =>
           writer'[v].card # writer'[u].card
    BY <1>2 DEF TidyInv
  <2>2. \A v \in Writers : writer'[v].at \in {"fetch", "write", "rename", "sweep", "remember"} =>
           writer'[v].previous = row'[writer'[v].card].path
    BY <1>1, <1>2 DEF TidyInv
  <2>3. ASSUME NEW path \in files'
        PROVE  Picture!Referenced(path)' \/ \E v \in Writers : Tends(v, path)'
    <3>1. Picture!Referenced(path) \/ \E v \in Writers : Tends(v, path)
      BY <1>1 DEF TidyInv
    <3>2. ~Tends(w, path)
      BY <1>1 DEF Tends
    <3> QED
      BY <1>1, <1>2, <3>1, <3>2 DEF Tends, Picture!Referenced
  <2> QED
    BY <2>1, <2>2, <2>3 DEF TidyInv
<1> QED
  BY <1>2, <1>3, <1>4

\* A subject that changes touches no request, no row and no file.
LEMMA Edited ==
    ASSUME PictureInv, NEW c \in Cards, NEW print \in Prints \cup {""}, Picture!Edit(c, print)
    PROVE  JobInv' /\ PathInv' /\ PrintLockInv' /\ Picture!FetchedOnce' /\ TidyInv'
<1>1. writer' = writer /\ row' = row /\ files' = files /\ tangled' = tangled
  BY DEF Picture!Edit
<1> QED
  BY <1>1 DEF PictureInv, JobInv, PathInv, PrintLockInv, Picture!FetchedOnce, TidyInv, Tends,
              Picture!Holds, Picture!Referenced

\* The tables and files of the pictures keep their types.
LEMMA PictureTyped ==
    ASSUME PictureInv, Picture!Next, JobInv'
    PROVE  Picture!TypeOK'
<1> USE DEF PictureInv
<1>p. Picture!Paths = Prints \cup Cards
  BY RowTyped
<1>j. \A w \in Writers : /\ writer'[w].card \in Cards \cup {""}
                         /\ writer'[w].path \in Picture!Paths \cup {""}
  BY <1>p DEF JobInv, PictureJob
<1> SUFFICES /\ subject' \in [Cards -> Prints \cup {Picture!Grammar}]
             /\ configured' \in BOOLEAN /\ missed' \subseteq Prints
             /\ row' \in [Cards -> [print : Prints \cup {""}, path : Picture!Paths \cup {""}]]
             /\ files' \subseteq Picture!Paths /\ temp' \subseteq Writers
             /\ edits' \in 0..Edits /\ mishaps' \in 0..Mishaps
  BY <1>j DEF Picture!TypeOK, Picture!Paths, Picture!OwnFile, Picture!Grammar
<1>k. edits \in 0..Edits /\ mishaps \in 0..Mishaps /\ Edits \in Nat /\ Mishaps \in Nat
  BY PictureAssumption DEF Picture!TypeOK
<1>b. /\ subject \in [Cards -> Prints \cup {Picture!Grammar}]
      /\ configured \in BOOLEAN /\ missed \subseteq Prints
      /\ row \in [Cards -> [print : Prints \cup {""}, path : Picture!Paths \cup {""}]]
      /\ files \subseteq Picture!Paths /\ temp \subseteq Writers
  BY DEF Picture!TypeOK
<1>r. \A w \in Writers : writer[w].at # "rest" =>
         /\ writer[w].card \in Cards /\ writer[w].print \in Prints
         /\ writer[w].path \in Picture!Paths \cup {""}
  BY <1>p DEF JobInv, PictureJob
<1>1. ASSUME NEW w \in Writers, NEW c \in Cards, NEW b \in BOOLEAN, Picture!Ask(w, c, b)
      PROVE  UNCHANGED <<subject, configured, missed, row, files, temp, edits, mishaps>>
  BY <1>1 DEF Picture!Ask, Picture!store, Picture!searches
<1>2. ASSUME NEW w \in Writers,
             Picture!BeginLocked(w) \/ Picture!Look(w) \/ Picture!CheckPrevious(w)
      PROVE  UNCHANGED <<subject, configured, missed, row, files, temp, edits, mishaps>>
  BY <1>2 DEF Picture!BeginLocked, Picture!Look, Picture!CheckPrevious, Picture!store,
              Picture!searches, Picture!rest
<1>3. ASSUME NEW w \in Writers, Picture!Fetch(w)
      PROVE  /\ UNCHANGED <<subject, configured, row, files, temp, edits>>
             /\ missed' \subseteq Prints /\ mishaps' \in 0..Mishaps
  <2>1. writer[w].print \in Prints
    BY <1>3, <1>r DEF Picture!Fetch, Picture!On
  <2>2. missed' \subseteq Prints
    BY <1>3, <1>b, <2>1 DEF Picture!Fetch, Picture!RecordMiss
  <2>3. mishaps' \in 0..Mishaps
    BY <1>3, <1>k DEF Picture!Fetch
  <2> QED
    BY <1>3, <2>2, <2>3 DEF Picture!Fetch
<1>4. ASSUME NEW w \in Writers, Picture!WriteTemp(w) \/ Picture!Sweep(w)
      PROVE  /\ UNCHANGED <<subject, configured, missed, row, files, edits, mishaps>>
             /\ temp' \subseteq Writers
  BY <1>4, <1>b DEF Picture!WriteTemp, Picture!Sweep, Picture!store, Picture!searches, Picture!rest
<1>5. ASSUME NEW w \in Writers, Picture!Rename(w)
      PROVE  /\ UNCHANGED <<subject, configured, missed, row, edits, mishaps>>
             /\ files' \subseteq Picture!Paths /\ temp' \subseteq Writers
  BY <1>5, <1>b, <1>p, <1>r DEF Picture!Rename, Picture!On, Picture!SharedPath, Picture!searches,
              Picture!rest
<1>6. ASSUME NEW w \in Writers, Picture!Remember(w)
      PROVE  /\ UNCHANGED <<subject, configured, missed, files, temp, edits, mishaps>>
             /\ row' \in [Cards -> [print : Prints \cup {""}, path : Picture!Paths \cup {""}]]
  <2>1. writer[w].at = "remember"
    BY <1>6 DEF Picture!Remember, Picture!On
  <2>2. [print |-> writer[w].print, path |-> writer[w].path]
           \in [print : Prints \cup {""}, path : Picture!Paths \cup {""}]
    BY <1>r, <2>1
  <2>3. row' = [row EXCEPT ![writer[w].card] = [print |-> writer[w].print, path |-> writer[w].path]]
    BY <1>6 DEF Picture!Remember
  <2>4. row' \in [Cards -> [print : Prints \cup {""}, path : Picture!Paths \cup {""}]]
    BY <1>b, <2>2, <2>3
  <2> QED
    BY <1>6, <2>4 DEF Picture!Remember, Picture!searches, Picture!rest
<1>7. ASSUME NEW w \in Writers, Picture!RemovePrevious(w)
      PROVE  /\ UNCHANGED <<subject, configured, missed, row, temp, edits, mishaps>>
             /\ files' \subseteq Picture!Paths
  BY <1>7, <1>b DEF Picture!RemovePrevious, Picture!Kept, Picture!searches, Picture!rest
<1>8. ASSUME NEW w \in Writers, Picture!Crash(w)
      PROVE  /\ UNCHANGED <<subject, configured, missed, row, files, edits>>
             /\ temp' \subseteq Writers /\ mishaps' \in 0..Mishaps
  <2>1. mishaps' \in 0..Mishaps
    BY <1>8, <1>k DEF Picture!Crash
  <2> QED
    BY <1>8, <1>b, <2>1 DEF Picture!Crash, Picture!store, Picture!searches
<1>9. ASSUME NEW c \in Cards, NEW print \in Prints \cup {Picture!Grammar}, Picture!Edit(c, print)
      PROVE  /\ UNCHANGED <<configured, missed, row, files, temp, mishaps>>
             /\ subject' \in [Cards -> Prints \cup {Picture!Grammar}] /\ edits' \in 0..Edits
  <2>1. edits' \in 0..Edits
    BY <1>9, <1>k DEF Picture!Edit
  <2>2. subject' \in [Cards -> Prints \cup {Picture!Grammar}]
    BY <1>9, <1>b DEF Picture!Edit
  <2> QED
    BY <1>9, <2>1, <2>2 DEF Picture!Edit, Picture!searches
<1>s. \/ \E w \in Writers : \/ \E c \in Cards, b \in BOOLEAN : Picture!Ask(w, c, b)
                            \/ Picture!BeginLocked(w) \/ Picture!Look(w) \/ Picture!CheckPrevious(w)
                            \/ Picture!Fetch(w) \/ Picture!WriteTemp(w) \/ Picture!Sweep(w)
                            \/ Picture!Rename(w) \/ Picture!Remember(w)
                            \/ Picture!RemovePrevious(w) \/ Picture!Crash(w)
      \/ \E c \in Cards, print \in Prints \cup {Picture!Grammar} : Picture!Edit(c, print)
  BY DEF Picture!Next, Picture!Step
<1> QED
  BY <1>b, <1>k, <1>1, <1>2, <1>3, <1>4, <1>5, <1>6, <1>7, <1>8, <1>9, <1>s

\* Every step of the pictures keeps their invariant.
LEMMA PictureStep ==
    ASSUME PictureInv, Picture!Next
    PROVE  PictureInv'
<1>1. JobInv' /\ PathInv' /\ PrintLockInv' /\ Picture!FetchedOnce' /\ TidyInv'
  <2>1. ASSUME NEW w \in Writers, Picture!Step(w)
        PROVE  JobInv' /\ PathInv' /\ PrintLockInv' /\ Picture!FetchedOnce' /\ TidyInv'
    BY <2>1, LockedSteps, Renamed, Remembered, Removed DEF Picture!Step
  <2> QED
    BY <2>1, Asked, Died, Edited DEF Picture!Next, Picture!Grammar
<1> QED
  BY <1>1, PictureTyped DEF PictureInv

\* It holds at the start, where a row may name the file of an older build.
LEMMA PictureStart ==
    ASSUME Picture!Init
    PROVE  PictureInv
<1>0. PICK old \in SUBSET Cards :
      /\ row = [c \in Cards |-> IF c \in old
                   THEN [print |-> subject[c], path |-> Picture!OwnFile(c)] ELSE Picture!NoRow]
      /\ files = {Picture!OwnFile(c) : c \in old}
  BY DEF Picture!Init
<1>1. /\ subject \in [Cards -> Prints] /\ configured \in BOOLEAN /\ missed = {} /\ temp = {}
      /\ writer = [w \in Writers |-> Picture!AtRest]
      /\ edits = 0 /\ mishaps = 0 /\ tangled = FALSE
  BY DEF Picture!Init
<1>2. files = old
  BY <1>0 DEF Picture!OwnFile
<1> DEFINE own(c) == [print |-> subject[c], path |-> c]
           Rows == [print : Prints \cup {""}, path : Prints \cup Cards \cup {""}]
<1>a. \A c \in Cards : own(c) \in Rows /\ own(c).print = subject[c] /\ own(c).path = c
  BY <1>1
<1>b. Picture!NoRow \in Rows /\ Picture!NoRow.print = "" /\ Picture!NoRow.path = ""
  BY DEF Picture!NoRow
<1>c. row = [c \in Cards |-> IF c \in old THEN own(c) ELSE Picture!NoRow]
  BY <1>0 DEF Picture!OwnFile
<1> HIDE DEF own, Rows
<1>3. /\ row \in [Cards -> Rows]
      /\ \A c \in Cards : /\ c \in old => row[c].print = subject[c] /\ row[c].path = c
                          /\ c \notin old => row[c].print = "" /\ row[c].path = ""
  BY <1>a, <1>b, <1>c
<1>4. Picture!AtRest \in PictureJob /\ Picture!AtRest.at = "rest"
      /\ Picture!AtRest.card = "" /\ Picture!AtRest.path = ""
  BY DEF Picture!AtRest, PictureJob, Sites
<1>5. \A w \in Writers : writer[w] = Picture!AtRest
  BY <1>1
<1>6. JobInv
  BY <1>1, <1>4 DEF JobInv
<1>7. {Picture!OwnFile(c) : c \in Cards} = Cards /\ Picture!Paths = Prints \cup Cards
  BY DEF Picture!OwnFile, Picture!Paths
<1>8. Picture!TypeOK
  <2>1. row \in [Cards -> [print : Prints \cup {""}, path : Picture!Paths \cup {""}]]
    BY <1>3, <1>7 DEF Rows
  <2>2. Edits \in Nat /\ Mishaps \in Nat
    BY PictureAssumption
  <2>3. edits \in 0..Edits /\ mishaps \in 0..Mishaps
    BY <1>1, <2>2
  <2>4. files \subseteq Picture!Paths
    BY <1>2, <1>7
  <2>5. \A w \in Writers : writer[w].card \in Cards \cup {""}
                          /\ writer[w].path \in Picture!Paths \cup {""}
    BY <1>4, <1>5
  <2>6. subject \in [Cards -> Prints \cup {Picture!Grammar}]
    BY <1>1
  <2> QED
    BY <1>1, <1>2, <1>7, <2>1, <2>3, <2>4, <2>5, <2>6 DEF Picture!TypeOK
<1>9. PathInv
  BY <1>3, <1>4, <1>5 DEF PathInv
<1>10. PrintLockInv /\ Picture!FetchedOnce
  BY <1>4, <1>5 DEF PrintLockInv, Picture!FetchedOnce, Picture!Holds
<1>11. TidyInv
  BY <1>2, <1>3, <1>4, <1>5 DEF TidyInv, Picture!Referenced
<1> QED
  BY <1>6, <1>8, <1>9, <1>10, <1>11 DEF PictureInv

-----------------------------------------------------------------------------
(***************************************************************************)
(* The books of the reader                                                 *)
(***************************************************************************)

Stages == {"rest", "step", "batch", "lock", "speak", "write", "row", "name"}
\* From the first look to the name, a spelling is in somebody's hands.
Busy == {"lock", "speak", "write", "row", "name"}
BookRows == {Book!SentenceRow(s) : s \in Book!Sentences} \cup {Book!WordRow(f) : f \in Book!Forms}
VoicingJob ==
    [at : Stages, kind : {"", "sentence", "word"}, batch : SUBSET Spellings,
     spelling : Spellings \cup {0}, row : BookRows \cup {<<>>}, marked : BOOLEAN]
PruneJob ==
    [at : {"off", "list", "row", "file"}, keep : SUBSET Spellings, listed : SUBSET Spellings,
     spelling : Spellings \cup {0}]

\* Whoever voices has a voice for the spelling, and a request the row it was asked for.
VoicingInv ==
    /\ voicing \in [Book!Actors -> VoicingJob]
    /\ \A a \in Book!Actors : voicing[a].at \in Busy =>
          /\ voicing[a].spelling \in Spellings \cap VoicedSpellings
          /\ a # "host" => /\ voicing[a].row \in BookRows
                           /\ Book!SpellingOf(voicing[a].row) = voicing[a].spelling

\* A row that is named has a text, and a voice for it.
NamedInv ==
    \A r \in named : r \in BookRows /\ Book!SpellingOf(r) \in Spellings \cap VoicedSpellings

\* No two actors hold the lock of one spelling.
SpellingLockInv ==
    \A a, b \in Book!Actors : a # b /\ Book!Holds(a) /\ Book!Holds(b) =>
        voicing[a].spelling # voicing[b].spelling

\* While no prune ran beside a voicing: a clip is complete when its row is named,
\* and a prune keeps what the rows named when it began, nobody voicing meanwhile.
CalmInv ==
    ~raced =>
        /\ \A a \in Book!Actors : voicing[a].at = "row" => voicing[a].spelling \in clipFile
        /\ \A a \in Book!Actors : voicing[a].at = "name" => Book!Live(voicing[a].spelling)
        /\ prune.at # "off" => \A a \in Book!Actors : voicing[a].at \notin Busy
        /\ prune.at # "off" => \A r \in named : Book!SpellingOf(r) \in prune.keep
        /\ prune.at \in {"row", "file"} => prune.listed \cap prune.keep = {}
        /\ prune.at = "file" => prune.spelling \notin prune.keep
        /\ \A r \in named : Book!Live(Book!SpellingOf(r))

\* The inductive invariant of the books.
BookInv ==
    /\ Book!TypeOK /\ VoicingInv /\ NamedInv /\ prune \in PruneJob
    /\ SpellingLockInv /\ Book!SpokenOnce /\ CalmInv

\* What a batch or a request would mark has the spelling it is voiced for.
LEMMA RowSpelling ==
    ASSUME NEW kind, NEW spelling, NEW r \in Book!RowsOf(kind, spelling)
    PROVE  r \in BookRows /\ Book!SpellingOf(r) = spelling
<1>1. CASE kind = "sentence"
  <2>1. PICK s \in Book!Sentences : text[s] = spelling /\ r = <<"sentence", s[1], s[2]>>
    BY <1>1 DEF Book!RowsOf, Book!SentenceRow
  <2>2. <<s[1], s[2]>> = s
    BY DEF Book!Sentences
  <2>3. r[1] = "sentence" /\ r[2] = s[1] /\ r[3] = s[2]
    BY <2>1
  <2> QED
    BY <2>1, <2>2, <2>3 DEF BookRows, Book!SentenceRow, Book!SpellingOf
<1>2. CASE kind # "sentence"
  <2>1. PICK f \in Book!Forms : f = spelling /\ r = <<"word", f>>
    BY <1>2 DEF Book!RowsOf, Book!WordRow
  <2> QED
    BY <2>1 DEF BookRows, Book!WordRow, Book!SpellingOf
<1> QED
  BY <1>1, <1>2

\* A translation fills texts that are missing and changes none.
LEMMA TextKept ==
    ASSUME Book!TypeOK, Book!Translate \/ text' = text,
           NEW r \in BookRows, Book!SpellingOf(r) # 0
    PROVE  Book!SpellingOf(r)' = Book!SpellingOf(r)
<1>1. CASE text' = text
  BY <1>1 DEF Book!SpellingOf
<1>2. CASE Book!Translate
  <2>1. \A s \in Book!Sentences : text[s] # 0 => text'[s] = text[s]
    BY <1>2 DEF Book!Translate
  <2>2. CASE r[1] = "word"
    BY <2>2 DEF Book!SpellingOf
  <2>3. CASE r[1] # "word"
    <3>1. PICK s \in Book!Sentences : r = <<"sentence", s[1], s[2]>>
      BY <2>3 DEF BookRows, Book!SentenceRow, Book!WordRow
    <3>2. <<s[1], s[2]>> = s
      BY DEF Book!Sentences
    <3>3. <<r[2], r[3]>> = s
      BY <3>1, <3>2
    <3> QED
      BY <2>1, <2>3, <3>3 DEF Book!SpellingOf
  <2> QED
    BY <2>2, <2>3
<1> QED
  BY <1>1, <1>2

\* The invariant where a step moves one actor and leaves clips, names and prune.
LEMMA MovedVoicing ==
    ASSUME BookInv, NEW a \in Book!Actors, NEW j \in VoicingJob,
           voicing' = [voicing EXCEPT ![a] = j],
           UNCHANGED <<named, clip, clipFile, prune>>,
           Book!Translate \/ text' = text,
           j.at \in Busy =>
              /\ j.spelling \in Spellings \cap VoicedSpellings
              /\ a # "host" => j.row \in BookRows /\ Book!SpellingOf(j.row) = j.spelling,
           j.at \in {"speak", "write", "row"} => \A b \in Book!Actors \ {a} :
              Book!Holds(b) => voicing[b].spelling # j.spelling,
           j.at \in {"speak", "write"} => ~Book!Live(j.spelling),
           ~raced' => ~raced,
           ~raced' /\ j.at = "row" => j.spelling \in clipFile,
           ~raced' /\ j.at = "name" => Book!Live(j.spelling),
           ~raced' /\ j.at \in Busy => prune.at = "off"
    PROVE  VoicingInv' /\ NamedInv' /\ prune' \in PruneJob /\ SpellingLockInv'
           /\ Book!SpokenOnce' /\ CalmInv'
<1> USE DEF BookInv
<1>1. voicing'[a] = j /\ voicing' \in [Book!Actors -> VoicingJob]
      /\ \A b \in Book!Actors \ {a} : voicing'[b] = voicing[b]
  BY DEF VoicingInv
<1>s. Spellings \subseteq Nat \ {0}
  BY BookAssumption
<1>t. \A r \in BookRows : Book!SpellingOf(r) \in Spellings =>
         Book!SpellingOf(r)' = Book!SpellingOf(r)
  BY <1>s, TextKept
<1>l. \A s : Book!Live(s)' <=> Book!Live(s)
  BY DEF Book!Live
<1>2. VoicingInv'
  <2> SUFFICES ASSUME NEW b \in Book!Actors, voicing'[b].at \in Busy
               PROVE  /\ voicing'[b].spelling \in Spellings \cap VoicedSpellings
                      /\ b # "host" => /\ voicing'[b].row \in BookRows
                                       /\ Book!SpellingOf(voicing[b].row)' = voicing'[b].spelling
    BY <1>1 DEF VoicingInv, Book!SpellingOf
  <2>1. CASE b = a
    BY <1>1, <1>t, <2>1
  <2>2. CASE b # a
    BY <1>1, <1>t, <2>2 DEF VoicingInv
  <2> QED
    BY <2>1, <2>2
<1>3. NamedInv'
  BY <1>t DEF NamedInv
<1>4. SpellingLockInv'
  BY <1>1 DEF SpellingLockInv, Book!Holds
<1>5. Book!SpokenOnce'
  BY <1>1, <1>l DEF Book!SpokenOnce
<1>6. CalmInv'
  <2> SUFFICES ASSUME ~raced'
               PROVE  CalmInv'
    BY DEF CalmInv
  <2>1. \A b \in Book!Actors : voicing'[b].at = "row" => voicing'[b].spelling \in clipFile'
    BY <1>1 DEF CalmInv
  <2>2. \A b \in Book!Actors : voicing'[b].at = "name" =>
           voicing'[b].spelling \in clip' /\ voicing'[b].spelling \in clipFile'
    BY <1>1 DEF CalmInv, Book!Live
  <2>3. prune'.at # "off" => \A b \in Book!Actors : voicing'[b].at \notin Busy
    BY <1>1 DEF CalmInv
  <2>4. \A r \in named' : /\ Book!SpellingOf(r)' = Book!SpellingOf(r)
                          /\ Book!Live(Book!SpellingOf(r))
    BY <1>t DEF CalmInv, NamedInv
  <2>5. \A r \in named' : Book!Live(Book!SpellingOf(r))'
    BY <1>l, <2>4 DEF Book!Live
  <2>6. prune'.at # "off" => \A r \in named' : Book!SpellingOf(r)' \in prune'.keep
    BY <2>4 DEF CalmInv
  <2> QED
    BY <2>1, <2>2, <2>3, <2>5, <2>6 DEF CalmInv, Book!Live
<1> QED
  BY <1>2, <1>3, <1>4, <1>5, <1>6

\* A job of the type stays one where it moves to another stage.
LEMMA StageOf ==
    ASSUME NEW j \in VoicingJob, NEW stage \in Stages
    PROVE  /\ [j EXCEPT !.at = stage] \in VoicingJob
           /\ [j EXCEPT !.at = stage].at = stage
           /\ [j EXCEPT !.at = stage].spelling = j.spelling
           /\ [j EXCEPT !.at = stage].row = j.row
BY DEF VoicingJob

\* An actor with nothing in its hands.
LEMMA IdleJob ==
    Book!Idle \in VoicingJob /\ Book!Idle.at = "rest"
BY DEF Book!Idle, VoicingJob, Stages

\* A batch is of spellings.
LEMMA BatchTyped ==
    ASSUME NEW kind
    PROVE  Book!Batch(kind) \in SUBSET Spellings
BY DEF Book!Batch, Book!UpTo, Book!Unvoiced

\* The host's steps that put nothing in its hands.
LEMMA HostGoes ==
    ASSUME BookInv,
           \/ Book!Wake \/ Book!Extract \/ Book!Translate \/ Book!Gloss
           \/ Book!SelectSentences \/ Book!EndOfBatch \/ Book!Kill
    PROVE  VoicingInv' /\ NamedInv' /\ prune' \in PruneJob /\ SpellingLockInv'
           /\ Book!SpokenOnce' /\ CalmInv'
<1> USE DEF BookInv
<1>h. "host" \in Book!Actors /\ voicing["host"] \in VoicingJob
  BY DEF Book!Actors, VoicingInv
<1>u. /\ UNCHANGED <<named, clip, clipFile, prune, raced>>
      /\ Book!Translate \/ text' = text
  BY DEF Book!Wake, Book!Extract, Book!Translate, Book!Gloss, Book!SelectSentences,
         Book!EndOfBatch, Book!Kill, Book!books
<1> SUFFICES \E j \in VoicingJob : j.at \notin Busy /\ voicing' = [voicing EXCEPT !["host"] = j]
  BY <1>h, <1>u, MovedVoicing DEF Busy
<1>1. CASE \E stage \in {"rest", "step"} : Book!To("host", stage)
  <2>1. PICK stage \in {"rest", "step"} : Book!To("host", stage)
    BY <1>1
  <2> DEFINE j == [voicing["host"] EXCEPT !.at = stage]
  <2>2. j \in VoicingJob /\ j.at = stage
    BY <1>h DEF VoicingJob, Stages
  <2>3. voicing' = [voicing EXCEPT !["host"] = j]
    BY <2>1 DEF Book!To
  <2> QED
    BY <2>2, <2>3 DEF Busy
<1>2. CASE Book!SelectSentences
  <2> DEFINE j == [voicing["host"] EXCEPT !.at = "batch", !.kind = "sentence",
                                          !.batch = Book!Batch("sentence")]
  <2>1. j \in VoicingJob /\ j.at = "batch"
    BY <1>h, BatchTyped DEF VoicingJob, Stages
  <2>2. voicing' = [voicing EXCEPT !["host"] = j]
    BY <1>2 DEF Book!SelectSentences
  <2> QED
    BY <2>1, <2>2 DEF Busy
<1>3. CASE Book!EndOfBatch
  <2> DEFINE ofWords == [Book!Idle EXCEPT !.at = "batch", !.kind = "word",
                                        !.batch = Book!Batch("word")]
  <2>1. ofWords \in VoicingJob /\ ofWords.at = "batch"
    BY IdleJob, BatchTyped DEF VoicingJob, Stages
  <2> HIDE DEF ofWords
  <2>2. CASE voicing' = [voicing EXCEPT !["host"] = ofWords]
    BY <2>1, <2>2 DEF Busy
  <2>3. CASE voicing' = [voicing EXCEPT !["host"] = Book!Idle]
    BY <2>3, IdleJob DEF Busy
  <2>4. \/ voicing' = [voicing EXCEPT !["host"] = ofWords]
        \/ voicing' = [voicing EXCEPT !["host"] = Book!Idle]
    BY <1>3 DEF Book!EndOfBatch, ofWords
  <2> QED
    BY <2>2, <2>3, <2>4
<1>4. CASE Book!Kill
  BY <1>4, IdleJob DEF Book!Kill, Busy
<1> QED
  BY <1>1, <1>2, <1>3, <1>4 DEF Book!Wake, Book!Extract, Book!Translate, Book!Gloss

\* The next spelling of a batch is one of it.
LEMMA FirstOf ==
    ASSUME NEW T, T \subseteq Nat, T # {}
    PROVE  Book!First(T) \in T
BY LeastExists DEF Book!First

\* Taking up a spelling beside a prune is the race that is named.
LEMMA TakenUp ==
    ASSUME BookInv, Book!NextOfBatch
    PROVE  VoicingInv' /\ NamedInv' /\ prune' \in PruneJob /\ SpellingLockInv'
           /\ Book!SpokenOnce' /\ CalmInv'
<1> USE DEF BookInv
<1> DEFINE s == Book!First(voicing["host"].batch)
           stage == IF s \in VoicedSpellings THEN Book!HitOrLock(s) ELSE "batch"
           j == [voicing["host"] EXCEPT !.batch = @ \ {s}, !.spelling = s, !.at = stage]
<1>1. "host" \in Book!Actors /\ voicing["host"] \in VoicingJob
  BY DEF Book!Actors, VoicingInv
<1>2. voicing["host"].batch \in SUBSET Spellings /\ voicing["host"].batch # {}
  BY <1>1 DEF Book!NextOfBatch, VoicingJob
<1>3. Spellings \subseteq Nat
  BY BookAssumption
<1>4. s \in Spellings
  BY <1>2, <1>3, FirstOf
<1>5. /\ UNCHANGED <<named, clip, clipFile, prune, text>>
      /\ voicing' = [voicing EXCEPT !["host"] = j]
      /\ raced' = (raced \/ (s \in VoicedSpellings /\ prune.at # "off"))
  BY DEF Book!NextOfBatch, Book!books
<1>6. stage \in {"name", "lock", "batch"} /\ (stage \in Busy => s \in VoicedSpellings)
      /\ (stage = "name" => Book!Live(s))
  BY DEF Book!HitOrLock, Busy
<1> HIDE DEF s, stage
<1>7. j \in VoicingJob /\ j.at = stage /\ j.spelling = s
  BY <1>1, <1>2, <1>4, <1>6 DEF VoicingJob, Stages
<1> HIDE DEF j
<1>8. ~raced' => ~raced /\ (stage \in Busy => prune.at = "off")
  BY <1>5, <1>6
<1> QED
  BY <1>1, <1>4, <1>5, <1>6, <1>7, <1>8, MovedVoicing

\* A reader's request for a row: of the row's spelling.
LEMMA AskedFor ==
    ASSUME BookInv, NEW r \in Requests, NEW kind \in {"sentence", "word"},
           NEW spelling \in Spellings, Book!Ask(r, kind, spelling)
    PROVE  VoicingInv' /\ NamedInv' /\ prune' \in PruneJob /\ SpellingLockInv'
           /\ Book!SpokenOnce' /\ CalmInv'
<1> USE DEF BookInv
<1>1. PICK at \in Book!RowsOf(kind, spelling) :
         voicing' = [voicing EXCEPT ![r] = [Book!Idle EXCEPT !.at = Book!HitOrLock(spelling),
                        !.kind = kind, !.spelling = spelling, !.row = at]]
  BY DEF Book!Ask
<1> DEFINE stage == Book!HitOrLock(spelling)
           j == [Book!Idle EXCEPT !.at = stage, !.kind = kind, !.spelling = spelling, !.row = at]
<1>2. stage \in {"name", "lock"} /\ (stage = "name" => Book!Live(spelling))
  BY DEF Book!HitOrLock
<1>3. at \in BookRows /\ Book!SpellingOf(at) = spelling
  BY RowSpelling
<1>4. voicing' = [voicing EXCEPT ![r] = j]
  BY <1>1
<1> HIDE DEF stage
<1>5. j \in VoicingJob /\ j.at = stage /\ j.spelling = spelling /\ j.row = at
  BY <1>2, <1>3, IdleJob DEF VoicingJob, Stages
<1> HIDE DEF j
<1>6. /\ UNCHANGED <<named, clip, clipFile, prune, text>>
      /\ raced' = (raced \/ prune.at # "off") /\ spelling \in VoicedSpellings
  BY DEF Book!Ask, Book!books
<1>7. r \in Book!Actors
  BY DEF Book!Actors
<1> QED
  BY <1>2, <1>3, <1>4, <1>5, <1>6, <1>7, MovedVoicing

\* The second look, under the lock, and the speaker.
LEMMA Spoke ==
    ASSUME BookInv, NEW a \in Book!Actors, Book!LookAgain(a) \/ Book!Speak(a)
    PROVE  VoicingInv' /\ NamedInv' /\ prune' \in PruneJob /\ SpellingLockInv'
           /\ Book!SpokenOnce' /\ CalmInv'
<1> USE DEF BookInv
<1>u. UNCHANGED <<named, clip, clipFile, prune, raced, text>>
  BY DEF Book!LookAgain, Book!Speak, Book!books
<1>v. voicing[a] \in VoicingJob /\ voicing[a].at \in {"lock", "speak"}
  BY DEF VoicingInv, Book!LookAgain, Book!Speak, Book!On
<1>k. /\ voicing[a].spelling \in Spellings \cap VoicedSpellings
      /\ a # "host" => /\ voicing[a].row \in BookRows
                       /\ Book!SpellingOf(voicing[a].row) = voicing[a].spelling
      /\ ~raced => prune.at = "off"
  BY <1>v DEF VoicingInv, CalmInv, Busy
<1>1. CASE Book!LookAgain(a)
  <2> DEFINE stage == IF Book!Afresh(voicing[a].spelling) THEN "speak" ELSE "name"
             j == [voicing[a] EXCEPT !.at = stage]
  <2>1. voicing' = [voicing EXCEPT ![a] = j]
    BY <1>1 DEF Book!LookAgain, Book!To
  <2>2. /\ stage \in {"speak", "name"}
        /\ stage = "speak" => ~Book!Live(voicing[a].spelling)
        /\ stage = "name" => Book!Live(voicing[a].spelling)
    BY DEF Book!Afresh
  <2> HIDE DEF stage
  <2>3. /\ j \in VoicingJob /\ j.at = stage /\ j.spelling = voicing[a].spelling
        /\ j.row = voicing[a].row
    BY <1>v, <2>2 DEF VoicingJob, Stages
  <2> HIDE DEF j
  <2>4. \A b \in Book!Actors \ {a} : Book!Holds(b) => voicing[b].spelling # voicing[a].spelling
    BY <1>1 DEF Book!LookAgain, Book!LockFree
  <2> QED
    BY <1>u, <1>k, <2>1, <2>2, <2>3, <2>4, MovedVoicing
<1>2. CASE Book!Speak(a) /\ Book!To(a, "write")
  <2> DEFINE j == [voicing[a] EXCEPT !.at = "write"]
  <2>1. voicing' = [voicing EXCEPT ![a] = j]
    BY <1>2 DEF Book!To
  <2>2. /\ j \in VoicingJob /\ j.at = "write" /\ j.spelling = voicing[a].spelling
        /\ j.row = voicing[a].row
    BY <1>v DEF VoicingJob, Stages
  <2> HIDE DEF j
  <2>3. voicing[a].at = "speak" /\ Book!Holds(a)
    BY <1>2 DEF Book!Speak, Book!On, Book!Holds
  <2>4. \A b \in Book!Actors \ {a} : Book!Holds(b) => voicing[b].spelling # voicing[a].spelling
    BY <2>3 DEF SpellingLockInv
  <2>5. ~Book!Live(voicing[a].spelling)
    BY <2>3 DEF Book!SpokenOnce
  <2> QED
    BY <1>u, <1>k, <2>1, <2>2, <2>4, <2>5, MovedVoicing
<1>3. CASE voicing' = [voicing EXCEPT ![a] = Book!Idle]
  BY <1>u, <1>3, IdleJob, MovedVoicing DEF Busy
<1> QED
  BY <1>1, <1>2, <1>3 DEF Book!Speak

\* A file that is written is of the spelling whose lock its writer holds.
LEMMA Written ==
    ASSUME BookInv, NEW a \in Book!Actors, Book!WriteFile(a) \/ Book!StoreClip(a)
    PROVE  VoicingInv' /\ NamedInv' /\ prune' \in PruneJob /\ SpellingLockInv'
           /\ Book!SpokenOnce' /\ CalmInv'
<1> USE DEF BookInv
<1> DEFINE s == voicing[a].spelling
<1>u. /\ UNCHANGED <<named, prune, raced, text>>
      /\ clip \subseteq clip' /\ clip' \subseteq clip \cup {s}
      /\ clipFile \subseteq clipFile' /\ clipFile' \subseteq clipFile \cup {s}
  BY DEF Book!WriteFile, Book!StoreClip, Book!books
<1>v. voicing[a] \in VoicingJob /\ voicing[a].at \in {"write", "row"} /\ Book!Holds(a)
  BY DEF VoicingInv, Book!WriteFile, Book!StoreClip, Book!On, Book!Holds
<1>k. s \in Spellings \cap VoicedSpellings /\ (~raced => prune.at = "off")
  BY <1>v DEF VoicingInv, CalmInv, Busy
<1>1. PICK stage \in {"row", "name"} :
        /\ Book!To(a, stage)
        /\ stage = "row" => s \in clipFile'
        /\ stage = "name" => voicing[a].at = "row" /\ s \in clip'
  BY DEF Book!WriteFile, Book!StoreClip, Book!On
<1> DEFINE j == [voicing[a] EXCEPT !.at = stage]
<1>2. voicing' = [voicing EXCEPT ![a] = j]
  BY <1>1 DEF Book!To
<1>3. /\ j \in VoicingJob /\ j.at = stage /\ j.spelling = s /\ j.row = voicing[a].row
  BY <1>v DEF VoicingJob, Stages
<1> HIDE DEF j
<1>4. /\ voicing'[a] = j /\ voicing' \in [Book!Actors -> VoicingJob]
      /\ \A b \in Book!Actors \ {a} : voicing'[b] = voicing[b]
  BY <1>2, <1>3 DEF VoicingInv
<1>5. \A r : Book!SpellingOf(r)' = Book!SpellingOf(r)
  BY <1>u DEF Book!SpellingOf
<1>6. VoicingInv'
  <2> SUFFICES ASSUME NEW b \in Book!Actors, voicing'[b].at \in Busy
               PROVE  /\ voicing'[b].spelling \in Spellings \cap VoicedSpellings
                      /\ b # "host" => /\ voicing'[b].row \in BookRows
                                       /\ Book!SpellingOf(voicing[b].row)' = voicing'[b].spelling
    BY <1>4 DEF VoicingInv, Book!SpellingOf
  <2>1. voicing[b].at \in Busy /\ voicing'[b].spelling = voicing[b].spelling
        /\ voicing'[b].row = voicing[b].row
    BY <1>v, <1>3, <1>4 DEF Busy
  <2>2. voicing[b].spelling \in Spellings \cap VoicedSpellings
        /\ (b # "host" => /\ voicing[b].row \in BookRows
                          /\ Book!SpellingOf(voicing[b].row) = voicing[b].spelling)
    BY <2>1 DEF VoicingInv
  <2>3. Book!SpellingOf(voicing[b].row)' = Book!SpellingOf(voicing'[b].row)
    BY <1>u DEF Book!SpellingOf
  <2> QED
    BY <1>5, <2>1, <2>2, <2>3
<1>7. NamedInv'
  BY <1>u, <1>5 DEF NamedInv
<1>8. \A b \in Book!Actors \ {a} : Book!Holds(b) => voicing[b].spelling # s
  BY <1>v DEF SpellingLockInv
<1>9. SpellingLockInv'
  BY <1>1, <1>3, <1>4, <1>8 DEF SpellingLockInv, Book!Holds
<1>10. Book!SpokenOnce'
  <2> SUFFICES ASSUME NEW b \in Book!Actors, voicing'[b].at \in {"speak", "write"}
               PROVE  ~(voicing'[b].spelling \in clip' /\ voicing'[b].spelling \in clipFile')
    BY DEF Book!SpokenOnce, Book!Live
  <2>1. b # a
    BY <1>1, <1>3, <1>4
  <2>2. voicing'[b] = voicing[b] /\ voicing[b].spelling # s
    BY <1>4, <1>8, <2>1 DEF Book!Holds
  <2> QED
    BY <1>u, <2>2 DEF Book!SpokenOnce, Book!Live
<1>11. CalmInv'
  <2> SUFFICES ASSUME ~raced
               PROVE  CalmInv'
    BY <1>u DEF CalmInv
  <2>1. \A b \in Book!Actors : voicing'[b].at = "row" => voicing'[b].spelling \in clipFile'
    BY <1>u, <1>1, <1>3, <1>4 DEF CalmInv
  <2>2. s \in clipFile \/ stage # "name"
    BY <1>1 DEF CalmInv
  <2>3. \A b \in Book!Actors : voicing'[b].at = "name" =>
           voicing'[b].spelling \in clip' /\ voicing'[b].spelling \in clipFile'
    BY <1>u, <1>1, <1>3, <1>4, <2>2 DEF CalmInv, Book!Live
  <2>4. \A r \in named : /\ Book!SpellingOf(r)' \in clip'
                         /\ Book!SpellingOf(r)' \in clipFile'
    BY <1>u, <1>5 DEF CalmInv, Book!Live
  <2> QED
    BY <1>u, <1>k, <2>1, <2>3, <2>4 DEF CalmInv, Book!Live
<1>12. prune' \in PruneJob
  BY <1>u
<1> QED
  BY <1>6, <1>7, <1>9, <1>10, <1>11, <1>12

\* Whoever names a row has the clip of its spelling, or has lost it to a prune.
LEMMA Named ==
    ASSUME BookInv, NEW a \in Book!Actors, Book!Name(a)
    PROVE  VoicingInv' /\ NamedInv' /\ prune' \in PruneJob /\ SpellingLockInv'
           /\ Book!SpokenOnce' /\ CalmInv'
<1> USE DEF BookInv
<1> DEFINE s == voicing[a].spelling
           marked == voicing[a].marked \/ Book!Marked(a) # {}
           j == IF a = "host" THEN [voicing[a] EXCEPT !.at = "batch", !.marked = marked]
                ELSE Book!Idle
<1>u. UNCHANGED <<prune, raced, text, clip, clipFile>> /\ named' = named \cup Book!Marked(a)
  BY DEF Book!Name, Book!books
<1>v. voicing[a] \in VoicingJob /\ voicing[a].at = "name"
  BY DEF VoicingInv, Book!Name, Book!On
<1>k. /\ s \in Spellings \cap VoicedSpellings
      /\ a # "host" => voicing[a].row \in BookRows /\ Book!SpellingOf(voicing[a].row) = s
      /\ ~raced => prune.at = "off" /\ Book!Live(s)
  BY <1>v DEF VoicingInv, CalmInv, Busy
<1>1. \A r \in Book!Marked(a) : r \in BookRows /\ Book!SpellingOf(r) = s
  BY <1>k, RowSpelling DEF Book!Marked
<1>2. voicing' = [voicing EXCEPT ![a] = j]
  <2>1. CASE a = "host"
    BY <2>1 DEF Book!Name
  <2>2. CASE a # "host"
    BY <2>2 DEF Book!Name
  <2> QED
    BY <2>1, <2>2
<1>3. j \in VoicingJob /\ j.at \in {"batch", "rest"}
  BY <1>v, IdleJob DEF VoicingJob, Stages
<1> HIDE DEF j, marked
<1>4. /\ voicing'[a] = j /\ voicing' \in [Book!Actors -> VoicingJob]
      /\ \A b \in Book!Actors \ {a} : voicing'[b] = voicing[b]
  BY <1>2, <1>3 DEF VoicingInv
<1>5. \A r : Book!SpellingOf(r)' = Book!SpellingOf(r)
  BY <1>u DEF Book!SpellingOf
<1>6. VoicingInv'
  <2> SUFFICES ASSUME NEW b \in Book!Actors, voicing'[b].at \in Busy
               PROVE  /\ voicing'[b].spelling \in Spellings \cap VoicedSpellings
                      /\ b # "host" => /\ voicing'[b].row \in BookRows
                                       /\ Book!SpellingOf(voicing[b].row)' = voicing'[b].spelling
    BY <1>4 DEF VoicingInv, Book!SpellingOf
  <2>1. voicing'[b] = voicing[b] /\ voicing[b].at \in Busy
    BY <1>3, <1>4 DEF Busy
  <2>2. voicing[b].spelling \in Spellings \cap VoicedSpellings
        /\ (b # "host" => /\ voicing[b].row \in BookRows
                          /\ Book!SpellingOf(voicing[b].row) = voicing[b].spelling)
    BY <2>1 DEF VoicingInv
  <2>3. Book!SpellingOf(voicing[b].row)' = Book!SpellingOf(voicing'[b].row)
    BY <1>u DEF Book!SpellingOf
  <2> QED
    BY <2>1, <2>2, <2>3
<1>7. NamedInv'
  BY <1>u, <1>k, <1>1, <1>5 DEF NamedInv
<1>8. SpellingLockInv'
  BY <1>3, <1>4 DEF SpellingLockInv, Book!Holds
<1>9. Book!SpokenOnce'
  BY <1>u, <1>3, <1>4 DEF Book!SpokenOnce, Book!Live
<1>10. CalmInv'
  <2> SUFFICES ASSUME ~raced
               PROVE  CalmInv'
    BY <1>u DEF CalmInv
  <2>1. \A b \in Book!Actors : voicing'[b].at = "row" => voicing'[b].spelling \in clipFile
    BY <1>3, <1>4 DEF CalmInv
  <2>2. \A b \in Book!Actors : voicing'[b].at = "name" =>
           voicing'[b].spelling \in clip /\ voicing'[b].spelling \in clipFile
    BY <1>3, <1>4 DEF CalmInv, Book!Live
  <2>3. \A r \in named' : Book!SpellingOf(r)' \in clip /\ Book!SpellingOf(r)' \in clipFile
    BY <1>u, <1>k, <1>1, <1>5 DEF CalmInv, Book!Live
  <2> QED
    BY <1>u, <1>k, <2>1, <2>2, <2>3 DEF CalmInv, Book!Live
<1>11. prune' \in PruneJob
  BY <1>u
<1> QED
  BY <1>6, <1>7, <1>8, <1>9, <1>10, <1>11

\* A prune that began with nobody voicing keeps every clip a row names; whoever
\* speaks meanwhile has no clip it could lose.
LEMMA PruneSteps ==
    ASSUME BookInv, Book!BeginPrune \/ Book!ListClips \/ Book!DeleteClip \/ Book!RemoveFile
    PROVE  VoicingInv' /\ NamedInv' /\ prune' \in PruneJob /\ SpellingLockInv'
           /\ Book!SpokenOnce' /\ CalmInv'
<1> USE DEF BookInv
<1>u. /\ UNCHANGED <<text, named, voicing>>
      /\ clip' \subseteq clip /\ clipFile' \subseteq clipFile
  BY DEF Book!BeginPrune, Book!ListClips, Book!DeleteClip, Book!RemoveFile, Book!books
<1>5. \A r : Book!SpellingOf(r)' = Book!SpellingOf(r)
  BY <1>u DEF Book!SpellingOf
<1>6. VoicingInv'
  BY <1>u DEF VoicingInv, Book!SpellingOf
<1>7. NamedInv'
  BY <1>u, <1>5 DEF NamedInv
<1>8. SpellingLockInv'
  BY <1>u DEF SpellingLockInv, Book!Holds
<1>9. Book!SpokenOnce'
  BY <1>u DEF Book!SpokenOnce, Book!Live
<1>l. \A r \in named : Book!SpellingOf(r) \in Spellings \cap VoicedSpellings
  BY DEF NamedInv
<1>c. clip \subseteq Spellings
  BY DEF Book!TypeOK
<1>1. CASE Book!BeginPrune
  <2> DEFINE p == [Book!NoPrune EXCEPT !.at = "list", !.keep = Book!KeepList]
  <2>1. /\ prune' = p /\ UNCHANGED <<clip, clipFile>>
        /\ raced' = (raced \/ \E a \in Book!Actors :
                        voicing[a].at \in {"lock", "speak", "write", "row", "name"})
    BY <1>1 DEF Book!BeginPrune
  <2>2. Book!KeepList \subseteq Spellings /\ \A r \in named : Book!SpellingOf(r) \in Book!KeepList
    BY <1>l DEF Book!KeepList
  <2>3. p \in PruneJob /\ p.at = "list" /\ p.keep = Book!KeepList
    BY <2>2 DEF Book!NoPrune, PruneJob
  <2> HIDE DEF p
  <2>4. CalmInv'
    <3> SUFFICES ASSUME ~raced'
                 PROVE  CalmInv'
      BY DEF CalmInv
    <3>1. ~raced /\ \A a \in Book!Actors : voicing[a].at \notin Busy
      BY <2>1 DEF Busy
    <3>2. \A r \in named : Book!SpellingOf(r)' \in prune'.keep
      BY <1>5, <2>1, <2>2, <2>3
    <3>3. \A r \in named : Book!SpellingOf(r)' \in clip /\ Book!SpellingOf(r)' \in clipFile
      BY <1>5, <3>1 DEF CalmInv, Book!Live
    <3> QED
      BY <1>u, <2>1, <2>3, <3>1, <3>2, <3>3 DEF CalmInv, Book!Live, Busy
  <2> QED
    BY <1>6, <1>7, <1>8, <1>9, <2>1, <2>3, <2>4
<1>2. CASE Book!ListClips
  <2> DEFINE p == [prune EXCEPT !.at = "row", !.listed = clip \ prune.keep]
  <2>1. prune' = p /\ UNCHANGED <<clip, clipFile, raced>> /\ prune.at = "list"
    BY <1>2 DEF Book!ListClips
  <2>2. p \in PruneJob /\ p.at = "row" /\ p.keep = prune.keep /\ p.listed = clip \ prune.keep
    BY <1>c DEF PruneJob
  <2> HIDE DEF p
  <2>3. CalmInv'
    <3> SUFFICES ASSUME ~raced
                 PROVE  CalmInv'
      BY <2>1 DEF CalmInv
    <3>1. \A r \in named : Book!SpellingOf(r)' \in prune'.keep
      BY <1>5, <2>1, <2>2 DEF CalmInv
    <3>2. \A r \in named : Book!SpellingOf(r)' \in clip /\ Book!SpellingOf(r)' \in clipFile
      BY <1>5 DEF CalmInv, Book!Live
    <3>3. \A a \in Book!Actors : voicing[a].at \notin Busy
      BY <2>1 DEF CalmInv
    <3> QED
      BY <1>u, <2>1, <2>2, <3>1, <3>2, <3>3 DEF CalmInv, Book!Live, Busy
  <2> QED
    BY <1>6, <1>7, <1>8, <1>9, <2>1, <2>2, <2>3
<1>3. CASE Book!DeleteClip /\ prune' = Book!NoPrune /\ UNCHANGED clip
  <2>1. prune' \in PruneJob /\ prune'.at = "off" /\ UNCHANGED <<clip, clipFile, raced>>
    BY <1>3 DEF Book!NoPrune, PruneJob, Book!DeleteClip
  <2>2. CalmInv'
    <3> SUFFICES ASSUME ~raced
                 PROVE  CalmInv'
      BY <2>1 DEF CalmInv
    <3>1. \A r \in named : Book!SpellingOf(r)' \in clip /\ Book!SpellingOf(r)' \in clipFile
      BY <1>5 DEF CalmInv, Book!Live
    <3> QED
      BY <1>u, <2>1, <3>1 DEF CalmInv, Book!Live
  <2> QED
    BY <1>6, <1>7, <1>8, <1>9, <2>1, <2>2
<1>4. ASSUME Book!DeleteClip, NEW s \in prune.listed, clip' = clip \ {s},
             prune' = [prune EXCEPT !.at = "file", !.listed = @ \ {s}, !.spelling = s]
      PROVE  VoicingInv' /\ NamedInv' /\ prune' \in PruneJob /\ SpellingLockInv'
             /\ Book!SpokenOnce' /\ CalmInv'
  <2> DEFINE p == [prune EXCEPT !.at = "file", !.listed = @ \ {s}, !.spelling = s]
  <2>1. prune' = p /\ UNCHANGED <<clipFile, raced>> /\ prune.at = "row"
    BY <1>4 DEF Book!DeleteClip
  <2>2. /\ p \in PruneJob /\ p.at = "file" /\ p.keep = prune.keep
        /\ p.listed = prune.listed \ {s} /\ p.spelling = s
    BY <1>4 DEF PruneJob
  <2> HIDE DEF p
  <2>3. CalmInv'
    <3> SUFFICES ASSUME ~raced
                 PROVE  CalmInv'
      BY <2>1 DEF CalmInv
    <3>0. s \notin prune.keep
      BY <1>4, <2>1 DEF CalmInv
    <3>1. \A r \in named : Book!SpellingOf(r)' \in prune'.keep /\ Book!SpellingOf(r)' \in prune.keep
      BY <1>5, <2>1, <2>2 DEF CalmInv
    <3>2. \A r \in named : Book!SpellingOf(r)' \in clip' /\ Book!SpellingOf(r)' \in clipFile
      BY <1>4, <1>5, <3>0, <3>1 DEF CalmInv, Book!Live
    <3>3. \A a \in Book!Actors : voicing[a].at \notin Busy
      BY <2>1 DEF CalmInv
    <3>4. prune'.listed \cap prune'.keep = {} /\ prune'.spelling \notin prune'.keep
      BY <2>1, <2>2, <3>0 DEF CalmInv
    <3> QED
      BY <1>u, <2>1, <2>2, <3>1, <3>2, <3>3, <3>4 DEF CalmInv, Book!Live, Busy
  <2> QED
    BY <1>6, <1>7, <1>8, <1>9, <2>1, <2>2, <2>3
<1>10. CASE Book!RemoveFile
  <2> DEFINE p == [prune EXCEPT !.at = "row"]
  <2>1. /\ prune' = p /\ UNCHANGED <<clip, raced>> /\ prune.at = "file"
        /\ clipFile' = clipFile \ {prune.spelling}
    BY <1>10 DEF Book!RemoveFile
  <2>2. p \in PruneJob /\ p.at = "row" /\ p.keep = prune.keep /\ p.listed = prune.listed
    BY DEF PruneJob
  <2> HIDE DEF p
  <2>3. CalmInv'
    <3> SUFFICES ASSUME ~raced
                 PROVE  CalmInv'
      BY <2>1 DEF CalmInv
    <3>1. /\ \A r \in named : Book!SpellingOf(r) \in prune.keep
          /\ prune.spelling \notin prune.keep /\ prune.listed \cap prune.keep = {}
      BY <2>1 DEF CalmInv
    <3>2. \A r \in named : /\ Book!SpellingOf(r)' \in clip /\ Book!SpellingOf(r)' \in clipFile'
                           /\ Book!SpellingOf(r)' \in prune'.keep
      BY <1>5, <2>1, <2>2, <3>1 DEF CalmInv, Book!Live
    <3>3. \A a \in Book!Actors : voicing[a].at \notin Busy
      BY <2>1 DEF CalmInv
    <3> QED
      BY <1>u, <2>1, <2>2, <3>1, <3>2, <3>3 DEF CalmInv, Book!Live, Busy
  <2> QED
    BY <1>6, <1>7, <1>8, <1>9, <2>1, <2>2, <2>3
<1> QED
  BY <1>1, <1>2, <1>3, <1>4, <1>10 DEF Book!DeleteClip

\* Steps that leave the tables of the books alone.
BooksAlone ==
    \/ Book!Wake \/ Book!SelectSentences \/ Book!NextOfBatch \/ Book!EndOfBatch \/ Book!Kill
    \/ Book!BeginPrune \/ Book!Prune
    \/ \E a \in Book!Actors : Book!Voice(a)
    \/ \E r \in Requests, s \in Spellings, kind \in {"sentence", "word"} : Book!Ask(r, kind, s)

\* The tables of the books keep their types.
LEMMA BooksTyped ==
    ASSUME BookInv, Book!Next, NamedInv', VoicingInv'
    PROVE  Book!TypeOK'
<1> USE DEF BookInv
<1>t. /\ state \in [Books -> {"none", "ready", "thin"}]
      /\ position \in [Books -> 0 .. Length]
      /\ skipped \subseteq Book!Sentences
      /\ text \in [Book!Sentences -> Spellings \cup {0}]
      /\ gloss \in [Book!Forms -> {"none", "ok", "failed"}]
      /\ clip \subseteq Spellings /\ clipFile \subseteq Spellings
  BY DEF Book!TypeOK
<1>n. named' \subseteq BookRows
  BY DEF NamedInv
<1> SUFFICES /\ state' \in [Books -> {"none", "ready", "thin"}]
             /\ position' \in [Books -> 0 .. Length]
             /\ skipped' \subseteq Book!Sentences
             /\ text' \in [Book!Sentences -> Spellings \cup {0}]
             /\ gloss' \in [Book!Forms -> {"none", "ok", "failed"}]
             /\ clip' \subseteq Spellings /\ clipFile' \subseteq Spellings
  BY <1>n DEF Book!TypeOK, BookRows, Book!Sentences, Book!Forms, Book!SentenceRow, Book!WordRow
<1>1. CASE Book!Extract
  <2>1. state' \in [Books -> {"none", "ready", "thin"}]
    BY <1>1, <1>t DEF Book!Extract
  <2> QED
    BY <1>1, <1>t, <2>1 DEF Book!Extract
<1>2. CASE Book!Translate
  <2>1. UNCHANGED <<state, gloss, clip, clipFile>>
    BY <1>2 DEF Book!Translate
  <2>2. PICK b \in Nat, n \in Nat :
          /\ b \in Books /\ n >= 1 /\ position[b] + n <= Length
          /\ \/ \E answer \in [position[b] .. position[b] + n - 1 -> Spellings] :
                   text' = [s \in Book!Sentences |->
                              IF s[1] = b /\ s[2] \in DOMAIN answer /\ text[s] = 0
                              THEN answer[s[2]] ELSE text[s]]
             \/ text' = text
          /\ \/ position' = [position EXCEPT ![b] = Book!Passed(b, n)]
             \/ position' = position
          /\ skipped' \in {skipped, Book!AfterRefusal(b, n)}
    <3>1. Book!Untranslated # {} /\ Book!Untranslated \subseteq Nat /\ Book!Untranslated \subseteq Books
      BY <1>2, BookAssumption DEF Book!Translate, Book!Untranslated
    <3>2. Book!First(Book!Untranslated) \in Books
      BY <3>1, FirstOf
    <3> DEFINE b == Book!First(Book!Untranslated)
    <3>3. PICK n \in 1 .. RunMax :
            /\ position[b] + n <= Length
            /\ \/ \E answer \in [position[b] .. position[b] + n - 1 -> Spellings] :
                     text' = [s \in Book!Sentences |->
                                IF s[1] = b /\ s[2] \in DOMAIN answer /\ text[s] = 0
                                THEN answer[s[2]] ELSE text[s]]
               \/ text' = text
            /\ \/ position' = [position EXCEPT ![b] = Book!Passed(b, n)]
               \/ position' = position
            /\ skipped' \in {skipped, Book!AfterRefusal(b, n)}
      BY <1>2 DEF Book!Translate
    <3>4. b \in Books
      BY <3>2
    <3> HIDE DEF b
    <3>5. b \in Nat
      BY <3>4, BookAssumption
    <3>6. n \in Nat /\ n >= 1
      <4>1. RunMax \in Nat
        BY BookAssumption
      <4> QED
        BY <4>1
    <3> QED
      BY <3>3, <3>4, <3>5, <3>6
  <2>3. position[b] \in Nat /\ Length \in Nat
    BY <1>t, <2>2, BookAssumption
  <2>4. position' \in [Books -> 0 .. Length]
    <3>1. Book!Passed(b, n) \in 0 .. Length
      BY <2>2, <2>3 DEF Book!Passed
    <3> QED
      BY <1>t, <2>2, <3>1
  <2>5. Book!AfterRefusal(b, n) \subseteq Book!Sentences
    <3>1. \A p \in position[b] .. position[b] + n - 1 : p \in 0 .. Length - 1
      BY <2>2, <2>3
    <3>2. \A p \in position[b] .. position[b] + n - 1 : <<b, p>> \in Book!Sentences
      BY <2>2, <3>1 DEF Book!Sentences
    <3> QED
      BY <1>t, <3>2 DEF Book!AfterRefusal
  <2>6. text' \in [Book!Sentences -> Spellings \cup {0}]
    <3>1. ASSUME NEW answer \in [position[b] .. position[b] + n - 1 -> Spellings],
                 text' = [s \in Book!Sentences |->
                            IF s[1] = b /\ s[2] \in DOMAIN answer /\ text[s] = 0
                            THEN answer[s[2]] ELSE text[s]]
          PROVE  text' \in [Book!Sentences -> Spellings \cup {0}]
      BY <1>t, <3>1
    <3> QED
      BY <1>t, <2>2, <3>1
  <2> QED
    BY <1>t, <2>1, <2>2, <2>4, <2>5, <2>6
<1>3. CASE Book!Gloss
  <2>1. UNCHANGED <<state, position, skipped, text, clip, clipFile>>
    BY <1>3 DEF Book!Gloss
  <2>2. CASE gloss' = gloss
    BY <1>t, <2>1, <2>2
  <2>3. ASSUME NEW told \in SUBSET Book!Unglossed,
               gloss' = [f \in Book!Forms |-> IF f \notin Book!Unglossed THEN gloss[f]
                                          ELSE IF f \in told THEN "ok" ELSE "failed"]
        PROVE  gloss' \in [Book!Forms -> {"none", "ok", "failed"}]
    BY <1>t, <2>3
  <2> QED
    BY <1>3, <1>t, <2>1, <2>2, <2>3 DEF Book!Gloss
<1>4. CASE BooksAlone
  <2>1. UNCHANGED <<state, position, skipped, text, gloss>>
    BY <1>4 DEF BooksAlone, Book!books, Book!Wake, Book!SelectSentences, Book!NextOfBatch,
           Book!EndOfBatch, Book!Kill, Book!BeginPrune, Book!Prune, Book!ListClips,
           Book!DeleteClip, Book!RemoveFile, Book!Voice, Book!LookAgain, Book!Speak,
           Book!WriteFile, Book!StoreClip, Book!Name, Book!Ask
  <2>2. ASSUME NEW a \in Book!Actors, Book!WriteFile(a) \/ Book!StoreClip(a)
        PROVE  clip' \subseteq Spellings /\ clipFile' \subseteq Spellings
    <3>1. voicing[a].spelling \in Spellings
      BY <2>2 DEF VoicingInv, Busy, Book!WriteFile, Book!StoreClip, Book!On
    <3> QED
      BY <2>2, <1>t, <3>1 DEF Book!WriteFile, Book!StoreClip
  <2>3. clip' \subseteq Spellings /\ clipFile' \subseteq Spellings
    <3>1. \/ clip' \subseteq clip /\ clipFile' \subseteq clipFile
          \/ \E a \in Book!Actors : Book!WriteFile(a) \/ Book!StoreClip(a)
      BY <1>4 DEF BooksAlone, Book!Wake, Book!SelectSentences, Book!NextOfBatch,
             Book!EndOfBatch, Book!Kill, Book!BeginPrune, Book!Prune, Book!ListClips,
             Book!DeleteClip, Book!RemoveFile, Book!Voice, Book!LookAgain, Book!Speak,
             Book!Name, Book!Ask
    <3> QED
      BY <1>t, <2>2, <3>1
  <2> QED
    BY <1>t, <2>1, <2>3
<1> QED
  BY <1>1, <1>2, <1>3, <1>4 DEF Book!Next, Book!Host, BooksAlone

\* Every step of the books keeps their invariant.
LEMMA BookStep ==
    ASSUME BookInv, Book!Next
    PROVE  BookInv'
<1>1. VoicingInv' /\ NamedInv' /\ prune' \in PruneJob /\ SpellingLockInv'
      /\ Book!SpokenOnce' /\ CalmInv'
  <2>1. ASSUME NEW a \in Book!Actors, Book!Voice(a)
        PROVE  VoicingInv' /\ NamedInv' /\ prune' \in PruneJob /\ SpellingLockInv'
               /\ Book!SpokenOnce' /\ CalmInv'
    BY <2>1, Spoke, Written, Named DEF Book!Voice
  <2> QED
    BY <2>1, HostGoes, TakenUp, AskedFor, PruneSteps DEF Book!Next, Book!Host, Book!Prune
<1> QED
  BY <1>1, BooksTyped DEF BookInv

\* It holds before the first book.
LEMMA BookStart ==
    ASSUME Book!Init
    PROVE  BookInv
<1>1. /\ state = [b \in Books |-> "none"] /\ position = [b \in Books |-> 0]
      /\ skipped = {} /\ named = {} /\ clip = {} /\ clipFile = {}
      /\ text = [s \in Book!Sentences |-> 0] /\ gloss = [f \in Book!Forms |-> "none"]
      /\ voicing = [a \in Book!Actors |-> Book!Idle] /\ prune = Book!NoPrune
  BY DEF Book!Init
<1>2. Length \in Nat
  BY BookAssumption
<1>3. Book!TypeOK
  BY <1>1, <1>2 DEF Book!TypeOK
<1>4. \A a \in Book!Actors : voicing[a] = Book!Idle
  BY <1>1
<1>5. VoicingInv
  BY <1>1, <1>4, IdleJob DEF VoicingInv, Busy
<1>6. prune \in PruneJob /\ prune.at = "off"
  BY <1>1 DEF Book!NoPrune, PruneJob
<1>7. NamedInv /\ SpellingLockInv /\ Book!SpokenOnce
  BY <1>1, <1>4, IdleJob DEF NamedInv, SpellingLockInv, Book!SpokenOnce, Book!Holds
<1>8. CalmInv
  BY <1>1, <1>4, <1>6, IdleJob DEF CalmInv
<1> QED
  BY <1>3, <1>5, <1>6, <1>7, <1>8 DEF BookInv

-----------------------------------------------------------------------------
(***************************************************************************)
(* The corpus unit                                                         *)
(***************************************************************************)

UnitSites == {"rest", "download", "missing", "lock", "read", "mark", "cycle", "cursor", "turn"}
Wakes ==
    [at : UnitSites, pair : Unit!PairSet \cup {""},
     archive : Unit!ArchiveSet \cup {"", "worked", "retry"}, seen : 0..Lines,
     kind : Unit!Kinds \cup {""}, tries : 0..3]

\* A wake that reads has an archive of the file, and one that takes its turn a kind.
Sound(j) ==
    /\ j.at \in {"download", "missing", "lock", "read", "mark"} => j.archive \in Unit!ArchiveSet
    /\ j.at \in {"download", "lock"} => j.seen = 0
    /\ j.at \in {"cycle", "cursor", "turn"} => j.kind \in Unit!Kinds
    /\ j.at = "cursor" => j.pair \in Unit!PairSet
WakeInv == wake \in [Workers -> Wakes] /\ \A w \in Workers : Sound(wake[w])

\* A stamp is of the evidence some language had.
Stamps == [Unit!PairSet -> SUBSET (Unit!ArchiveSet \X (0..Lines))]
UnitInv == Unit!TypeOK /\ stamp \in Stamps /\ mined \in Stamps /\ WakeInv

\* With one invocation at a time: what is read is a whole file, every batch that was
\* counted is stored, and the mark follows the last.
Reading ==
    /\ \A w \in Workers :
          /\ wake[w].at \in {"lock", "read", "mark"} => scratch[wake[w].archive] = Lines
          /\ wake[w].at \in {"read", "mark"} => rows[wake[w].archive] >= wake[w].seen
          /\ wake[w].at = "mark" => wake[w].seen = Lines
    /\ Unit!ArchiveTruthful
OneInvocation == \A v, w \in Workers : v = w

\* The first of a set in a sequence is one of the set.
LEMMA FirstInSet ==
    ASSUME NEW seq \in Seq(STRING), NEW set, set \subseteq Unit!Range(seq), set # {}
    PROVE  Unit!FirstIn(seq, set) \in set
<1> DEFINE places == {i \in DOMAIN seq : seq[i] \in set}
<1>1. places \subseteq Nat
  OBVIOUS
<1>2. places # {}
  BY DEF Unit!Range
<1>3. \E x \in places : \A y \in places : x <= y
  BY <1>1, <1>2, LeastExists
<1>4. Unit!Min(places) \in places
  BY <1>3 DEF Unit!Min
<1> QED
  BY <1>4 DEF Unit!FirstIn

\* So is the first from the cursor on.
LEMMA FirstInRotation ==
    ASSUME NEW c, NEW set, set \subseteq Unit!PairSet, set # {}
    PROVE  Unit!InRotation(c, set) \in set
<1> DEFINE ahead == {Pairs[i] : i \in Unit!RotationStart(c) .. Len(Pairs)} \cap set
           chosen == IF ahead # {} THEN ahead ELSE set
<1>1. Unit!InRotation(c, set) = Unit!FirstIn(Pairs, chosen)
  BY DEF Unit!InRotation
<1>2. chosen \subseteq set /\ chosen # {}
  OBVIOUS
<1> HIDE DEF chosen
<1>3. Pairs \in Seq(STRING) /\ chosen \subseteq Unit!Range(Pairs)
  BY <1>2, UnitAssumption DEF Unit!PairSet
<1> QED
  BY <1>1, <1>2, <1>3, FirstInSet

\* What a step of one invocation does to the wakes: the others stand still.
LEMMA WakeSet ==
    ASSUME WakeInv, NEW w \in Workers, NEW j \in Wakes, Sound(j),
           wake' = [wake EXCEPT ![w] = j]
    PROVE  /\ WakeInv'
           /\ wake'[w] = j
           /\ \A v \in Workers \ {w} : wake'[v] = wake[v]
BY DEF WakeInv

\* What a wake is before it has looked at anything.
LEMMA RestJob ==
    Unit!Rest \in Wakes /\ Unit!Rest.at = "rest" /\ Unit!Rest.seen = 0
<1>1. 0 \in 0..Lines
  BY UnitAssumption
<1> QED
  BY <1>1 DEF Unit!Rest, Wakes, UnitSites

\* A wake that ends.
LEMMA Slept ==
    ASSUME WakeInv, NEW w \in Workers, Unit!Sleep(w)
    PROVE  WakeInv' /\ wake'[w].at = "rest"
<1>1. Sound(Unit!Rest)
  BY RestJob DEF Sound
<1> QED
  BY <1>1, RestJob, WakeSet DEF Unit!Sleep

\* A wake that goes on to its next site.
LEMMA Gone ==
    ASSUME WakeInv, NEW w \in Workers, NEW step \in UnitSites, Unit!Go(w, step),
           Sound([wake[w] EXCEPT !.at = step])
    PROVE  /\ WakeInv' /\ wake'[w].at = step /\ wake'[w].archive = wake[w].archive
           /\ wake'[w].seen = wake[w].seen
<1> DEFINE j == [wake[w] EXCEPT !.at = step]
<1>1. wake[w] \in Wakes
  BY DEF WakeInv
<1>2. /\ j \in Wakes /\ j.at = step /\ j.archive = wake[w].archive /\ j.seen = wake[w].seen
  BY <1>1 DEF Wakes
<1>3. wake' = [wake EXCEPT ![w] = j] /\ Sound(j)
  BY DEF Unit!Go
<1> HIDE DEF j
<1> QED
  BY <1>2, <1>3, WakeSet

\* The steps that read an archive keep the wakes sound.
LEMMA ReadingWakes ==
    ASSUME UnitInv, NEW w \in Workers,
           \/ Unit!ReadArchive(w) \/ Unit!MarkUnavailable(w) \/ Unit!Downloaded(w) \/ Unit!Lock(w)
           \/ Unit!Persist(w) \/ Unit!EndOfFile(w) \/ Unit!ParseError(w) \/ Unit!MarkIngested(w)
    PROVE  WakeInv'
<1> USE DEF UnitInv
<1>0. wake[w] \in Wakes /\ Sound(wake[w])
  BY DEF WakeInv
<1>1. CASE Unit!ReadArchive(w)
  <2> DEFINE a == Unit!FirstIn(Archives, Unit!PendingArchives)
             j(step) == [Unit!Rest EXCEPT !.at = step, !.archive = a, !.pair = ForeignOf[a]]
  <2>1. a \in Unit!ArchiveSet
    <3>1. /\ Unit!PendingArchives \subseteq Unit!Range(Archives) /\ Unit!PendingArchives # {}
          /\ Archives \in Seq(STRING)
      BY <1>1, UnitAssumption DEF Unit!ReadArchive, Unit!PendingArchives, Unit!ArchiveSet
    <3> QED
      BY <3>1, FirstInSet DEF Unit!PendingArchives
  <2>2. ForeignOf[a] \in Unit!PairSet /\ Lines \in Nat
    BY <2>1, UnitAssumption
  <2>3. \E step \in {"missing", "download"} : wake' = [wake EXCEPT ![w] = j(step)]
    BY <1>1 DEF Unit!ReadArchive
  <2> HIDE DEF a
  <2>4. \A step \in {"missing", "download"} : j(step) \in Wakes /\ Sound(j(step))
    <3> SUFFICES ASSUME NEW step \in {"missing", "download"}
                 PROVE  j(step) \in Wakes /\ Sound(j(step))
      OBVIOUS
    <3>1. /\ j(step) \in Wakes /\ j(step).at = step /\ j(step).archive = a
          /\ j(step).seen = 0
      BY <2>1, <2>2, RestJob DEF Wakes, UnitSites
    <3> QED
      BY <2>1, <3>1 DEF Sound
  <2> HIDE DEF j
  <2> QED
    BY <2>3, <2>4, WakeSet
<1>2. CASE Unit!Sleep(w)
  BY <1>2, Slept
<1>3. CASE \E step \in {"lock", "read", "mark"} :
              Unit!Go(w, step) /\ wake[w].at \in {"download", "lock", "read"}
              /\ (step = "lock" => wake[w].at = "download")
  <2>1. PICK step \in {"lock", "read", "mark"} :
              Unit!Go(w, step) /\ wake[w].at \in {"download", "lock", "read"}
              /\ (step = "lock" => wake[w].at = "download")
    BY <1>3
  <2>2. Sound([wake[w] EXCEPT !.at = step])
    BY <1>0, <2>1 DEF Sound, Wakes
  <2> QED
    BY <2>1, <2>2, Gone DEF UnitSites
<1>4. CASE Unit!Persist(w)
  <2> DEFINE j == [wake[w] EXCEPT !.seen = wake[w].seen + 1]
  <2>1. wake' = [wake EXCEPT ![w] = j] /\ wake[w].at = "read"
        /\ wake[w].seen + 1 <= scratch[wake[w].archive]
    BY <1>4 DEF Unit!Persist, Unit!At
  <2>2. wake[w].archive \in Unit!ArchiveSet
    BY <1>0, <2>1 DEF Sound
  <2>3. scratch[wake[w].archive] \in 0..Lines /\ wake[w].seen \in 0..Lines /\ Lines \in Nat
    BY <1>0, <2>2, UnitAssumption DEF Unit!TypeOK, Wakes
  <2>4. wake[w].seen + 1 \in 0..Lines
    BY <2>1, <2>3
  <2>5. j \in Wakes /\ j.at = "read" /\ j.archive = wake[w].archive
    BY <1>0, <2>1, <2>4 DEF Wakes
  <2>6. Sound(j)
    BY <2>2, <2>5 DEF Sound
  <2> HIDE DEF j
  <2> QED
    BY <2>1, <2>5, <2>6, WakeSet
<1> QED
  BY <1>1, <1>2, <1>3, <1>4 DEF Unit!MarkUnavailable, Unit!Downloaded, Unit!Lock,
     Unit!EndOfFile, Unit!ParseError, Unit!MarkIngested, Unit!At

\* The next kind is a kind.
LEMMA NextKind ==
    ASSUME NEW kind \in Unit!Kinds, NEW result
    PROVE  Unit!Settled(kind, result) \in Unit!Kinds
BY DEF Unit!Settled, Unit!Advance, Unit!Kinds

\* So do the steps of the turn.
LEMMA TurningWakes ==
    ASSUME UnitInv, NEW w \in Workers,
           \/ Unit!Rank(w) \/ Unit!Mine(w)
           \/ Unit!BeginTurn(w) \/ Unit!Gloss(w) \/ Unit!VoicePhrases(w) \/ Unit!WordMedia(w)
           \/ Unit!Empty(w) \/ Unit!Idle(w) \/ Unit!StoreCursor(w) \/ Unit!StoreTurn(w)
           \/ Unit!Kill(w)
    PROVE  WakeInv'
<1> USE DEF UnitInv
<1>0. wake[w] \in Wakes /\ Sound(wake[w]) /\ Lines \in Nat
  BY UnitAssumption DEF WakeInv
<1>1. CASE Unit!Sleep(w)
  BY <1>1, Slept
<1>2. CASE UNCHANGED wake
  BY <1>2 DEF WakeInv
<1>3. CASE Unit!BeginTurn(w)
  <2> DEFINE j == [Unit!Rest EXCEPT !.at = "cycle", !.kind = turn]
  <2>1. wake' = [wake EXCEPT ![w] = j]
    BY <1>3 DEF Unit!BeginTurn
  <2>2. turn \in Unit!Kinds
    BY DEF Unit!TypeOK
  <2>3. j \in Wakes /\ j.at = "cycle" /\ j.kind = turn
    BY <2>2, RestJob DEF Wakes, UnitSites
  <2>4. Sound(j)
    BY <2>2, <2>3 DEF Sound
  <2> HIDE DEF j
  <2> QED
    BY <2>1, <2>3, <2>4, WakeSet
<1>4. CASE wake[w].at = "cycle" /\ \E p \in Unit!PairSet : Unit!Worked(w, p)
  <2>1. PICK p \in Unit!PairSet : Unit!Worked(w, p)
    BY <1>4
  <2> DEFINE step == IF wake[w].kind = "word_audio" THEN "turn" ELSE "cursor"
             j == [wake[w] EXCEPT !.at = step, !.pair = p, !.archive = "worked"]
  <2>2. wake' = [wake EXCEPT ![w] = j]
    BY <2>1 DEF Unit!Worked
  <2>3. step \in {"turn", "cursor"}
    OBVIOUS
  <2> HIDE DEF step
  <2>4. j \in Wakes /\ j.at = step /\ j.pair = p /\ j.kind = wake[w].kind
    BY <1>0, <2>3 DEF Wakes, UnitSites
  <2>5. Sound(j)
    BY <1>0, <1>4, <2>3, <2>4 DEF Sound
  <2> HIDE DEF j
  <2> QED
    BY <2>2, <2>4, <2>5, WakeSet
<1>5. CASE wake[w].at = "cycle" /\ Unit!Retried(w)
  <2> DEFINE j == [wake[w] EXCEPT !.at = "turn", !.archive = "retry"]
  <2>1. wake' = [wake EXCEPT ![w] = j]
    BY <1>5 DEF Unit!Retried
  <2>2. j \in Wakes /\ j.at = "turn" /\ j.kind = wake[w].kind
    BY <1>0 DEF Wakes, UnitSites
  <2>3. Sound(j)
    BY <1>0, <1>5, <2>2 DEF Sound
  <2> HIDE DEF j
  <2> QED
    BY <2>1, <2>2, <2>3, WakeSet
<1>6. CASE Unit!Empty(w)
  <2> DEFINE kind == Unit!Settled(wake[w].kind, "empty")
             tries == wake[w].tries + 1
             j == [wake[w] EXCEPT !.kind = kind, !.tries = tries]
  <2>1. wake' = [wake EXCEPT ![w] = j] /\ wake[w].at = "cycle" /\ wake[w].tries < 3
    BY <1>6 DEF Unit!Empty, Unit!At
  <2>2. kind \in Unit!Kinds /\ tries \in 0..3
    <3>1. wake[w].kind \in Unit!Kinds
      BY <1>0, <2>1 DEF Sound
    <3>2. wake[w].tries \in 0..3
      BY <1>0 DEF Wakes
    <3> QED
      BY <2>1, <3>1, <3>2, NextKind
  <2> HIDE DEF kind, tries
  <2>3. j \in Wakes /\ j.at = "cycle" /\ j.kind = kind
    BY <1>0, <2>1, <2>2 DEF Wakes
  <2>4. Sound(j)
    BY <2>2, <2>3 DEF Sound
  <2> HIDE DEF j
  <2> QED
    BY <2>1, <2>3, <2>4, WakeSet
<1>7. CASE Unit!StoreCursor(w)
  <2>1. wake[w].at = "cursor" /\ Unit!Go(w, "turn")
    BY <1>7 DEF Unit!StoreCursor, Unit!At
  <2>2. Sound([wake[w] EXCEPT !.at = "turn"])
    BY <1>0, <2>1 DEF Sound, Wakes
  <2> QED
    BY <2>1, <2>2, Gone DEF UnitSites
<1>8. CASE Unit!Gloss(w)
  <2>1. Unit!InRotation(place.gloss, Unit!GlossWork) \in Unit!PairSet
    BY <1>8, FirstInRotation DEF Unit!Gloss, Unit!GlossWork
  <2> QED
    BY <1>4, <1>5, <1>8, <2>1 DEF Unit!Gloss, Unit!Attempting, Unit!At
<1>9. CASE Unit!VoicePhrases(w)
  <2>1. Unit!InRotation(place.phrase_audio, Unit!SpeechWork) \in Unit!PairSet
    BY <1>9, FirstInRotation DEF Unit!VoicePhrases, Unit!SpeechWork
  <2> QED
    BY <1>4, <1>5, <1>9, <2>1 DEF Unit!VoicePhrases, Unit!Attempting, Unit!At
<1>10. CASE Unit!WordMedia(w)
  <2>1. Unit!FirstIn(Pairs, Unit!MediaWork) \in Unit!PairSet
    <3>1. /\ Unit!MediaWork \subseteq Unit!Range(Pairs) /\ Unit!MediaWork # {}
          /\ Pairs \in Seq(STRING)
      BY <1>10, UnitAssumption DEF Unit!WordMedia, Unit!MediaWork, Unit!PairSet
    <3> QED
      BY <3>1, FirstInSet DEF Unit!PairSet
  <2> QED
    BY <1>4, <1>5, <1>10, <2>1 DEF Unit!WordMedia, Unit!Attempting, Unit!At
<1> QED
  BY <1>1, <1>2, <1>3, <1>6, <1>7, <1>8, <1>9, <1>10 DEF Unit!Rank, Unit!Mine, Unit!Idle,
     Unit!StoreTurn, Unit!Kill

PhraseTables == [Unit!PairSet -> [1..Slots -> {"unmined", "staged", "orphan", "linked", "voiced"}]]
WordTables   == [Unit!PairSet -> [1..Slots -> {"bare", "spoken", "whole"}]]

\* What the unit's steps do to phrases and words stays in their tables.
LEMMA ContentTyped ==
    ASSUME UnitInv, Unit!Next
    PROVE  phrases' \in PhraseTables /\ words' \in WordTables
<1>0. phrases \in PhraseTables /\ words \in WordTables
  BY DEF UnitInv, Unit!TypeOK, PhraseTables, WordTables
<1>1. ASSUME NEW w \in Workers, Unit!Mine(w)
      PROVE  phrases' \in PhraseTables /\ words' = words
  BY <1>0, <1>1 DEF Unit!Mine, PhraseTables
<1>2. ASSUME NEW p, NEW S
      PROVE  Unit!Glossed(p, S) \in PhraseTables
  BY <1>0 DEF Unit!Glossed, Unit!Relinked, PhraseTables
<1>3. ASSUME NEW p, NEW S
      PROVE  Unit!Turned(p, "linked", "voiced", S) \in PhraseTables
  BY <1>0 DEF Unit!Turned, PhraseTables
<1>4. ASSUME NEW w \in Workers, Unit!Gloss(w)
      PROVE  phrases' \in PhraseTables /\ words' = words
  BY <1>2, <1>4 DEF Unit!Gloss
<1>5. ASSUME NEW w \in Workers, Unit!VoicePhrases(w)
      PROVE  phrases' \in PhraseTables /\ words' = words
  BY <1>0, <1>3, <1>5 DEF Unit!VoicePhrases
<1>6. ASSUME NEW w \in Workers, Unit!WordMedia(w)
      PROVE  words' \in WordTables /\ phrases' = phrases
  <2>1. ASSUME NEW p, NEW n \in 1..Slots, NEW last \in {"bare", "spoken"}
        PROVE  Unit!Illustrated(p, n, last) \in WordTables
    BY <1>0 DEF Unit!Illustrated, WordTables
  <2>2. ASSUME NEW p
        PROVE  [words EXCEPT ![p] = [n \in 1..Slots |-> "whole"]] \in WordTables
    BY <1>0 DEF WordTables
  <2> QED
    BY <1>6, <2>1, <2>2 DEF Unit!WordMedia
<1>7. ASSUME NEW p \in Unit!PairSet, NEW n \in 1..Slots, Unit!Prune(p, n)
      PROVE  phrases' \in PhraseTables /\ words' = words
  BY <1>0, <1>7 DEF Unit!Prune, PhraseTables
<1>8. ASSUME NEW w \in Workers, Unit!Step(w) \/ Unit!Kill(w),
             ~Unit!Mine(w), ~Unit!Gloss(w), ~Unit!VoicePhrases(w), ~Unit!WordMedia(w)
      PROVE  phrases' = phrases /\ words' = words
  BY <1>8 DEF Unit!Step, Unit!content, Unit!ReadArchive, Unit!MarkUnavailable, Unit!Downloaded,
     Unit!Lock, Unit!Persist, Unit!EndOfFile, Unit!ParseError, Unit!MarkIngested, Unit!Rank,
     Unit!BeginTurn, Unit!Empty, Unit!Idle, Unit!StoreCursor, Unit!StoreTurn, Unit!Kill
<1> QED
  BY <1>0, <1>1, <1>4, <1>5, <1>6, <1>7, <1>8 DEF Unit!Next

\* The ledger, the rows, the scratch files and the stamps keep their types.
LEMMA BaseTyped ==
    ASSUME UnitInv, Unit!Next
    PROVE  /\ ledger' \in [Unit!ArchiveSet -> {"none", "ingested", "unavailable"}]
           /\ rows' \in [Unit!ArchiveSet -> 0..Lines] /\ scratch' \in [Unit!ArchiveSet -> 0..Lines]
           /\ stamp' \in Stamps /\ mined' \in Stamps
<1> USE DEF UnitInv
<1>0. /\ ledger \in [Unit!ArchiveSet -> {"none", "ingested", "unavailable"}]
      /\ rows \in [Unit!ArchiveSet -> 0..Lines] /\ scratch \in [Unit!ArchiveSet -> 0..Lines]
      /\ stamp \in Stamps /\ mined \in Stamps /\ Lines \in Nat
  BY UnitAssumption DEF Unit!TypeOK
<1>e. \A p : Unit!Evidence(p) \subseteq Unit!ArchiveSet \X (0..Lines)
  BY <1>0 DEF Unit!Evidence
<1>1. ASSUME NEW w \in Workers, Unit!ReadArchive(w) \/ Unit!Downloaded(w)
      PROVE  scratch' \in [Unit!ArchiveSet -> 0..Lines] /\ UNCHANGED <<ledger, rows, stamp, mined>>
  BY <1>0, <1>1 DEF Unit!ReadArchive, Unit!Downloaded
<1>2. ASSUME NEW w \in Workers, Unit!MarkUnavailable(w) \/ Unit!MarkIngested(w)
      PROVE  /\ ledger' \in [Unit!ArchiveSet -> {"none", "ingested", "unavailable"}]
             /\ scratch' \in [Unit!ArchiveSet -> 0..Lines] /\ UNCHANGED <<rows, stamp, mined>>
  BY <1>0, <1>2 DEF Unit!MarkUnavailable, Unit!MarkIngested
<1>3. ASSUME NEW w \in Workers, Unit!Persist(w)
      PROVE  /\ rows' \in [Unit!ArchiveSet -> 0..Lines]
             /\ UNCHANGED <<ledger, scratch, stamp, mined>>
  <2>1. wake[w].archive \in Unit!ArchiveSet /\ wake[w].seen \in 0..Lines
    BY <1>3 DEF Unit!Persist, Unit!At, WakeInv, Sound, Wakes
  <2>2. wake[w].seen + 1 \in 0..Lines
    BY <1>0, <1>3, <2>1 DEF Unit!Persist
  <2> QED
    BY <1>0, <1>3, <2>1, <2>2 DEF Unit!Persist
<1>4. ASSUME NEW w \in Workers, Unit!Rank(w)
      PROVE  stamp' \in Stamps /\ UNCHANGED <<ledger, rows, scratch, mined>>
  BY <1>0, <1>e, <1>4 DEF Unit!Rank, Stamps
<1>5. ASSUME NEW w \in Workers, Unit!Mine(w)
      PROVE  mined' \in Stamps /\ UNCHANGED <<ledger, rows, scratch, stamp>>
  BY <1>0, <1>e, <1>5 DEF Unit!Mine, Stamps
<1>6. ASSUME NEW w \in Workers,
             \/ Unit!Lock(w) \/ Unit!EndOfFile(w) \/ Unit!ParseError(w) \/ Unit!BeginTurn(w)
             \/ Unit!Gloss(w) \/ Unit!VoicePhrases(w) \/ Unit!WordMedia(w) \/ Unit!Empty(w)
             \/ Unit!Idle(w) \/ Unit!StoreCursor(w) \/ Unit!StoreTurn(w) \/ Unit!Kill(w)
      PROVE  UNCHANGED <<ledger, rows, scratch, stamp, mined>>
  BY <1>6 DEF Unit!base, Unit!Lock, Unit!EndOfFile, Unit!ParseError, Unit!BeginTurn, Unit!Gloss,
     Unit!VoicePhrases, Unit!WordMedia, Unit!Empty, Unit!Idle, Unit!StoreCursor,
     Unit!StoreTurn, Unit!Kill
<1>7. ASSUME NEW p \in Unit!PairSet, NEW n \in 1..Slots, Unit!Prune(p, n)
      PROVE  UNCHANGED <<ledger, rows, scratch, stamp, mined>>
  BY <1>7 DEF Unit!Prune, Unit!base
<1> QED
  BY <1>0, <1>1, <1>2, <1>3, <1>4, <1>5, <1>6, <1>7 DEF Unit!Next, Unit!Step

\* The pair after one of the file is one of the file, or none.
LEMMA FollowingTyped ==
    ASSUME NEW p \in Unit!PairSet
    PROVE  Unit!Following(p) \in Unit!PairSet \cup {""}
<1>1. Pairs \in Seq(STRING)
  BY UnitAssumption
<1>2. \E i \in DOMAIN Pairs : Pairs[i] = p
  BY DEF Unit!PairSet, Unit!Range
<1>3. Unit!Position(p) \in DOMAIN Pairs
  BY <1>2 DEF Unit!Position
<1>4. Unit!Position(p) < Len(Pairs) => Unit!Position(p) + 1 \in DOMAIN Pairs
  BY <1>1, <1>3
<1> QED
  BY <1>4 DEF Unit!Following, Unit!PairSet, Unit!Range

\* So do the turn, the cursors and the counters.
LEMMA TurnTyped ==
    ASSUME UnitInv, Unit!Next
    PROVE  /\ turn' \in Unit!Kinds
           /\ place' \in [{"gloss", "phrase_audio"} -> Unit!PairSet \cup {""}]
           /\ faults' \in 0..Faults /\ kills' \in 0..Kills /\ uprunes' \in 0..PrunesOfGlosses
<1> USE DEF UnitInv
<1>0. /\ turn \in Unit!Kinds
      /\ place \in [{"gloss", "phrase_audio"} -> Unit!PairSet \cup {""}]
      /\ faults \in 0..Faults /\ kills \in 0..Kills /\ uprunes \in 0..PrunesOfGlosses
      /\ Faults \in Nat /\ Kills \in Nat /\ PrunesOfGlosses \in Nat
  BY UnitAssumption DEF Unit!TypeOK
<1>n. \A bound \in Nat : \A n \in 0..bound : n < bound => n + 1 \in 0..bound
  OBVIOUS
<1>f. ASSUME NEW provider, Unit!Failed(provider)
      PROVE  faults' \in 0..Faults
  <2>1. faults' = faults \/ (faults < Faults /\ faults' = faults + 1)
    BY <1>f DEF Unit!Failed, Unit!MayFail
  <2> QED
    BY <1>0, <1>n, <2>1
<1>1. ASSUME NEW w \in Workers,
             \/ Unit!Downloaded(w) \/ Unit!Gloss(w) \/ Unit!VoicePhrases(w) \/ Unit!WordMedia(w)
      PROVE  faults' \in 0..Faults /\ UNCHANGED <<turn, place, kills, uprunes>>
  BY <1>0, <1>f, <1>1 DEF Unit!Downloaded, Unit!Gloss, Unit!VoicePhrases, Unit!WordMedia,
     Unit!bounds
<1>2. ASSUME NEW w \in Workers, Unit!Idle(w) \/ Unit!StoreTurn(w)
      PROVE  turn' \in Unit!Kinds /\ UNCHANGED <<place, faults, kills, uprunes>>
  <2>1. Unit!StoreTurn(w) => wake[w].kind \in Unit!Kinds
    BY DEF Unit!StoreTurn, Unit!At, WakeInv, Sound
  <2>2. "gloss" \in Unit!Kinds
    BY DEF Unit!Kinds
  <2> QED
    BY <1>2, <2>1, <2>2, NextKind DEF Unit!Idle, Unit!StoreTurn, Unit!bounds
<1>3. ASSUME NEW w \in Workers, Unit!StoreCursor(w)
      PROVE  /\ place' \in [{"gloss", "phrase_audio"} -> Unit!PairSet \cup {""}]
             /\ UNCHANGED <<turn, faults, kills, uprunes>>
  <2>1. wake[w].pair \in Unit!PairSet
    BY <1>3 DEF Unit!StoreCursor, Unit!At, WakeInv, Sound
  <2>2. Unit!Following(wake[w].pair) \in Unit!PairSet \cup {""}
    BY <2>1, FollowingTyped
  <2> QED
    BY <1>0, <1>3, <2>2 DEF Unit!StoreCursor, Unit!bounds
<1>4. ASSUME NEW w \in Workers, Unit!Kill(w)
      PROVE  kills' \in 0..Kills /\ UNCHANGED <<turn, place, faults, uprunes>>
  <2>1. kills < Kills /\ kills' = kills + 1
    BY <1>4 DEF Unit!Kill
  <2>2. kills' \in 0..Kills
    BY <1>0, <1>n, <2>1
  <2> QED
    BY <1>4, <2>2 DEF Unit!Kill
<1>5. ASSUME NEW p \in Unit!PairSet, NEW n \in 1..Slots, Unit!Prune(p, n)
      PROVE  uprunes' \in 0..PrunesOfGlosses /\ UNCHANGED <<turn, place, faults, kills>>
  <2>1. uprunes < PrunesOfGlosses /\ uprunes' = uprunes + 1
    BY <1>5 DEF Unit!Prune
  <2>2. uprunes' \in 0..PrunesOfGlosses
    BY <1>0, <1>n, <2>1
  <2> QED
    BY <1>5, <2>2 DEF Unit!Prune
<1>6. ASSUME NEW w \in Workers,
             \/ Unit!ReadArchive(w) \/ Unit!MarkUnavailable(w) \/ Unit!Lock(w) \/ Unit!Persist(w)
             \/ Unit!EndOfFile(w) \/ Unit!ParseError(w) \/ Unit!MarkIngested(w) \/ Unit!Rank(w)
             \/ Unit!Mine(w) \/ Unit!BeginTurn(w) \/ Unit!Empty(w)
      PROVE  UNCHANGED <<turn, place, faults, kills, uprunes>>
  BY <1>6 DEF Unit!ReadArchive, Unit!MarkUnavailable, Unit!Lock, Unit!Persist, Unit!EndOfFile,
     Unit!ParseError, Unit!MarkIngested, Unit!Rank, Unit!Mine, Unit!BeginTurn, Unit!Empty,
     Unit!bounds
<1> QED
  BY <1>0, <1>1, <1>2, <1>3, <1>4, <1>5, <1>6 DEF Unit!Next, Unit!Step

\* Every step of the unit keeps its types and its wakes.
LEMMA UnitStep ==
    ASSUME UnitInv, Unit!Next
    PROVE  UnitInv'
<1>1. WakeInv'
  <2>1. ASSUME NEW p, NEW n, Unit!Prune(p, n)
        PROVE  WakeInv'
    BY <2>1 DEF UnitInv, WakeInv, Unit!Prune
  <2> QED
    BY <2>1, ReadingWakes, TurningWakes DEF Unit!Next, Unit!Step
<1>2. \A w \in Workers : /\ wake'[w].at \in UnitSites
                         /\ wake'[w].seen \in 0..Lines /\ wake'[w].tries \in 0..3
  BY <1>1 DEF WakeInv, Wakes
<1>3. /\ \A p \in Unit!PairSet : /\ stamp'[p] \subseteq Unit!ArchiveSet \X (0..Lines)
                                 /\ mined'[p] \subseteq Unit!ArchiveSet \X (0..Lines)
      /\ stamp' \in Stamps /\ mined' \in Stamps
  BY BaseTyped DEF Stamps
<1>4. Unit!TypeOK'
  BY <1>2, <1>3, BaseTyped, ContentTyped, TurnTyped DEF Unit!TypeOK, PhraseTables, WordTables,
     UnitSites, Unit!Kinds, Unit!PairSet, Unit!ArchiveSet, Unit!Range
<1> QED
  BY <1>1, <1>3, <1>4 DEF UnitInv, Stamps

\* It holds when no archive was read.
LEMMA UnitStart ==
    ASSUME Unit!Init
    PROVE  UnitInv /\ Reading
<1>1. /\ ledger = [a \in Unit!ArchiveSet |-> "none"] /\ rows = [a \in Unit!ArchiveSet |-> 0]
      /\ scratch = [a \in Unit!ArchiveSet |-> 0]
      /\ stamp = [p \in Unit!PairSet |-> {}] /\ mined = [p \in Unit!PairSet |-> {}]
      /\ phrases = [p \in Unit!PairSet |-> [n \in 1..Slots |-> "unmined"]]
      /\ words = [p \in Unit!PairSet |-> [n \in 1..Slots |-> "bare"]]
      /\ turn = "gloss" /\ place = [k \in {"gloss", "phrase_audio"} |-> ""]
      /\ wake = [w \in Workers |-> Unit!Rest]
      /\ faults = 0 /\ kills = 0 /\ uprunes = 0
  BY DEF Unit!Init
<1>2. Lines \in Nat /\ Faults \in Nat /\ Kills \in Nat /\ PrunesOfGlosses \in Nat
  BY UnitAssumption
<1>3. \A w \in Workers : wake[w] = Unit!Rest
  BY <1>1
<1>4. WakeInv
  BY <1>1, <1>3, RestJob DEF WakeInv, Sound
<1>5. stamp \in Stamps /\ mined \in Stamps
  BY <1>1 DEF Stamps
<1>6. Unit!TypeOK
  <2>1. /\ ledger \in [Unit!ArchiveSet -> {"none", "ingested", "unavailable"}]
        /\ rows \in [Unit!ArchiveSet -> 0..Lines] /\ scratch \in [Unit!ArchiveSet -> 0..Lines]
    <3>1. 0 \in 0..Lines
      BY <1>2
    <3> QED
      BY <1>1, <3>1
  <2>5. faults \in 0..Faults /\ kills \in 0..Kills /\ uprunes \in 0..PrunesOfGlosses
    <3>1. \A bound \in Nat : 0 \in 0..bound
      OBVIOUS
    <3> QED
      BY <1>1, <1>2, <3>1
  <2>2. /\ phrases \in PhraseTables /\ words \in WordTables /\ turn \in Unit!Kinds
    BY <1>1 DEF PhraseTables, WordTables, Unit!Kinds
  <2>3. place \in [{"gloss", "phrase_audio"} -> Unit!PairSet \cup {""}]
    BY <1>1
  <2>4. \A w \in Workers : /\ wake[w].at \in UnitSites
                           /\ wake[w].seen \in 0..Lines /\ wake[w].tries \in 0..3
    BY <1>4 DEF WakeInv, Wakes
  <2> QED
    BY <1>1, <2>1, <2>2, <2>3, <2>4, <2>5 DEF Unit!TypeOK, PhraseTables, WordTables, UnitSites
<1>7. Reading
  BY <1>1, <1>3, RestJob DEF Reading, Unit!ArchiveTruthful
<1> QED
  BY <1>4, <1>5, <1>6, <1>7 DEF UnitInv

\* With one invocation at a time, every step keeps what the ledger says true.
LEMMA ReadingStep ==
    ASSUME OneInvocation, UnitInv, Reading, Unit!Next
    PROVE  Reading'
<1> USE DEF UnitInv
<1>0. /\ ledger \in [Unit!ArchiveSet -> {"none", "ingested", "unavailable"}]
      /\ rows \in [Unit!ArchiveSet -> 0..Lines] /\ scratch \in [Unit!ArchiveSet -> 0..Lines]
      /\ Lines \in Nat
  BY UnitAssumption DEF Unit!TypeOK
\* A step that leaves its wake outside the reading, and the ledger and rows as they are.
<1>1. ASSUME NEW w \in Workers, wake'[w].at \notin {"lock", "read", "mark"}, rows' = rows,
             \A a \in Unit!ArchiveSet : ledger'[a] = "ingested" => ledger[a] = "ingested"
      PROVE  Reading'
  BY <1>1 DEF OneInvocation, Reading, Unit!ArchiveTruthful
\* A step of the reading itself.
<1>2. ASSUME NEW w \in Workers, ledger' = ledger, rows' = rows,
             wake'[w].at \in {"lock", "read", "mark"},
             wake'[w].at \in {"lock", "read", "mark"} => scratch'[wake'[w].archive] = Lines,
             wake'[w].at \in {"read", "mark"} => rows'[wake'[w].archive] >= wake'[w].seen,
             wake'[w].at = "mark" => wake'[w].seen = Lines
      PROVE  Reading'
  BY <1>2 DEF OneInvocation, Reading, Unit!ArchiveTruthful
<1>3. ASSUME NEW w \in Workers, Unit!Sleep(w), rows' = rows,
             \A a \in Unit!ArchiveSet : ledger'[a] = "ingested" => ledger[a] = "ingested"
      PROVE  Reading'
  BY <1>1, <1>3, Slept
<1>a. \A w \in Workers : wake[w] \in Wakes /\ Sound(wake[w])
  BY DEF WakeInv
<1>4. ASSUME NEW w \in Workers, Unit!ReadArchive(w)
      PROVE  Reading'
  <2>1. wake'[w].at \in {"missing", "download"} /\ rows' = rows /\ ledger' = ledger
    BY <1>4 DEF Unit!ReadArchive, WakeInv, Unit!Rest
  <2> QED
    BY <1>1, <2>1
<1>5. ASSUME NEW w \in Workers, Unit!MarkUnavailable(w)
      PROVE  Reading'
  BY <1>0, <1>3, <1>5 DEF Unit!MarkUnavailable
<1>6. ASSUME NEW w \in Workers, Unit!Downloaded(w)
      PROVE  Reading'
  <2>1. wake[w].at = "download" /\ wake[w].archive \in Unit!ArchiveSet /\ wake[w].seen = 0
    BY <1>a, <1>6 DEF Unit!Downloaded, Unit!At, Sound
  <2>2. CASE Unit!Sleep(w)
    BY <1>3, <1>6, <2>2 DEF Unit!Downloaded
  <2>3. CASE scratch' = [scratch EXCEPT ![wake[w].archive] = Lines] /\ Unit!Go(w, "lock")
    <3>1. Sound([wake[w] EXCEPT !.at = "lock"])
      BY <1>a, <2>1 DEF Sound, Wakes
    <3>2. wake'[w].at = "lock" /\ wake'[w].archive = wake[w].archive
      BY <2>3, <3>1, Gone DEF UnitSites
    <3>3. scratch'[wake[w].archive] = Lines
      BY <1>0, <2>1, <2>3
    <3> QED
      BY <1>2, <1>6, <3>2, <3>3 DEF Unit!Downloaded
  <2> QED
    BY <1>6, <2>2, <2>3 DEF Unit!Downloaded
<1>7. ASSUME NEW w \in Workers, Unit!Lock(w)
      PROVE  Reading'
  <2>1. wake[w].at = "lock" /\ wake[w].archive \in Unit!ArchiveSet /\ wake[w].seen = 0
        /\ UNCHANGED <<ledger, rows, scratch>>
    BY <1>a, <1>7 DEF Unit!Lock, Unit!At, Sound, Unit!base
  <2>2. CASE Unit!Sleep(w)
    BY <1>3, <2>1, <2>2
  <2>3. CASE Unit!Go(w, "read")
    <3>1. Sound([wake[w] EXCEPT !.at = "read"])
      BY <1>a, <2>1 DEF Sound, Wakes
    <3>2. wake'[w].at = "read" /\ wake'[w].archive = wake[w].archive /\ wake'[w].seen = 0
      BY <2>1, <2>3, <3>1, Gone DEF UnitSites
    <3>3. scratch[wake[w].archive] = Lines /\ rows[wake[w].archive] >= 0
      BY <1>0, <2>1 DEF Reading
    <3> QED
      BY <1>2, <2>1, <3>2, <3>3
  <2> QED
    BY <1>7, <2>2, <2>3 DEF Unit!Lock
<1>8. ASSUME NEW w \in Workers, Unit!Persist(w)
      PROVE  Reading'
  <2> DEFINE a == wake[w].archive
             n == wake[w].seen + 1
  <2>1. /\ wake[w].at = "read" /\ a \in Unit!ArchiveSet /\ n <= scratch[a]
        /\ wake' = [wake EXCEPT ![w].seen = n]
        /\ rows' = [rows EXCEPT ![a] = IF rows[a] < n THEN n ELSE rows[a]]
        /\ ledger' = ledger /\ scratch' = scratch
    BY <1>a, <1>8 DEF Unit!Persist, Unit!At, Sound
  <2>2. scratch[a] = Lines /\ rows[a] \in 0..Lines /\ wake[w].seen \in 0..Lines
    BY <1>0, <1>a, <2>1 DEF Reading, Wakes
  <2>3. wake'[w].at = "read" /\ wake'[w].archive = a /\ wake'[w].seen = n
    BY <1>a, <2>1 DEF WakeInv, Wakes
  <2> HIDE DEF a
  <2>4. rows'[a] >= n /\ \A b \in Unit!ArchiveSet : rows[b] = Lines => rows'[b] = Lines
    BY <1>0, <2>1, <2>2
  <2> QED
    BY <2>1, <2>2, <2>3, <2>4 DEF OneInvocation, Reading, Unit!ArchiveTruthful
<1>9. ASSUME NEW w \in Workers, Unit!EndOfFile(w)
      PROVE  Reading'
  <2>1. /\ wake[w].at = "read" /\ wake[w].archive \in Unit!ArchiveSet
        /\ wake[w].seen >= scratch[wake[w].archive]
        /\ UNCHANGED <<ledger, rows, scratch>>
    BY <1>a, <1>9 DEF Unit!EndOfFile, Unit!ReadToEnd, Unit!At, Sound, Unit!base
  <2>2. CASE Unit!Sleep(w)
    BY <1>3, <2>1, <2>2
  <2>3. CASE Unit!Go(w, "mark")
    <3>1. Sound([wake[w] EXCEPT !.at = "mark"])
      BY <1>a, <2>1 DEF Sound, Wakes
    <3>2. wake'[w].at = "mark" /\ wake'[w].archive = wake[w].archive
          /\ wake'[w].seen = wake[w].seen
      BY <2>3, <3>1, Gone DEF UnitSites
    <3>3. scratch[wake[w].archive] = Lines /\ rows[wake[w].archive] >= wake[w].seen
      BY <2>1 DEF Reading
    <3>4. wake[w].seen \in 0..Lines
      BY <1>a DEF Wakes
    <3>5. wake[w].seen = Lines
      BY <1>0, <2>1, <3>3, <3>4
    <3> QED
      BY <1>2, <2>1, <3>2, <3>3, <3>5
  <2> QED
    BY <1>9, <2>2, <2>3 DEF Unit!EndOfFile
<1>10. ASSUME NEW w \in Workers, Unit!ParseError(w)
       PROVE  Reading'
  BY <1>3, <1>10 DEF Unit!ParseError, Unit!base
<1>11. ASSUME NEW w \in Workers, Unit!MarkIngested(w)
       PROVE  Reading'
  <2> DEFINE a == wake[w].archive
  <2>1. /\ wake[w].at = "mark" /\ a \in Unit!ArchiveSet /\ rows' = rows
        /\ \A b \in Unit!ArchiveSet \ {a} : ledger'[b] = ledger[b]
    BY <1>0, <1>a, <1>11 DEF Unit!MarkIngested, Unit!At, Sound
  <2>2. rows[a] = Lines
    BY <1>0, <2>1 DEF Reading
  <2>3. wake'[w].at = "rest"
    BY <1>11, Slept DEF Unit!MarkIngested
  <2> HIDE DEF a
  <2> QED
    BY <2>1, <2>2, <2>3 DEF OneInvocation, Reading, Unit!ArchiveTruthful
<1>12. ASSUME NEW w \in Workers,
              \/ Unit!Rank(w) \/ Unit!Mine(w) \/ Unit!BeginTurn(w) \/ Unit!Gloss(w)
              \/ Unit!VoicePhrases(w) \/ Unit!WordMedia(w) \/ Unit!Empty(w) \/ Unit!Idle(w)
              \/ Unit!StoreCursor(w) \/ Unit!StoreTurn(w) \/ Unit!Kill(w)
       PROVE  Reading'
  <2>1. UNCHANGED <<ledger, rows, scratch>>
    BY <1>12 DEF Unit!Rank, Unit!Mine, Unit!BeginTurn, Unit!Gloss, Unit!VoicePhrases,
       Unit!WordMedia, Unit!Empty, Unit!Idle, Unit!StoreCursor, Unit!StoreTurn, Unit!Kill,
       Unit!base
  <2>2. CASE UNCHANGED wake
    BY <2>1, <2>2 DEF Reading, Unit!ArchiveTruthful
  <2>3. CASE Unit!Sleep(w)
    BY <1>3, <2>1, <2>3
  <2>4. CASE wake'[w].at \in {"cycle", "cursor", "turn"}
    BY <1>1, <2>1, <2>4
  <2>5. \/ UNCHANGED wake \/ Unit!Sleep(w) \/ wake'[w].at \in {"cycle", "cursor", "turn"}
    <3>1. wake \in [Workers -> Wakes]
      BY DEF WakeInv
    <3>2. CASE Unit!BeginTurn(w)
      BY <3>1, <3>2 DEF Unit!BeginTurn, Unit!Rest
    <3>3. ASSUME NEW p, Unit!Worked(w, p)
          PROVE  wake'[w].at \in {"cycle", "cursor", "turn"}
      BY <3>1, <3>3 DEF Unit!Worked, Wakes
    <3>4. CASE Unit!Retried(w)
      BY <3>1, <3>4 DEF Unit!Retried, Wakes
    <3>5. CASE Unit!Empty(w)
      BY <3>1, <3>5 DEF Unit!Empty, Unit!At, Wakes
    <3>6. CASE Unit!Go(w, "turn")
      BY <3>1, <3>6 DEF Unit!Go, Wakes
    <3> QED
      BY <1>12, <3>2, <3>3, <3>4, <3>5, <3>6 DEF Unit!Rank, Unit!Mine, Unit!Gloss,
         Unit!VoicePhrases, Unit!WordMedia, Unit!Idle, Unit!StoreCursor, Unit!StoreTurn,
         Unit!Kill
  <2> QED
    BY <2>2, <2>3, <2>4, <2>5
<1>13. ASSUME NEW p, NEW n, Unit!Prune(p, n)
       PROVE  Reading'
  BY <1>13 DEF Unit!Prune, Unit!base, Reading, Unit!ArchiveTruthful
<1> QED
  BY <1>4, <1>5, <1>6, <1>7, <1>8, <1>9, <1>10, <1>11, <1>12, <1>13 DEF Unit!Next, Unit!Step

-----------------------------------------------------------------------------
(***************************************************************************)
(* The scenes together                                                     *)
(***************************************************************************)

\* A scene that is not played stands still, with the invariant it had.
LEMMA ScenesKeep ==
    ASSUME UnitInv, BookInv, PictureInv, [Next]_all
    PROVE  UnitInv' /\ BookInv' /\ PictureInv'
<1>1. UNCHANGED book => BookInv'
  <2> SUFFICES ASSUME UNCHANGED book
               PROVE  BookInv'
    OBVIOUS
  <2>1. UNCHANGED <<state, position, skipped, text, gloss, named, clip, clipFile, voicing,
                    prune, raced>>
    BY DEF book
  <2> QED
    BY <2>1 DEF BookInv, Book!TypeOK, VoicingInv, NamedInv, SpellingLockInv, Book!SpokenOnce,
                CalmInv, Book!Holds, Book!Live, Book!SpellingOf
<1>2. UNCHANGED picture => PictureInv'
  <2> SUFFICES ASSUME UNCHANGED picture
               PROVE  PictureInv'
    OBVIOUS
  <2>1. UNCHANGED <<subject, configured, missed, row, files, temp, writer, edits, mishaps,
                    tangled>>
    BY DEF picture
  <2>2. Picture!TypeOK => Picture!TypeOK'
    BY <2>1 DEF Picture!TypeOK, Picture!Paths, Picture!OwnFile
  <2>3. JobInv /\ PathInv /\ PrintLockInv => JobInv' /\ PathInv' /\ PrintLockInv'
    BY <2>1 DEF JobInv, PathInv, PrintLockInv, Picture!Holds
  <2>4. Picture!FetchedOnce /\ TidyInv => Picture!FetchedOnce' /\ TidyInv'
    BY <2>1 DEF Picture!FetchedOnce, TidyInv, Tends, Picture!Referenced
  <2> QED
    BY <2>1, <2>2, <2>3, <2>4 DEF PictureInv
<1>0. UNCHANGED unit => UnitInv'
  <2> SUFFICES ASSUME UNCHANGED unit
               PROVE  UnitInv'
    OBVIOUS
  <2>1. UNCHANGED <<ledger, rows, scratch, stamp, mined, phrases, words, turn, place, wake,
                    faults, kills, uprunes>>
    BY DEF unit
  <2>2. WakeInv => WakeInv'
    BY <2>1 DEF WakeInv
  <2>3. Unit!TypeOK => Unit!TypeOK'
    BY <2>1 DEF Unit!TypeOK, Unit!PairSet, Unit!ArchiveSet, Unit!Range, Unit!Kinds
  <2> QED
    BY <2>1, <2>2, <2>3 DEF UnitInv, Stamps
<1>3. CASE Playing("book") /\ Book!Next
  <2>1. UNCHANGED picture /\ UNCHANGED unit
    BY <1>3 DEF Playing
  <2> QED
    BY <1>0, <1>2, <1>3, <2>1, BookStep
<1>4. CASE Playing("picture") /\ Picture!Next
  <2>1. UNCHANGED book /\ UNCHANGED unit
    BY <1>4 DEF Playing
  <2> QED
    BY <1>0, <1>1, <1>4, <2>1, PictureStep
<1>5. CASE Playing("unit") /\ Unit!Next
  <2>1. UNCHANGED book /\ UNCHANGED picture
    BY <1>5 DEF Playing
  <2> QED
    BY <1>1, <1>2, <1>5, <2>1, UnitStep
<1>6. CASE UNCHANGED all
  BY <1>0, <1>1, <1>2, <1>6 DEF all
<1> QED
  BY <1>3, <1>4, <1>5, <1>6 DEF Next

\* In every behaviour the unit, the books and the pictures keep their invariants.
THEOREM BackgroundInvariant == Spec => [](UnitInv /\ BookInv /\ PictureInv)
<1>1. Init => UnitInv /\ BookInv /\ PictureInv
  BY UnitStart, BookStart, PictureStart DEF Init
<1>2. (UnitInv /\ BookInv /\ PictureInv) /\ [Next]_all
         => (UnitInv /\ BookInv /\ PictureInv)'
  BY ScenesKeep
<1> QED
  BY <1>1, <1>2, PTL DEF Spec

\* Every table, file and request of the background work keeps its type.
THEOREM TypeCorrect == Spec => []TypeOK
<1>1. UnitInv /\ BookInv /\ PictureInv => TypeOK
  BY DEF UnitInv, BookInv, PictureInv, TypeOK
<1> QED
  BY <1>1, BackgroundInvariant, PTL

\* An archive the ledger calls ingested has every line of it in the corpus, whatever
\* was killed while it was read, as long as one invocation runs at a time: a second
\* one empties the scratch file under the first (downloader.rs).
THEOREM ReadWhole == OneInvocation => (Spec => []ArchiveTruthful)
<1> SUFFICES ASSUME OneInvocation
             PROVE  Spec => []ArchiveTruthful
  OBVIOUS
<1>1. Init => Reading
  BY UnitStart DEF Init
<1>2. UnitInv /\ Reading /\ [Next]_all => Reading'
  <2> SUFFICES ASSUME UnitInv, Reading, [Next]_all
               PROVE  Reading'
    OBVIOUS
  <2>1. CASE Unit!Next
    BY <2>1, ReadingStep
  <2>2. CASE UNCHANGED unit
    BY <2>2 DEF unit, Reading, Unit!ArchiveTruthful
  <2> QED
    BY <2>1, <2>2 DEF Next, Playing, all
<1>3. Reading => ArchiveTruthful
  BY DEF Reading, ArchiveTruthful
<1> QED
  BY <1>1, <1>2, <1>3, BackgroundInvariant, PTL DEF Spec

\* No spelling is spoken and no picture downloaded while it is stored, whoever
\* asks at the same time (MediaCache::ensure_sentence, the picture's two looks).
THEOREM OnlyOnce == Spec => []MadeOnce
<1>1. UnitInv /\ BookInv /\ PictureInv => MadeOnce
  BY DEF BookInv, PictureInv, MadeOnce
<1> QED
  BY <1>1, BackgroundInvariant, PTL

\* A row of a book that names a clip finds it, unless a prune ran beside a voicing;
\* and no picture is left that no row names, once every request is over.
THEOREM RowsAndFilesAgree == Spec => []FilesAgree
<1>1. UnitInv /\ BookInv /\ PictureInv => FilesAgree
  <2>1. BookInv => Book!NamedClipsKept
    BY DEF BookInv, CalmInv, Book!NamedClipsKept
  <2>2. PictureInv => Picture!NothingLeftBehind
    BY DEF PictureInv, TidyInv, Tends, Picture!NothingLeftBehind, Picture!On
  <2> QED
    BY <2>1, <2>2 DEF FilesAgree
<1> QED
  BY <1>1, BackgroundInvariant, PTL
===============================================================================
