------------------------- MODULE ImagePipelineProofs -------------------------
(***************************************************************************)
(* Theorems about ImagePipeline, for any images, elements and cuts of the  *)
(* stream: what write_sidecar leaves on the disk and what it returns,      *)
(* whatever fails and whenever the process dies; and that the read loop    *)
(* takes the elements whole, in order, once, and as soon as they are       *)
(* complete.                                                               *)
(***************************************************************************)
EXTENDS ImagePipeline, SequenceTheorems, TLAPS

-----------------------------------------------------------------------------
(* The files *)

\* The parts of a path.  (That "json" is a string need not be known.)
Parts == STRING \cup {"json"}

\* What the files' variables can hold.
DiskTypes ==
    /\ DOMAIN files \subseteq Seq(Parts)
    /\ asked \in Seq(Seq(Parts))
    /\ DOMAIN temps \subseteq 1 .. Len(asked)
    /\ DOMAIN results \subseteq 1 .. Len(asked)
    /\ \A n \in DOMAIN results : results[n] \in BOOLEAN

\* Call n has returned True.
Done(n) == n \in DOMAIN results /\ results[n]

\* Where the latest call is: it has not returned, and what it has in its
\* temporary file is whole before the file is renamed.
UnderWay ==
    /\ step \in {"idle", "made", "dumped", "failed"}
    /\ step # "idle" => Len(asked) \notin DOMAIN results /\ Len(asked) # 0
    /\ step \in {"made", "dumped"} => Len(asked) \in DOMAIN temps
    /\ step = "dumped" => temps[Len(asked)] = Len(asked)

\* A file has an image or the metadata of a call that has returned True; of such
\* a call no temporary file is left, and the sidecar is not older than it.
OnDisk ==
    /\ \A p \in DOMAIN files : files[p] = Image \/ Done(files[p])
    /\ \A p \in DOMAIN files : Sidecar!Contains(p, "fits") => files[p] = Image
    /\ \A n \in DOMAIN results : results[n] =>
         /\ n \notin DOMAIN temps
         /\ LET p == Sidecar!SidecarPath(asked[n])
            IN  p \in DOMAIN files /\ (files[p] = Image \/ files[p] >= n)

DiskInv == DiskTypes /\ UnderWay /\ OnDisk

\* The sidecar's path is a path and has no ".fits" in it.
LEMMA SidecarPathFacts ==
    ASSUME NEW p \in Seq(Parts)
    PROVE  /\ Sidecar!SidecarPath(p) \in Seq(Parts)
           /\ ~Sidecar!Contains(Sidecar!SidecarPath(p), "fits")
<1>1. Sidecar!SidecarPath(p) = [i \in 1 .. Len(p) |-> IF p[i] = "fits" THEN "json" ELSE p[i]]
  BY DEF Sidecar!SidecarPath, Sidecar!ReplaceAll
<1>2. Sidecar!SidecarPath(p) \in Seq(Parts)
  <2>1. \A i \in 1 .. Len(p) : (IF p[i] = "fits" THEN "json" ELSE p[i]) \in Parts
    BY DEF Parts
  <2>2. Sidecar!SidecarPath(p) \in [1 .. Len(p) -> Parts]
    BY <1>1, <2>1
  <2>3. Len(p) \in Nat
    OBVIOUS
  <2>4. QED
    BY <2>2, <2>3
<1>3. \A i \in 1 .. Len(Sidecar!SidecarPath(p)) : Sidecar!SidecarPath(p)[i] # "fits"
  BY <1>1
<1>4. QED
  BY <1>2, <1>3 DEF Sidecar!Contains

\* What the invariant says is what the properties ask for.
LEMMA DiskInvIsEnough ==
    ASSUME DiskInv
    PROVE  FilesWhole /\ ResultIsTrue
<1>1. \A p \in DOMAIN files : files[p] # Partial
  BY ContentsAssumption DEF DiskInv, OnDisk, DiskTypes, Done
<1>2. FilesWhole
  BY <1>1 DEF FilesWhole, Sidecar!FilesWhole, DiskInv, OnDisk
<1>3. ASSUME NEW n \in DOMAIN results, ~results[n], NEW p \in DOMAIN files
      PROVE  files[p] # n
  <2>1. n # Image
    BY ContentsAssumption DEF DiskInv, DiskTypes
  <2>2. QED
    BY <1>3, <2>1 DEF DiskInv, OnDisk, Done
<1>4. ResultIsTrue
  BY <1>3 DEF ResultIsTrue, Sidecar!ResultIsTrue, DiskInv, OnDisk
<1>5. QED
  BY <1>2, <1>4

-----------------------------------------------------------------------------
(* Every step on the disk keeps the invariant. *)

LEMMA WriteImageKeeps ==
    ASSUME DiskInv, NEW p \in Seq(Parts), Sidecar!WriteImage(p)
    PROVE  DiskInv'
<1>1. /\ files' = Sidecar!Put(files, p, Image)
      /\ UNCHANGED <<temps, asked, step, results>>
  BY DEF Sidecar!WriteImage
<1>2. /\ DOMAIN files' = DOMAIN files \cup {p}
      /\ files'[p] = Image
      /\ \A q \in DOMAIN files : q # p => files'[q] = files[q]
  BY <1>1 DEF Sidecar!Put
<1>3. DiskTypes'
  BY <1>1, <1>2 DEF DiskInv, DiskTypes
<1>4. UnderWay'
  BY <1>1 DEF DiskInv, UnderWay
<1>5. OnDisk'
  BY <1>1, <1>2 DEF DiskInv, OnDisk, Done
<1>6. QED
  BY <1>3, <1>4, <1>5 DEF DiskInv

LEMMA MkstempKeeps ==
    ASSUME DiskInv, NEW p \in Seq(Parts), Sidecar!Mkstemp(p)
    PROVE  DiskInv'
<1> DEFINE n == Len(asked) + 1
<1>1. /\ step = "idle" /\ step' = "made"
      /\ asked' = Append(asked, p)
      /\ temps' = Sidecar!Put(temps, Len(asked'), Partial)
      /\ UNCHANGED <<files, results>>
  BY DEF Sidecar!Mkstemp, Sidecar!call
<1>2. /\ Len(asked) \in Nat
      /\ asked' \in Seq(Seq(Parts))
      /\ Len(asked') = n
      /\ \A m \in 1 .. Len(asked) : asked'[m] = asked[m]
  BY <1>1 DEF DiskInv, DiskTypes
<1>3. /\ DOMAIN temps' = DOMAIN temps \cup {n}
      /\ \A m \in DOMAIN temps : m # n => temps'[m] = temps[m]
  BY <1>1, <1>2 DEF Sidecar!Put
<1>4. n \notin DOMAIN results /\ n # 0 /\ n \in 1 .. n
      /\ 1 .. Len(asked) \subseteq 1 .. n
  BY <1>2 DEF DiskInv, DiskTypes
<1> HIDE DEF n
<1>5. DiskTypes'
  BY <1>1, <1>2, <1>3, <1>4 DEF DiskInv, DiskTypes
<1>6. UnderWay'
  BY <1>1, <1>2, <1>3, <1>4 DEF UnderWay
<1>7. \A m \in DOMAIN results : asked'[m] = asked[m] /\ m # n
  BY <1>2, <1>4 DEF DiskInv, DiskTypes
<1>8. OnDisk'
  BY <1>1, <1>3, <1>7 DEF DiskInv, OnDisk, Done
<1>9. QED
  BY <1>5, <1>6, <1>8 DEF DiskInv

\* A call that has nothing on the disk, or leaves at most its temporary file,
\* returns False.
LEMMA FailureKeeps ==
    ASSUME DiskInv, NEW n,
           asked' \in Seq(Seq(Parts)),
           Len(asked') = n, n # 0, Len(asked) <= n,
           \A m \in 1 .. Len(asked) : asked'[m] = asked[m],
           n \notin DOMAIN results,
           results' = Sidecar!Put(results, n, FALSE),
           step' = "idle", UNCHANGED files,
           DOMAIN temps' \subseteq DOMAIN temps
    PROVE  DiskInv'
<1>1. /\ DOMAIN results' = DOMAIN results \cup {n}
      /\ results'[n] = FALSE
      /\ \A m \in DOMAIN results : results'[m] = results[m]
  BY DEF Sidecar!Put
<1>2. n \in 1 .. n /\ 1 .. Len(asked) \subseteq 1 .. n
  BY DEF DiskInv, DiskTypes
<1>3. DiskTypes'
  BY <1>1, <1>2 DEF DiskInv, DiskTypes
<1>4. UnderWay'
  BY DEF UnderWay
<1>5. \A m \in DOMAIN results : asked'[m] = asked[m]
  BY DEF DiskInv, DiskTypes
<1>6. OnDisk'
  BY <1>1, <1>5 DEF DiskInv, OnDisk, Done
<1>7. QED
  BY <1>3, <1>4, <1>6 DEF DiskInv

LEMMA MkstempFailsKeeps ==
    ASSUME DiskInv, NEW p \in Seq(Parts), Sidecar!MkstempFails(p)
    PROVE  DiskInv'
<1>1. /\ asked' = Append(asked, p)
      /\ results' = Sidecar!Put(results, Len(asked'), FALSE)
      /\ step' = "idle"
      /\ UNCHANGED <<files, temps>>
  BY DEF Sidecar!MkstempFails, Sidecar!Return, Sidecar!call
<1>2. /\ Len(asked) \in Nat
      /\ asked' \in Seq(Seq(Parts))
      /\ Len(asked') = Len(asked) + 1
      /\ \A m \in 1 .. Len(asked) : asked'[m] = asked[m]
  BY <1>1 DEF DiskInv, DiskTypes
<1>3. Len(asked') # 0 /\ Len(asked) <= Len(asked') /\ Len(asked') \notin DOMAIN results
  BY <1>2 DEF DiskInv, DiskTypes
<1>4. QED
  BY <1>1, <1>2, <1>3, FailureKeeps

LEMMA DumpKeeps ==
    ASSUME DiskInv, Sidecar!Dump
    PROVE  DiskInv'
<1>1. /\ step = "made" /\ step' = "dumped"
      /\ temps' = [temps EXCEPT ![Len(asked)] = Len(asked)]
      /\ UNCHANGED <<files, asked, results>>
  BY DEF Sidecar!Dump, Sidecar!call
<1>2. DOMAIN temps' = DOMAIN temps
  BY <1>1
<1>3. DiskTypes'
  BY <1>1, <1>2 DEF DiskInv, DiskTypes
<1>4. temps'[Len(asked)] = Len(asked)
  BY <1>1 DEF DiskInv, UnderWay
<1>5. UnderWay'
  BY <1>1, <1>2, <1>4 DEF DiskInv, UnderWay
<1>6. OnDisk'
  BY <1>1, <1>2 DEF DiskInv, OnDisk, Done
<1>7. QED
  BY <1>3, <1>5, <1>6 DEF DiskInv

LEMMA WriteFailsKeeps ==
    ASSUME DiskInv, Sidecar!WriteFails
    PROVE  DiskInv'
BY DEF Sidecar!WriteFails, DiskInv, DiskTypes, UnderWay, OnDisk, Done

LEMMA CrashKeeps ==
    ASSUME DiskInv, Sidecar!Crash
    PROVE  DiskInv'
BY DEF Sidecar!Crash, DiskInv, DiskTypes, UnderWay, OnDisk, Done

LEMMA CleanUpKeeps ==
    ASSUME DiskInv, Sidecar!CleanUp
    PROVE  DiskInv'
<1>1. /\ step = "failed" /\ step' = "idle"
      /\ temps' \in {temps, Sidecar!Without(temps, Len(asked))}
      /\ UNCHANGED <<files, asked>>
      /\ results' = Sidecar!Put(results, Len(asked), FALSE)
  BY DEF Sidecar!CleanUp, Sidecar!Return, Sidecar!call
<1>2. Len(asked) \in Nat /\ asked \in Seq(Seq(Parts))
  BY DEF DiskInv, DiskTypes
<1>3. Len(asked) # 0 /\ Len(asked) \notin DOMAIN results
  BY <1>1 DEF DiskInv, UnderWay
<1>4. DOMAIN temps' \subseteq DOMAIN temps
  BY <1>1 DEF Sidecar!Without, Sidecar!Restrict
<1>5. /\ asked' \in Seq(Seq(Parts)) /\ Len(asked') = Len(asked)
      /\ Len(asked) <= Len(asked)
      /\ \A m \in 1 .. Len(asked) : asked'[m] = asked[m]
  BY <1>1, <1>2
<1>6. QED
  BY <1>1, <1>3, <1>4, <1>5, FailureKeeps

LEMMA RenameKeeps ==
    ASSUME DiskInv, Sidecar!Rename
    PROVE  DiskInv'
<1> DEFINE n == Len(asked)
           q == Sidecar!SidecarPath(asked[n])
<1>1. /\ step = "dumped" /\ step' = "idle"
      /\ files' = Sidecar!Put(files, q, temps[n])
      /\ temps' = Sidecar!Without(temps, n)
      /\ asked' = asked
      /\ results' = Sidecar!Put(results, n, TRUE)
  BY DEF Sidecar!Rename, Sidecar!Return, Sidecar!call, Sidecar!target
<1>2. /\ n \in Nat /\ n # 0 /\ n \notin DOMAIN results
      /\ temps[n] = n
      /\ asked[n] \in Seq(Parts)
      /\ DOMAIN results \subseteq 1 .. n
      /\ DOMAIN files \subseteq Seq(Parts)
  BY <1>1 DEF DiskInv, DiskTypes, UnderWay
<1>3. q \in Seq(Parts) /\ ~Sidecar!Contains(q, "fits")
  BY <1>2, SidecarPathFacts
<1>4. \A m \in DOMAIN results : results[m] => 
         /\ m \notin DOMAIN temps
         /\ Sidecar!SidecarPath(asked[m]) \in DOMAIN files
         /\ \/ files[Sidecar!SidecarPath(asked[m])] = Image
            \/ files[Sidecar!SidecarPath(asked[m])] >= m
  BY DEF DiskInv, OnDisk
<1> HIDE DEF n, q
<1>5. /\ DOMAIN files' = DOMAIN files \cup {q}
      /\ files'[q] = n
      /\ \A p \in DOMAIN files : p # q => files'[p] = files[p]
  BY <1>1, <1>2 DEF Sidecar!Put
<1>6. /\ DOMAIN results' = DOMAIN results \cup {n}
      /\ results'[n] = TRUE
      /\ \A m \in DOMAIN results : results'[m] = results[m]
  BY <1>1, <1>2 DEF Sidecar!Put
<1>7. DOMAIN temps' = DOMAIN temps \ {n}
  BY <1>1 DEF Sidecar!Without, Sidecar!Restrict
<1>8. n \in 1 .. n
  BY <1>2
<1>9. DiskTypes'
  BY <1>1, <1>2, <1>3, <1>5, <1>6, <1>7, <1>8 DEF DiskInv, DiskTypes, n
<1>10. UnderWay'
  BY <1>1 DEF UnderWay
<1>11. ASSUME NEW p \in DOMAIN files'
       PROVE  files'[p] = Image \/ (files'[p] \in DOMAIN results' /\ results'[files'[p]])
  BY <1>2, <1>5, <1>6 DEF DiskInv, OnDisk, Done
<1>12. \A p \in DOMAIN files' : Sidecar!Contains(p, "fits") => files'[p] = Image
  BY <1>3, <1>5 DEF DiskInv, OnDisk
<1>13. ASSUME NEW m \in DOMAIN results', results'[m]
       PROVE  /\ m \notin DOMAIN temps'
              /\ Sidecar!SidecarPath(asked'[m]) \in DOMAIN files'
              /\ \/ files'[Sidecar!SidecarPath(asked'[m])] = Image
                 \/ files'[Sidecar!SidecarPath(asked'[m])] >= m
  <2>1. CASE m = n
    BY <1>1, <1>2, <1>5, <1>7, <2>1 DEF q
  <2>2. CASE m # n
    <3>1. m \in DOMAIN results /\ results[m] /\ m <= n
      BY <1>2, <1>6, <1>13, <2>2
    <3>2. QED
      BY <1>1, <1>2, <1>4, <1>5, <1>7, <3>1
  <2>3. QED
    BY <2>1, <2>2
<1>14. OnDisk'
  BY <1>11, <1>12, <1>13 DEF OnDisk, Done
<1>15. QED
  BY <1>9, <1>10, <1>14 DEF DiskInv

-----------------------------------------------------------------------------
\* Whatever happens to the process and the disk: every file is whole, what is
\* named as an image is an image, and what write_sidecar returned is so.
LEMMA DiskInvariant == Spec => []DiskInv
<1>1. Init => DiskInv
  BY DEF Init, Sidecar!InitFiles, DiskInv, DiskTypes, UnderWay, OnDisk
<1>2. DiskInv /\ [Next]_vars => DiskInv'
  <2> SUFFICES ASSUME DiskInv, [Next]_vars
               PROVE  DiskInv'
    OBVIOUS
  <2>1. ASSUME UNCHANGED <<files, temps, asked, step, results>>
        PROVE  DiskInv'
    BY <2>1 DEF DiskInv, DiskTypes, UnderWay, OnDisk, Done
  <2>2. ASSUME NEW p \in Paths, Shoot(p)
        PROVE  DiskInv'
    <3>1. p \in Seq(STRING)
      BY PathsAssumption
    <3>2. p \in Seq(Parts)
      BY <3>1 DEF Parts
    <3>3. QED
      BY <2>2, <3>2, WriteImageKeeps DEF Shoot
  <2>3. CASE HandleElement
    <3>1. ASSUME NEW p, HandleImage(p)
          PROVE  DiskInv'
      <4>1. CASE UNCHANGED sidecarVars
        BY <2>1, <4>1 DEF sidecarVars
      <4>2. CASE IsFile(p) /\ (Sidecar!Mkstemp(p) \/ Sidecar!MkstempFails(p))
        <5>1. p \in Seq(Parts)
          BY <4>2 DEF IsFile, DiskInv, DiskTypes
        <5>2. QED
          BY <4>2, <5>1, MkstempKeeps, MkstempFailsKeeps
      <4>3. QED
        BY <3>1, <4>1, <4>2 DEF HandleImage
    <3>2. QED
      BY <2>1, <2>3, <3>1 DEF HandleElement, sidecarVars
  <2>4. CASE Write
    BY <2>4, DumpKeeps, WriteFailsKeeps, RenameKeeps, CleanUpKeeps
       DEF Write, Sidecar!WriteStep
  <2>5. CASE Die
    BY <2>5, CrashKeeps DEF Die
  <2>6. QED
    BY <2>1, <2>2, <2>3, <2>4, <2>5
       DEF Next, SayOther, Read, LinkLost, Reconnect, sidecarVars, vars
<1>3. QED
  BY <1>1, <1>2, PTL DEF Spec

\* Another program that reads the directory at any moment, after a crash too,
\* never finds a half written file under a name it may look for, nor metadata
\* under the name of an image.
THEOREM FilesStayWhole == Spec => []FilesWhole
BY DiskInvariant, DiskInvIsEnough, PTL

\* The capture service may believe write_sidecar: True means that the metadata
\* of that call or of a later one are beside the image and no temporary file is
\* left, False means that no file has anything of that call.
THEOREM ResultsAreTrue == Spec => []ResultIsTrue
BY DiskInvariant, DiskInvIsEnough, PTL

-----------------------------------------------------------------------------
(* The end of an element *)

\* What can be in the buffer.
Symbols == STRING \cup {"?"} \cup Xml!Blanks

\* h is what became of the symbol x.
Like(h, x) == h = x \/ (h = "?" /\ x \in {"e1", "e2"})

\* The text s begins like e, as far as it goes.
Begins(s, e) == \A i \in 1 .. Len(s) : i <= Len(e) => Like(s[i], e[i])

\* The opening tag of e ends at "tag", its name before "name".
Opening(e, tag, name) ==
    /\ tag \in 2 .. Len(e) /\ name \in 2 .. tag
    /\ e[1] = "<"
    /\ e[tag] = ">" /\ \A i \in 1 .. tag - 1 : e[i] # ">"
    /\ e[name] \in {"sp", ">"} /\ \A i \in 1 .. name - 1 : e[i] \notin {"sp", ">"}

\* The least element of a set of numbers.
LEMMA MinIs ==
    ASSUME NEW S \in SUBSET Nat, NEW m \in S, \A y \in S : m <= y
    PROVE  Xml!Min(S) = m
<1>1. Xml!Min(S) \in S /\ \A y \in S : Xml!Min(S) <= y
  BY DEF Xml!Min
<1>2. Xml!Min(S) \in Nat /\ m \in Nat /\ Xml!Min(S) <= m /\ m <= Xml!Min(S)
  BY <1>1
<1>3. QED
  BY <1>2

\* Where a sequence has a symbol.
LEMMA PlacesAre ==
    ASSUME NEW s \in Seq(Symbols), NEW x
    PROVE  /\ Xml!Places(s, x) \in SUBSET Nat
           /\ \A i : i \in Xml!Places(s, x) <=> i \in 1 .. Len(s) /\ s[i] = x
BY DEF Xml!Places

\* What the code finds of the opening tag, if it has come in full.
LEMMA OpeningFound ==
    ASSUME NEW s \in Seq(Symbols), NEW tag \in Nat, NEW name \in Nat, Opening(s, tag, name)
    PROVE  /\ Xml!Places(s, ">") # {}
           /\ Xml!TagEnd(s) = tag
           /\ Xml!TagName(s) = SubSeq(s, 2, name - 1)
           /\ Xml!SelfClosing(s) <=> s[tag - 1] = "/"
<1> DEFINE N == Xml!Places(s, "sp") \cup Xml!Places(s, ">")
<1>a. tag \in 2 .. Len(s) /\ name \in 2 .. tag
  BY DEF Opening
<1>0. /\ s[tag] = ">" /\ s[name] \in {"sp", ">"}
      /\ \A i \in 1 .. tag - 1 : s[i] # ">"
      /\ \A i \in 1 .. name - 1 : s[i] \notin {"sp", ">"}
  BY DEF Opening
<1>1. Len(s) \in Nat /\ tag \in 1 .. Len(s) /\ name \in 1 .. Len(s) /\ 1 < tag
  BY <1>a
<1>2. tag \in Xml!Places(s, ">") /\ name \in N
  BY <1>0, <1>1, PlacesAre
<1>3. ASSUME NEW y \in Xml!Places(s, ">") PROVE tag <= y
  <2>1. y \in 1 .. Len(s) /\ s[y] = ">"
    BY PlacesAre
  <2>2. ~(y \in 1 .. tag - 1)
    BY <1>0, <2>1
  <2>3. QED
    BY <1>1, <2>1, <2>2
<1>4. Xml!TagEnd(s) = tag
  BY <1>2, <1>3, MinIs, PlacesAre DEF Xml!TagEnd
<1>5. ASSUME NEW y \in N PROVE name <= y
  <2>1. y \in 1 .. Len(s)
    BY PlacesAre
  <2>2. s[y] \in {"sp", ">"}
    BY PlacesAre
  <2>3. ~(y \in 1 .. name - 1)
    BY <1>0, <2>2
  <2>4. QED
    BY <1>1, <2>1, <2>3
<1>6. N \in SUBSET Nat
  BY PlacesAre
<1>7. Xml!Min(N) = name
  <2> HIDE DEF N
  <2>1. QED
    BY <1>2, <1>5, <1>6, MinIs
<1>8. Xml!TagName(s) = SubSeq(s, 2, name - 1)
  BY <1>7 DEF Xml!TagName
<1>9. Xml!SelfClosing(s) <=> s[tag - 1] = "/"
  BY <1>1, <1>4 DEF Xml!SelfClosing
<1>10. QED
  BY <1>2, <1>4, <1>8, <1>9

\* Three sequences in a row.
LEMMA InARow ==
    ASSUME NEW S, NEW a \in Seq(S), NEW b \in Seq(S), NEW c \in Seq(S)
    PROVE  /\ a \o b \o c \in Seq(S)
           /\ Len(a \o b \o c) = Len(a) + Len(b) + Len(c)
           /\ \A k \in 1 .. Len(a) : (a \o b \o c)[k] = a[k]
           /\ \A k \in 1 .. Len(b) : (a \o b \o c)[Len(a) + k] = b[k]
           /\ \A k \in 1 .. Len(c) : (a \o b \o c)[Len(a) + Len(b) + k] = c[k]
<1>1. Len(a) \in Nat /\ Len(b) \in Nat /\ Len(c) \in Nat
  OBVIOUS
<1>2. /\ a \o b \in Seq(S)
      /\ Len(a \o b) = Len(a) + Len(b)
      /\ \A k \in 1 .. Len(a) : (a \o b)[k] = a[k]
      /\ \A k \in 1 .. Len(b) : (a \o b)[Len(a) + k] = b[k]
  BY <1>1, ConcatProperties
<1> DEFINE ab == a \o b
<1> HIDE DEF ab
<1>3. /\ ab \o c \in Seq(S)
      /\ Len(ab \o c) = Len(ab) + Len(c)
      /\ \A k \in 1 .. Len(ab) : (ab \o c)[k] = ab[k]
      /\ \A k \in 1 .. Len(c) : (ab \o c)[Len(ab) + k] = c[k]
  BY <1>1, <1>2, ConcatProperties DEF ab
<1>4. QED
  BY <1>1, <1>2, <1>3 DEF ab

\* Where the code finds the closing tag.
LEMMA ClosingFound ==
    ASSUME NEW s \in Seq(Symbols), NEW tag \in Nat, NEW name \in Nat, Opening(s, tag, name)
    PROVE  /\ Len(Xml!TagName(s)) = name - 2
           /\ Xml!Closings(s) = {i \in tag .. Len(s) - name : Xml!ClosesAt(s, i, name)}
<1> DEFINE word == SubSeq(s, 2, name - 1)
           lead == <<"<", "/">>
           last == <<">">>
           pattern == lead \o word \o last
           Any == Symbols \cup {"<", "/", ">"}
<1>0. tag \in 2 .. Len(s) /\ name \in 2 .. tag
  BY DEF Opening
<1>1. Len(s) \in Nat /\ tag \in 2 .. Len(s) /\ name \in 2 .. Len(s)
  BY <1>0
<1>2. word \in Seq(Any) /\ Len(word) = name - 2
      /\ \A k \in 1 .. name - 2 : word[k] = s[k + 1]
  BY <1>1
<1>3. lead \in Seq(Any) /\ Len(lead) = 2 /\ lead[1] = "<" /\ lead[2] = "/"
      /\ last \in Seq(Any) /\ Len(last) = 1 /\ last[1] = ">"
  OBVIOUS
<1>4. /\ pattern \in Seq(Any)
      /\ Len(pattern) = Len(lead) + Len(word) + Len(last)
      /\ \A k \in 1 .. Len(lead) : pattern[k] = lead[k]
      /\ \A k \in 1 .. Len(word) : pattern[Len(lead) + k] = word[k]
      /\ \A k \in 1 .. Len(last) : pattern[Len(lead) + Len(word) + k] = last[k]
  <2> HIDE DEF lead, word, last, Any
  <2>1. lead \in Seq(Any) /\ word \in Seq(Any) /\ last \in Seq(Any)
    BY <1>2, <1>3
  <2>2. /\ lead \o word \o last \in Seq(Any)
        /\ Len(lead \o word \o last) = Len(lead) + Len(word) + Len(last)
        /\ \A k \in 1 .. Len(lead) : (lead \o word \o last)[k] = lead[k]
        /\ \A k \in 1 .. Len(word) : (lead \o word \o last)[Len(lead) + k] = word[k]
        /\ \A k \in 1 .. Len(last) : (lead \o word \o last)[Len(lead) + Len(word) + k] = last[k]
    BY <2>1, InARow
  <2>3. QED
    BY <2>2
<1>5. pattern \in Seq(Any) /\ Len(pattern) = name + 1
      /\ pattern[1] = "<" /\ pattern[2] = "/" /\ pattern[name + 1] = ">"
      /\ \A k \in 2 .. name - 1 : pattern[k + 1] = s[k]
  <2> HIDE DEF pattern, word, lead, last, Any
  <2>1. Len(pattern) = name + 1 /\ pattern[1] = "<" /\ pattern[2] = "/"
    BY <1>1, <1>2, <1>3, <1>4
  <2>2. pattern[2 + (name - 2) + 1] = ">"
    BY <1>1, <1>2, <1>3, <1>4
  <2>3. ASSUME NEW k \in 2 .. name - 1 PROVE pattern[k + 1] = s[k]
    <3>1. k - 1 \in 1 .. name - 2 /\ 2 + (k - 1) = k + 1 /\ (k - 1) + 1 = k
      BY <1>1
    <3>2. pattern[Len(lead) + (k - 1)] = word[k - 1] /\ word[k - 1] = s[(k - 1) + 1]
      BY <1>2, <1>4, <3>1
    <3>3. QED
      BY <1>3, <3>1, <3>2
  <2>4. QED
    BY <1>1, <1>4, <2>1, <2>2, <2>3
<1>6. ASSUME NEW i \in tag .. Len(s) - name
      PROVE  SubSeq(s, i, i + name) = pattern <=> Xml!ClosesAt(s, i, name)
  <2> HIDE DEF pattern, Any
  <2>1. SubSeq(s, i, i + name) \in Seq(Symbols) /\ Len(SubSeq(s, i, i + name)) = name + 1
        /\ \A k \in 1 .. name + 1 : SubSeq(s, i, i + name)[k] = s[i + k - 1]
    BY <1>1
  <2>2. SubSeq(s, i, i + name) = pattern
          <=> \A k \in 1 .. name + 1 : s[i + k - 1] = pattern[k]
    <3>1. ASSUME \A k \in 1 .. name + 1 : s[i + k - 1] = pattern[k]
          PROVE  SubSeq(s, i, i + name) = pattern
      <4>1. \A k \in 1 .. name + 1 : SubSeq(s, i, i + name)[k] = pattern[k]
        BY <2>1, <3>1
      <4>2. QED
        BY <1>5, <2>1, <4>1, SeqEqual
    <3>2. QED
      BY <2>1, <3>1
  <2>3. ASSUME \A k \in 1 .. name + 1 : s[i + k - 1] = pattern[k]
        PROVE  Xml!ClosesAt(s, i, name)
    <3>1. s[i] = "<" /\ s[i + 1] = "/" /\ s[i + name] = ">"
      BY <1>1, <1>5, <2>3
    <3>2. ASSUME NEW k \in 2 .. name - 1 PROVE s[i + k] = s[k]
      <4>1. k + 1 \in 1 .. name + 1 /\ i + (k + 1) - 1 = i + k
        BY <1>1
      <4>2. QED
        BY <1>5, <2>3, <4>1
    <3>3. QED
      BY <3>1, <3>2 DEF Xml!ClosesAt
  <2>4. ASSUME Xml!ClosesAt(s, i, name), NEW k \in 1 .. name + 1
        PROVE  s[i + k - 1] = pattern[k]
    <3>1. CASE k = 1
      BY <1>5, <2>4, <3>1 DEF Xml!ClosesAt
    <3>2. CASE k = 2
      BY <1>5, <2>4, <3>2 DEF Xml!ClosesAt
    <3>3. CASE k = name + 1
      BY <1>1, <1>5, <2>4, <3>3 DEF Xml!ClosesAt
    <3>4. CASE k - 1 \in 2 .. name - 1
      <4>1. s[i + (k - 1)] = s[k - 1] /\ pattern[(k - 1) + 1] = s[k - 1]
        BY <1>5, <2>4, <3>4 DEF Xml!ClosesAt
      <4>2. (k - 1) + 1 = k /\ i + (k - 1) = i + k - 1
        BY <1>1
      <4>3. QED
        BY <4>1, <4>2
    <3>5. QED
      BY <1>1, <3>1, <3>2, <3>3, <3>4
  <2>5. QED
    BY <2>2, <2>3, <2>4
<1>7. Xml!TagName(s) = word /\ Xml!TagEnd(s) = tag
  BY OpeningFound
<1>8. Xml!Closings(s) = {i \in tag .. Len(s) - (name + 1) + 1 :
                           SubSeq(s, i, i + (name + 1) - 1) = pattern}
  BY <1>5, <1>7 DEF Xml!Closings, Xml!Finds
<1>9. Len(s) - (name + 1) + 1 = Len(s) - name
      /\ \A i \in tag .. Len(s) - name : i + (name + 1) - 1 = i + name
  BY <1>1
<1>10. Xml!Closings(s) = {i \in tag .. Len(s) - name : SubSeq(s, i, i + name) = pattern}
  BY <1>8, <1>9
<1>11. QED
  BY <1>2, <1>6, <1>7, <1>10

\* Text that begins like an element is closed where the element is.
LEMMA SameClosings ==
    ASSUME NEW s \in Seq(Symbols), NEW e \in Seq(STRING), Begins(s, e),
           NEW tag \in Nat, NEW name \in Nat, Opening(e, tag, name),
           \A k \in 1 .. name - 1 : e[k] \notin {"e1", "e2", "?"},
           NEW i \in 1 .. Len(s) - name, i + name <= Len(e)
    PROVE  Xml!ClosesAt(s, i, name) <=> Xml!ClosesAt(e, i, name)
<1>1. tag \in 2 .. Len(e) /\ name \in 2 .. tag
  BY DEF Opening
<1>2. Len(s) \in Nat /\ Len(e) \in Nat
  OBVIOUS
<1>3. \A k \in 0 .. name : i + k \in 1 .. Len(s) /\ i + k <= Len(e)
  BY <1>1, <1>2
<1>4. \A k \in 0 .. name : Like(s[i + k], e[i + k])
  BY <1>3 DEF Begins
<1>5. i + 0 = i /\ 0 \in 0 .. name /\ 1 \in 0 .. name /\ name \in 0 .. name
  BY <1>1
<1>6. /\ s[i] = "<" <=> e[i] = "<"
      /\ s[i + 1] = "/" <=> e[i + 1] = "/"
      /\ s[i + name] = ">" <=> e[i + name] = ">"
  BY <1>4, <1>5 DEF Like
<1>7. ASSUME NEW k \in 2 .. name - 1
      PROVE  s[i + k] = s[k] <=> e[i + k] = e[k]
  <2>1. k \in 0 .. name /\ k \in 1 .. Len(s) /\ k <= Len(e) /\ k \in 1 .. name - 1
    BY <1>1, <1>2
  <2>2. e[k] \notin {"e1", "e2", "?"} /\ Like(s[k], e[k]) /\ Like(s[i + k], e[i + k])
    BY <1>4, <2>1 DEF Begins
  <2>3. QED
    BY <2>2 DEF Like
<1>8. QED
  BY <1>6, <1>7 DEF Xml!ClosesAt

\* The client finds the end of an element as soon as it has come in full, and
\* none before.
LEMMA ElementFound ==
    ASSUME NEW e, Xml!IsElement(e), NEW s \in Seq(Symbols), Begins(s, e)
    PROVE  /\ e \in Seq(STRING) /\ Len(e) \in Nat \ {0} /\ e[1] = "<"
           /\ Len(s) < Len(e) => Xml!ElementEnd(s) = 0
           /\ Len(s) >= Len(e) => Xml!ElementEnd(s) = Len(e)
<1>1. e \in Seq(STRING)
  BY DEF Xml!IsElement
<1>a. DOMAIN e = 1 .. Len(e)
  BY <1>1
<1>2. PICK tag \in DOMAIN e, name \in DOMAIN e :
         /\ e[1] = "<"
         /\ e[tag] = ">" /\ \A i \in 1 .. tag - 1 : e[i] # ">"
         /\ e[name] \in {"sp", ">"} /\ \A i \in 1 .. name - 1 : e[i] \notin {"sp", ">"}
         /\ \A i \in 1 .. name - 1 : e[i] \notin {"e1", "e2", "?"}
         /\ \/ e[tag - 1] = "/" /\ tag = Len(e)
            \/ /\ e[tag - 1] # "/" /\ tag <= Len(e) - name
               /\ Xml!ClosesAt(e, Len(e) - name, name)
               /\ \A i \in tag .. Len(e) - name - 1 : ~Xml!ClosesAt(e, i, name)
  BY Zenon DEF Xml!IsElement
<1>3. /\ Len(e) \in Nat /\ Len(s) \in Nat
      /\ tag \in 1 .. Len(e) /\ name \in 1 .. Len(e)
  BY <1>1, <1>a
<1>b. tag \in Nat /\ name \in Nat
  BY <1>3
<1>4. tag # 1 /\ name # 1
  BY <1>2
<1>5. ~(tag \in 1 .. name - 1)
  BY <1>2
<1>6. tag \in 2 .. Len(e) /\ name \in 2 .. tag
  BY <1>3, <1>4, <1>5
<1>7. Opening(e, tag, name)
  BY <1>2, <1>6 DEF Opening
<1>8. \A i \in 1 .. Len(s) : i <= Len(e) => Like(s[i], e[i])
  BY DEF Begins
<1>9. CASE Len(s) < tag
  <2>1. ASSUME NEW i \in 1 .. Len(s) PROVE s[i] # ">"
    <3>1. i \in 1 .. tag - 1 /\ i <= Len(e)
      BY <1>3, <1>6, <1>9
    <3>2. e[i] # ">" /\ Like(s[i], e[i])
      BY <1>2, <1>8, <3>1
    <3>3. QED
      BY <3>2 DEF Like
  <2>2. Xml!Places(s, ">") = {}
    BY <2>1, PlacesAre
  <2>3. Xml!ElementEnd(s) = 0
    BY <2>2 DEF Xml!ElementEnd
  <2>4. QED
    BY <1>1, <1>2, <1>3, <1>6, <1>9, <2>3
<1>10. CASE Len(s) >= tag
  <2>1. /\ tag \in 1 .. Len(s) /\ name \in 1 .. Len(s) /\ tag - 1 \in 1 .. Len(s)
        /\ \A i \in 1 .. tag : i \in 1 .. Len(s) /\ i <= Len(e)
        /\ \A i \in 1 .. tag - 1 : i \in 1 .. tag
        /\ \A i \in 1 .. name - 1 : i \in 1 .. tag
        /\ 1 \in 1 .. tag /\ name \in 1 .. tag /\ tag \in 1 .. tag /\ tag - 1 \in 1 .. tag
    BY <1>3, <1>6, <1>10
  <2>2. \A i \in 1 .. tag : Like(s[i], e[i])
    BY <1>8, <2>1
  <2>3. s[1] = "<" /\ s[tag] = ">" /\ s[name] \in {"sp", ">"}
    BY <1>2, <2>1, <2>2 DEF Like
  <2>4. \A i \in 1 .. tag - 1 : s[i] # ">"
    BY <1>2, <2>1, <2>2 DEF Like
  <2>5. \A i \in 1 .. name - 1 : s[i] \notin {"sp", ">"}
    BY <1>2, <2>1, <2>2 DEF Like
  <2>6. s[tag - 1] = "/" <=> e[tag - 1] = "/"
    BY <2>1, <2>2 DEF Like
  <2>7. tag \in 2 .. Len(s)
    BY <1>3, <1>6, <1>10
  <2>8. Opening(s, tag, name)
    BY <1>6, <2>3, <2>4, <2>5, <2>7 DEF Opening
  <2>9. /\ Xml!Places(s, ">") # {} /\ Xml!TagEnd(s) = tag
        /\ Xml!SelfClosing(s) <=> e[tag - 1] = "/"
    BY <1>b, <2>6, <2>8, OpeningFound
  <2>10. s # <<>>
    BY <1>3, <2>7
  <2>11. CASE e[tag - 1] = "/" /\ tag = Len(e)
    <3>1. Xml!ElementEnd(s) = tag
      BY <2>3, <2>9, <2>10, <2>11 DEF Xml!ElementEnd
    <3>2. QED
      BY <1>1, <1>2, <1>3, <1>6, <1>10, <2>11, <3>1
  <2>12. CASE /\ e[tag - 1] # "/" /\ tag <= Len(e) - name
              /\ Xml!ClosesAt(e, Len(e) - name, name)
              /\ \A i \in tag .. Len(e) - name - 1 : ~Xml!ClosesAt(e, i, name)
    <3> DEFINE C == Xml!Closings(s)
    <3>1. C = {i \in tag .. Len(s) - name : Xml!ClosesAt(s, i, name)}
          /\ Len(Xml!TagName(s)) = name - 2
      BY <1>b, <2>8, ClosingFound
    <3>2. ASSUME NEW i \in tag .. Len(s) - name, i + name <= Len(e)
          PROVE  Xml!ClosesAt(s, i, name) <=> Xml!ClosesAt(e, i, name)
      <4>1. i \in 1 .. Len(s) - name
        BY <1>3, <1>6
      <4>2. \A k \in 1 .. name - 1 : e[k] \notin {"e1", "e2", "?"}
        BY <1>2
      <4>3. QED
        BY <1>1, <1>7, <1>b, <3>2, <4>1, <4>2, SameClosings
    <3>3. ASSUME NEW i \in C PROVE Len(e) - name <= i
      <4>1. i \in tag .. Len(s) - name /\ Xml!ClosesAt(s, i, name)
        BY <3>1
      <4>2. SUFFICES ASSUME i < Len(e) - name PROVE FALSE
        BY <1>3, <1>6, <4>1
      <4>3. i + name <= Len(e) /\ i \in tag .. Len(e) - name - 1
        BY <1>3, <1>6, <4>1, <4>2
      <4>4. QED
        BY <2>12, <3>2, <4>1, <4>3
    <3>4. ASSUME Len(s) < Len(e) PROVE Xml!ElementEnd(s) = 0
      <4>1. \A i \in tag .. Len(s) - name : ~(Len(e) - name <= i)
        BY <1>3, <1>6, <3>4
      <4>2. C = {}
        BY <3>1, <3>3, <4>1
      <4>3. QED
        BY <2>3, <2>9, <2>10, <2>12, <4>2 DEF Xml!ElementEnd
    <3>5. ASSUME Len(s) >= Len(e) PROVE Xml!ElementEnd(s) = Len(e)
      <4>1. Len(e) - name \in tag .. Len(s) - name /\ (Len(e) - name) + name <= Len(e)
        <5>1. tag <= Len(e) - name
          BY <2>12
        <5>2. Len(s) >= Len(e) /\ Len(s) \in Nat /\ Len(e) \in Nat /\ name \in Nat
          BY <1>3, <1>b, <3>5
        <5>3. Len(e) - name \in Int /\ Len(e) - name <= Len(s) - name
          BY <5>2
        <5>4. Len(e) - name \in tag .. Len(s) - name
          BY <1>b, <5>1, <5>2, <5>3
        <5>5. (Len(e) - name) + name <= Len(e)
          BY <5>2
        <5>6. QED
          BY <5>4, <5>5
      <4>2. Len(e) - name \in C
        BY <2>12, <3>1, <3>2, <4>1
      <4>3. C \in SUBSET Nat
        BY <1>3, <1>6, <3>1
      <4>4. Xml!Min(C) = Len(e) - name
        <5> HIDE DEF C
        <5>1. QED
          BY <3>3, <4>2, <4>3, MinIs
      <4>5. Xml!ElementEnd(s) = (Len(e) - name) + (name - 2) + 2
        BY <2>3, <2>9, <2>10, <2>12, <3>1, <4>2, <4>4 DEF Xml!ElementEnd
      <4>6. QED
        BY <1>3, <1>6, <4>5
    <3>6. QED
      BY <1>1, <1>2, <1>3, <1>6, <3>4, <3>5
  <2>13. QED
    BY <1>2, <2>11, <2>12
<1>11. QED
  BY <1>3, <1>6, <1>9, <1>10

-----------------------------------------------------------------------------
(* The stream *)

\* What the server says is text, and never nothing.
LEMMA ElementsAre ==
    ASSUME NEW e \in Elements
    PROVE  Xml!IsElement(e) /\ e \in Seq(STRING) /\ e \in Seq(Symbols) /\ Len(e) \in Nat \ {0}
<1>1. Xml!IsElement(e)
  BY ElementsAssumption
<1>2. e \in Seq(STRING) /\ \E tag \in DOMAIN e : TRUE
  BY <1>1, Zenon DEF Xml!IsElement
<1>3. e \in Seq(Symbols)
  BY <1>2 DEF Symbols
<1>4. QED
  BY <1>1, <1>2, <1>3

-----------------------------------------------------------------------------
(* What is under way *)

\* The elements of d behind the first h lie in the text t, in order and apart,
\* each j from at[j] + 1 on; what is between them is white space.
Laid(at, t, h, d) ==
    /\ at \in [h + 1 .. Len(d) -> Nat]
    /\ \A j \in h + 1 .. Len(d) :
         /\ at[j] + Len(d[j]) <= Len(t)
         /\ \A i \in 1 .. Len(d[j]) : Like(t[at[j] + i], d[j][i])
         /\ \A k \in j + 1 .. Len(d) : at[j] + Len(d[j]) <= at[k]
    /\ \A p \in 1 .. Len(t) :
         \/ t[p] \in Xml!Blanks
         \/ \E j \in h + 1 .. Len(d) : at[j] < p /\ p <= at[j] + Len(d[j])

\* The same, when e has been sent behind white space s.
Extended(new, at, t, h, d, s, e) ==
    /\ Laid(new, t \o s \o e, h, Append(d, e))
    /\ \A j \in h + 1 .. Len(d) : new[j] = at[j]
    /\ new[Len(d) + 1] = Len(t) + Len(s)

\* An element that is sent lies behind the others.
LEMMA LaidBehind ==
    ASSUME NEW at, NEW t \in Seq(Symbols), NEW h \in Nat, NEW d \in Seq(Elements),
           h <= Len(d), Laid(at, t, h, d),
           NEW s \in Seq(Symbols), \A i \in 1 .. Len(s) : s[i] \in Xml!Blanks,
           NEW e \in Elements
    PROVE  \E new : Extended(new, at, t, h, d, s, e)
<1> DEFINE n == Len(d)
           u == t \o s \o e
           c == Append(d, e)
           new == [j \in h + 1 .. n + 1 |-> IF j <= n THEN at[j] ELSE Len(t) + Len(s)]
<1>1. n \in Nat /\ Len(t) \in Nat /\ Len(s) \in Nat /\ Len(e) \in Nat
  BY ElementsAre
<1>2. /\ Len(u) = Len(t) + Len(s) + Len(e)
      /\ \A k \in 1 .. Len(t) : u[k] = t[k]
      /\ \A k \in 1 .. Len(s) : u[Len(t) + k] = s[k]
      /\ \A k \in 1 .. Len(e) : u[Len(t) + Len(s) + k] = e[k]
  <2>1. t \in Seq(Symbols) /\ s \in Seq(Symbols) /\ e \in Seq(Symbols)
    BY ElementsAre
  <2>2. /\ Len(t \o s \o e) = Len(t) + Len(s) + Len(e)
        /\ \A k \in 1 .. Len(t) : (t \o s \o e)[k] = t[k]
        /\ \A k \in 1 .. Len(s) : (t \o s \o e)[Len(t) + k] = s[k]
        /\ \A k \in 1 .. Len(e) : (t \o s \o e)[Len(t) + Len(s) + k] = e[k]
    <3> HIDE DEF u, c, new, n
    <3>1. QED
      BY ONLY <2>1, InARow
  <2>3. QED
    BY <2>2
<1>3. Len(c) = n + 1 /\ c[n + 1] = e /\ \A j \in h + 1 .. n : c[j] = d[j]
  OBVIOUS
<1>4. /\ \A j \in h + 1 .. n : new[j] = at[j]
      /\ new[n + 1] = Len(t) + Len(s)
  BY <1>1
<1>5. /\ at \in [h + 1 .. n -> Nat]
      /\ \A j \in h + 1 .. n :
           /\ at[j] + Len(d[j]) <= Len(t)
           /\ \A i \in 1 .. Len(d[j]) : Like(t[at[j] + i], d[j][i])
           /\ \A k \in j + 1 .. n : at[j] + Len(d[j]) <= at[k]
      /\ \A p \in 1 .. Len(t) :
           \/ t[p] \in Xml!Blanks
           \/ \E j \in h + 1 .. n : at[j] < p /\ p <= at[j] + Len(d[j])
  BY DEF Laid
<1>6. new \in [h + 1 .. n + 1 -> Nat]
  BY <1>1, <1>5
<1>a. \A j \in h + 1 .. n : Len(d[j]) \in Nat
  <2>1. \A j \in h + 1 .. n : d[j] \in Elements
    BY <1>1
  <2>2. QED
    BY <2>1, ElementsAre
<1> HIDE DEF n, u, c, new
<1>7. ASSUME NEW j \in h + 1 .. n + 1
      PROVE  /\ new[j] + Len(c[j]) <= Len(u)
             /\ \A i \in 1 .. Len(c[j]) : Like(u[new[j] + i], c[j][i])
             /\ \A k \in j + 1 .. n + 1 : new[j] + Len(c[j]) <= new[k]
  <2>1. CASE j \in h + 1 .. n
    <3>1. c[j] = d[j] /\ new[j] = at[j] /\ at[j] \in Nat /\ Len(d[j]) \in Nat
          /\ at[j] + Len(d[j]) <= Len(t)
      BY <1>3, <1>4, <1>5, <1>a, <2>1
    <3>2. new[j] + Len(c[j]) <= Len(u)
      <4>1. PICK x \in Nat, l \in Nat : x = at[j] /\ l = Len(d[j])
        BY <3>1
      <4>2. PICK a \in Nat, b \in Nat, f \in Nat : a = Len(t) /\ b = Len(s) /\ f = Len(e)
        BY <1>1
      <4>3. x + l <= a /\ Len(u) = a + b + f
        BY <1>2, <3>1, <4>1, <4>2
      <4>4. x + l <= a + b + f
        BY <4>3
      <4>5. QED
        BY <3>1, <4>1, <4>3, <4>4
    <3>3. ASSUME NEW i \in 1 .. Len(c[j]) PROVE Like(u[new[j] + i], c[j][i])
      <4>1. at[j] + i \in 1 .. Len(t) /\ i \in 1 .. Len(d[j])
        <5>1. PICK x \in Nat, l \in Nat : x = at[j] /\ l = Len(d[j]) /\ l = Len(c[j])
          BY <3>1
        <5>2. PICK a \in Nat : a = Len(t) /\ x + l <= a
          BY <1>1, <3>1, <5>1
        <5>3. i \in 1 .. l /\ x + i \in 1 .. a
          <6>1. \A k \in 1 .. l : x + k \in 1 .. a
            BY <5>2
          <6>2. QED
            BY <5>1, <6>1
        <5>4. QED
          BY <5>1, <5>2, <5>3
      <4>2. u[at[j] + i] = t[at[j] + i]
        BY <1>2, <4>1
      <4>3. Like(t[at[j] + i], d[j][i])
        BY <1>5, <2>1, <4>1
      <4>4. QED
        BY <3>1, <4>2, <4>3
    <3>4. ASSUME NEW k \in j + 1 .. n + 1 PROVE new[j] + Len(c[j]) <= new[k]
      <4>1. CASE k = n + 1
        <5>1. PICK x \in Nat, l \in Nat : x = at[j] /\ l = Len(d[j])
          BY <3>1
        <5>2. PICK a \in Nat, b \in Nat : a = Len(t) /\ b = Len(s)
          BY <1>1
        <5>3. x + l <= a
          BY <3>1, <5>1, <5>2
        <5>4. x + l <= a + b
          BY <5>3
        <5>5. QED
          BY <1>4, <3>1, <4>1, <5>1, <5>2, <5>4
      <4>2. CASE k \in j + 1 .. n
        <5>1. at[j] + Len(d[j]) <= at[k]
          BY <1>5, <2>1, <4>2
        <5>a. k \in h + 1 .. n
          BY <1>1, <2>1, <4>2
        <5>2. QED
          BY <1>4, <3>1, <5>1, <5>a
      <4>3. QED
        BY <1>1, <4>1, <4>2
    <3>5. QED
      BY <3>2, <3>3, <3>4
  <2>2. CASE j = n + 1
    <3>1. c[j] = e /\ new[j] = Len(t) + Len(s)
      BY <1>3, <1>4, <2>2
    <3>2. \A i \in 1 .. Len(e) : u[Len(t) + Len(s) + i] = e[i]
      BY <1>2
    <3>3. \A k \in j + 1 .. n + 1 : FALSE
      BY <1>1, <2>2
    <3>4. new[j] + Len(c[j]) <= Len(u)
      BY <1>1, <1>2, <3>1
    <3>5. \A i \in 1 .. Len(c[j]) : Like(u[new[j] + i], c[j][i])
      BY <3>1, <3>2 DEF Like
    <3>6. QED
      BY <3>3, <3>4, <3>5
  <2>3. QED
    BY <1>1, <2>1, <2>2
<1>8. ASSUME NEW p \in 1 .. Len(u)
      PROVE  \/ u[p] \in Xml!Blanks
             \/ \E j \in h + 1 .. n + 1 : new[j] < p /\ p <= new[j] + Len(c[j])
  <2>1. CASE p \in 1 .. Len(t)
    <3>1. CASE t[p] \in Xml!Blanks
      BY <1>2, <2>1, <3>1
    <3>2. CASE \E j \in h + 1 .. n : at[j] < p /\ p <= at[j] + Len(d[j])
      <4>1. PICK j \in h + 1 .. n : at[j] < p /\ p <= at[j] + Len(d[j])
        BY <3>2
      <4>2. j \in h + 1 .. n + 1
        BY <1>1
      <4>3. QED
        BY <1>3, <1>4, <4>1, <4>2
    <3>3. QED
      BY <1>5, <2>1, <3>1, <3>2
  <2>2. CASE p - Len(t) \in 1 .. Len(s)
    <3>1. u[Len(t) + (p - Len(t))] \in Xml!Blanks
      BY <1>2, <2>2
    <3>2. Len(t) + (p - Len(t)) = p
      BY <1>1
    <3>3. QED
      BY <3>1, <3>2
  <2>3. CASE p > Len(t) + Len(s)
    <3>1. n + 1 \in h + 1 .. n + 1 /\ new[n + 1] < p /\ p <= new[n + 1] + Len(c[n + 1])
      BY <1>1, <1>2, <1>3, <1>4, <2>3 DEF n
    <3>2. QED
      BY <3>1
  <2>4. QED
    BY <1>1, <1>2, <2>1, <2>2, <2>3
<1>9. Laid(new, u, h, c)
  BY <1>3, <1>6, <1>7, <1>8 DEF Laid
<1>10. Extended(new, at, t, h, d, s, e)
  BY <1>4, <1>9 DEF u, c, n, Extended
<1>11. QED
  BY <1>10

\* A text in which characters are replaced is laid out as before.
LEMMA LaidDecoded ==
    ASSUME NEW at, NEW t, NEW u, NEW h, NEW d,
           Laid(at, t, h, d), Len(u) = Len(t), \A p \in 1 .. Len(t) : Like(u[p], t[p]),
           \A j \in h + 1 .. Len(d) : Len(d[j]) \in Nat, Len(t) \in Nat
    PROVE  Laid(at, u, h, d)
<1>1. ASSUME NEW j \in h + 1 .. Len(d), NEW i \in 1 .. Len(d[j])
      PROVE  Like(u[at[j] + i], d[j][i])
  <2>1. at[j] \in Nat /\ at[j] + Len(d[j]) <= Len(t) /\ Like(t[at[j] + i], d[j][i])
    BY DEF Laid
  <2>2. at[j] + i \in 1 .. Len(t)
    BY <2>1
  <2>3. Like(u[at[j] + i], t[at[j] + i])
    BY <2>2
  <2>4. QED
    BY <2>1, <2>3 DEF Like
<1>2. \A p \in 1 .. Len(t) : t[p] \in Xml!Blanks => u[p] \in Xml!Blanks
  BY DEF Like, Xml!Blanks
<1>3. QED
  BY <1>1, <1>2 DEF Laid

\* u is what is left of t behind its first c symbols.
Rest(u, t, c) ==
    /\ u \in Seq(Symbols) /\ Len(u) = Len(t) - c
    /\ \A p \in 1 .. Len(u) : u[p] = t[c + p]

\* When the first element is cut off, with what is before it, the others move up.
LEMMA LaidOn ==
    ASSUME NEW at, NEW t \in Seq(Symbols), NEW h \in Nat, NEW d \in Seq(Elements),
           h < Len(d), Laid(at, t, h, d),
           NEW c \in Nat, c = at[h + 1] + Len(d[h + 1]),
           NEW u, Rest(u, t, c)
    PROVE  \E new : Laid(new, u, h + 1, d)
<1> DEFINE n == Len(d)
           new == [j \in h + 2 .. n |-> at[j] - c]
<1>b. /\ u \in Seq(Symbols) /\ Len(u) = Len(t) - c
      /\ \A p \in 1 .. Len(u) : u[p] = t[c + p]
  BY DEF Rest
<1>1. n \in Nat /\ Len(t) \in Nat /\ Len(u) \in Nat
  BY <1>b
<1>2. \A j \in h + 1 .. n : Len(d[j]) \in Nat
  <2>1. \A j \in h + 1 .. n : d[j] \in Elements
    BY <1>1
  <2>2. QED
    BY <2>1, ElementsAre
<1>3. /\ at \in [h + 1 .. n -> Nat]
      /\ \A j \in h + 1 .. n :
           /\ at[j] + Len(d[j]) <= Len(t)
           /\ \A i \in 1 .. Len(d[j]) : Like(t[at[j] + i], d[j][i])
           /\ \A k \in j + 1 .. n : at[j] + Len(d[j]) <= at[k]
      /\ \A p \in 1 .. Len(t) :
           \/ t[p] \in Xml!Blanks
           \/ \E j \in h + 1 .. n : at[j] < p /\ p <= at[j] + Len(d[j])
  BY DEF Laid
<1> HIDE DEF n
<1>4. h + 1 \in h + 1 .. n /\ \A j \in h + 2 .. n : j \in h + 1 .. n /\ j \in (h + 1) + 1 .. n
  BY <1>1 DEF n
<1>5. \A j \in h + 2 .. n : at[j] \in Nat /\ c <= at[j] /\ new[j] = at[j] - c
  BY <1>3, <1>4
<1>6. new \in [h + 2 .. n -> Nat]
  BY <1>5
<1> HIDE DEF new
<1>a. ASSUME NEW j \in h + 2 .. n PROVE new[j] \in Nat /\ c + new[j] = at[j]
  <2>1. PICK x \in Nat : x = at[j] /\ c <= x /\ new[j] = x - c
    BY <1>5
  <2>2. x - c \in Nat /\ c + (x - c) = x
    BY <2>1
  <2>3. QED
    BY <2>1, <2>2
<1>7. ASSUME NEW j \in h + 2 .. n
      PROVE  /\ new[j] + Len(d[j]) <= Len(u)
             /\ \A i \in 1 .. Len(d[j]) : Like(u[new[j] + i], d[j][i])
             /\ \A k \in j + 1 .. n : new[j] + Len(d[j]) <= new[k]
  <2>1. at[j] \in Nat /\ c <= at[j] /\ new[j] = at[j] - c /\ Len(d[j]) \in Nat
        /\ at[j] + Len(d[j]) <= Len(t)
    BY <1>2, <1>3, <1>4, <1>5
  <2>a. PICK x \in Nat : x = new[j] /\ c + x = at[j]
    BY <1>a
  <2>b. PICK l \in Nat, m \in Nat : l = Len(d[j]) /\ m = Len(u) /\ Len(t) = c + m
    <3>1. j \in h + 1 .. n
      BY <1>4
    <3>2. Len(d[j]) \in Nat /\ Len(u) \in Nat /\ Len(t) \in Nat /\ Len(u) = Len(t) - c
      BY <1>1, <1>b, <1>2, <3>1
    <3>3. Len(t) = c + Len(u)
      BY <3>2
    <3>4. QED
      BY <3>2, <3>3
  <2>c. (c + x) + l <= c + m
    BY <2>1, <2>a, <2>b
  <2>d. x + l <= m
    BY <2>c
  <2>2. /\ new[j] + Len(d[j]) <= Len(u)
        /\ \A i \in 1 .. Len(d[j]) :
             new[j] + i \in 1 .. Len(u) /\ c + (new[j] + i) = at[j] + i
    <3>1. \A i \in 1 .. l : x + i \in 1 .. m /\ c + (x + i) = (c + x) + i
      BY <2>d
    <3>2. QED
      BY <2>a, <2>b, <2>d, <3>1
  <2>3. ASSUME NEW i \in 1 .. Len(d[j]) PROVE Like(u[new[j] + i], d[j][i])
    <3>1. new[j] + i \in 1 .. Len(u) /\ c + (new[j] + i) = at[j] + i
      BY <2>2
    <3>2. u[new[j] + i] = t[at[j] + i]
      BY <1>b, <3>1
    <3>3. QED
      BY <1>3, <1>4, <3>2
  <2>4. ASSUME NEW k \in j + 1 .. n PROVE new[j] + Len(d[j]) <= new[k]
    <3>1. k \in h + 2 .. n
      BY <1>1, <1>4
    <3>2. PICK y \in Nat : y = new[k] /\ c + y = at[k]
      BY <1>a, <3>1
    <3>3. at[j] + Len(d[j]) <= at[k]
      BY <1>3, <1>4
    <3>4. (c + x) + l <= c + y
      BY <2>a, <2>b, <3>2, <3>3
    <3>5. x + l <= y
      BY <3>4
    <3>6. QED
      BY <2>a, <2>b, <3>2, <3>5
  <2>5. QED
    BY <2>2, <2>3, <2>4
<1>8. ASSUME NEW p \in 1 .. Len(u)
      PROVE  \/ u[p] \in Xml!Blanks
             \/ \E j \in h + 2 .. n : new[j] < p /\ p <= new[j] + Len(d[j])
  <2>1. c + p \in 1 .. Len(t) /\ u[p] = t[c + p]
    BY <1>1, <1>b
  <2>2. CASE t[c + p] \in Xml!Blanks
    BY <2>1, <2>2
  <2>3. ASSUME NEW j \in h + 1 .. n, at[j] < c + p, c + p <= at[j] + Len(d[j])
        PROVE  \E k \in h + 2 .. n : new[k] < p /\ p <= new[k] + Len(d[k])
    <3>1. j # h + 1
      BY <1>2, <1>3, <2>3
    <3>2. j \in h + 2 .. n
      BY <1>1, <3>1
    <3>3. new[j] < p /\ p <= new[j] + Len(d[j])
      <4>1. PICK x \in Nat : x = new[j] /\ c + x = at[j]
        BY <1>a, <3>2
      <4>2. PICK l \in Nat : l = Len(d[j])
        BY <1>2
      <4>3. PICK q \in Nat : q = p
        BY <1>1
      <4>4. c + x < c + q /\ c + q <= (c + x) + l
        BY <2>3, <4>1, <4>2, <4>3
      <4>5. x < q /\ q <= x + l
        BY <4>4
      <4>6. QED
        BY <4>1, <4>2, <4>3, <4>5
    <3>4. QED
      BY <3>2, <3>3
  <2>4. QED
    BY <1>3, <2>1, <2>2, <2>3
<1>9. h + 2 = (h + 1) + 1
  OBVIOUS
<1>10. Laid(new, u, h + 1, d)
  BY <1>6, <1>7, <1>8, <1>9 DEF Laid, n
<1>11. QED
  BY <1>10

\* What strip() leaves.
LEMMA Stripped ==
    ASSUME NEW s \in Seq(Symbols)
    PROVE  /\ (\A i \in 1 .. Len(s) : s[i] \in Xml!Blanks) => Xml!LStrip(s) = <<>>
           /\ \A a \in 0 .. Len(s) - 1 :
                (s[a + 1] \notin Xml!Blanks /\ \A i \in 1 .. a : s[i] \in Xml!Blanks)
                    => Xml!LStrip(s) = SubSeq(s, a + 1, Len(s))
<1> DEFINE text == {i \in DOMAIN s : s[i] \notin Xml!Blanks}
<1>1. Len(s) \in Nat /\ DOMAIN s = 1 .. Len(s)
  OBVIOUS
<1>2. ASSUME \A i \in 1 .. Len(s) : s[i] \in Xml!Blanks PROVE Xml!LStrip(s) = <<>>
  BY <1>1, <1>2 DEF Xml!LStrip
<1>3. ASSUME NEW a \in 0 .. Len(s) - 1,
             s[a + 1] \notin Xml!Blanks, \A i \in 1 .. a : s[i] \in Xml!Blanks
      PROVE  Xml!LStrip(s) = SubSeq(s, a + 1, Len(s))
  <2>1. a + 1 \in text /\ text \in SUBSET Nat
    BY <1>1, <1>3
  <2>2. ASSUME NEW i \in text PROVE a + 1 <= i
    <3>1. ~(i \in 1 .. a)
      BY <1>3
    <3>2. i \in 1 .. Len(s)
      BY <1>1
    <3>3. QED
      BY <1>1, <3>1, <3>2
  <2>3. text # {} /\ Xml!Min(text) = a + 1
    <3> HIDE DEF text
    <3>1. QED
      BY <2>1, <2>2, MinIs
  <2>4. QED
    BY <2>3 DEF Xml!LStrip
<1>4. QED
  BY <1>2, <1>3

\* The rest of a sequence.
LEMMA RestFrom ==
    ASSUME NEW S, NEW b \in Seq(S), NEW a \in 0 .. Len(b)
    PROVE  /\ SubSeq(b, a + 1, Len(b)) \in Seq(S)
           /\ Len(SubSeq(b, a + 1, Len(b))) = Len(b) - a
           /\ \A i \in 1 .. Len(b) - a : SubSeq(b, a + 1, Len(b))[i] = b[a + i]
OBVIOUS

\* What the front of the text has of the elements, when it is stripped.
LEMMA Front ==
    ASSUME NEW at, NEW t \in Seq(Symbols), NEW h \in Nat, NEW d \in Seq(Elements),
           h <= Len(d), Laid(at, t, h, d),
           NEW b \in Seq(Symbols), Len(b) <= Len(t), \A i \in 1 .. Len(b) : b[i] = t[i]
    PROVE  /\ h = Len(d) => Xml!LStrip(b) = <<>>
           /\ h < Len(d) =>
                /\ Len(b) <= at[h + 1] => Xml!LStrip(b) = <<>>
                /\ Len(b) > at[h + 1] =>
                     Xml!LStrip(b) = SubSeq(b, at[h + 1] + 1, Len(b))
                /\ Begins(Xml!LStrip(b), d[h + 1])
<1> DEFINE n == Len(d)
           a == at[h + 1]
<1>1. n \in Nat /\ Len(t) \in Nat /\ Len(b) \in Nat
  OBVIOUS
<1>2. /\ at \in [h + 1 .. n -> Nat]
      /\ \A j \in h + 1 .. n :
           /\ at[j] + Len(d[j]) <= Len(t)
           /\ \A i \in 1 .. Len(d[j]) : Like(t[at[j] + i], d[j][i])
           /\ \A k \in j + 1 .. n : at[j] + Len(d[j]) <= at[k]
      /\ \A p \in 1 .. Len(t) :
           \/ t[p] \in Xml!Blanks
           \/ \E j \in h + 1 .. n : at[j] < p /\ p <= at[j] + Len(d[j])
  BY DEF Laid
<1>3. \A i \in 1 .. Len(b) : i \in 1 .. Len(t)
  BY <1>1
<1>4. CASE h = n
  <2>1. ASSUME NEW i \in 1 .. Len(b) PROVE b[i] \in Xml!Blanks
    <3>1. ~ \E j \in h + 1 .. n : TRUE
      BY <1>1, <1>4
    <3>2. QED
      BY <1>2, <1>3, <3>1
  <2>2. QED
    BY <1>4, <2>1, Stripped
<1>5. CASE h < n
  <2>1. h + 1 \in h + 1 .. n /\ a \in Nat /\ d[h + 1] \in Elements
    BY <1>1, <1>2, <1>5
  <2>2. /\ d[h + 1] \in Seq(STRING) /\ Len(d[h + 1]) \in Nat \ {0} /\ d[h + 1][1] = "<"
    BY <2>1, ElementsAre, Zenon DEF Xml!IsElement
  <2>3. ASSUME NEW i \in 1 .. Len(b), i <= a PROVE b[i] \in Xml!Blanks
    <3>1. SUFFICES ASSUME NEW j \in h + 1 .. n, at[j] < i PROVE FALSE
      BY <1>2, <1>3
    <3>2. j # h + 1
      BY <2>1, <2>3, <3>1
    <3>3. j \in (h + 1) + 1 .. n
      BY <1>1, <3>2
    <3>4. a + Len(d[h + 1]) <= at[j] /\ at[j] \in Nat
      BY <1>2, <2>1, <3>3
    <3>5. QED
      BY <2>1, <2>2, <2>3, <3>1, <3>4
  <2>4. CASE Len(b) <= a
    <3>1. \A i \in 1 .. Len(b) : i <= a
      BY <1>1, <2>1, <2>4
    <3>2. Xml!LStrip(b) = <<>>
      BY <2>3, <3>1, Stripped
    <3>3. Begins(Xml!LStrip(b), d[h + 1])
      BY <3>2 DEF Begins
    <3>4. QED
      BY <1>1, <1>5, <2>1, <2>4, <3>2, <3>3
  <2>5. CASE Len(b) > a
    <3>1. a \in 0 .. Len(b) - 1 /\ a + 1 \in 1 .. Len(b)
          /\ \A i \in 1 .. a : i \in 1 .. Len(b) /\ i <= a
      BY <1>1, <2>1, <2>5
    <3>2. b[a + 1] = t[a + 1] /\ Like(t[a + 1], d[h + 1][1])
      <4>1. b[a + 1] = t[a + 1]
        BY <3>1
      <4>2. 1 \in 1 .. Len(d[h + 1])
        BY <2>2
      <4>3. Like(t[a + 1], d[h + 1][1])
        BY <1>2, <2>1, <4>2
      <4>4. QED
        BY <4>1, <4>3
    <3>3. b[a + 1] \notin Xml!Blanks
      BY <2>2, <3>2 DEF Like, Xml!Blanks
    <3>4. \A i \in 1 .. a : b[i] \in Xml!Blanks
      BY <2>3, <3>1
    <3>5. Xml!LStrip(b) = SubSeq(b, a + 1, Len(b))
      BY <3>1, <3>3, <3>4, Stripped
    <3>6. /\ Len(SubSeq(b, a + 1, Len(b))) = Len(b) - a
          /\ \A i \in 1 .. Len(b) - a : SubSeq(b, a + 1, Len(b))[i] = b[a + i]
      <4>1. a \in 0 .. Len(b)
        BY <1>1, <3>1
      <4>2. QED
        BY <4>1, RestFrom
    <3>7. ASSUME NEW i \in 1 .. Len(b) - a, i <= Len(d[h + 1])
          PROVE  Like(SubSeq(b, a + 1, Len(b))[i], d[h + 1][i])
      <4>1. a + i \in 1 .. Len(b) /\ i \in 1 .. Len(d[h + 1])
        <5>1. PICK l \in Nat : l = Len(d[h + 1])
          BY <2>2
        <5>2. i \in 1 .. l
          BY <1>1, <2>1, <3>7, <5>1
        <5>3. a + i \in 1 .. Len(b)
          BY <1>1, <2>1
        <5>4. QED
          BY <5>1, <5>2, <5>3
      <4>2. b[a + i] = t[a + i] /\ Like(t[a + i], d[h + 1][i])
        BY <1>2, <2>1, <4>1
      <4>3. QED
        BY <3>6, <4>2
    <3>8. Begins(Xml!LStrip(b), d[h + 1])
      BY <3>5, <3>6, <3>7 DEF Begins
    <3>9. QED
      BY <1>1, <1>5, <2>1, <2>5, <3>5, <3>8
  <2>6. QED
    BY <1>1, <2>1, <2>4, <2>5
<1>6. QED
  BY <1>1, <1>4, <1>5

\* In the buffer and behind it on the wire lie the elements that were sent and not
\* taken; when the client waits, the first of them has not come in full.
Waiting(at) ==
    /\ Laid(at, buffer \o wire, Len(heard), said)
    /\ reader = "reading" /\ Len(heard) < Len(said) =>
         Len(buffer) < at[Len(heard) + 1] + Len(said[Len(heard) + 1])

\* What is under way is laid out so, unless there is no connection.
StreamInv ==
    /\ reader \in {"reading", "processing", "down"}
    /\ wire \in Seq(Symbols) /\ buffer \in Seq(Symbols)
    /\ said \in Seq(Elements) /\ heard \in Seq(Seq(Symbols))
    /\ ElementsInOrder
    /\ reader = "down" => wire = <<>> /\ said = <<>> /\ heard = <<>>
    /\ reader # "down" => \E at : Waiting(at)

\* Nothing is laid out over nothing.
LEMMA NothingLies ==
    ASSUME NEW d \in Seq(Elements), NEW h \in Nat, Len(d) = h, NEW t \in Seq(Symbols), Len(t) = 0
    PROVE  \E at : Laid(at, t, h, d)
<1> DEFINE at == [j \in h + 1 .. Len(d) |-> 0]
<1>1. \A j \in h + 1 .. Len(d) : FALSE
  OBVIOUS
<1>2. \A p \in 1 .. Len(t) : FALSE
  OBVIOUS
<1>3. at \in [h + 1 .. Len(d) -> Nat]
  OBVIOUS
<1>4. Laid(at, t, h, d)
  <2> HIDE DEF at
  <2>1. QED
    BY <1>1, <1>2, <1>3 DEF Laid
<1>5. QED
  BY <1>4

-----------------------------------------------------------------------------
(* The steps of the stream *)

\* The server sends an element, behind white space.
LEMMA StreamSent ==
    ASSUME StreamInv, NEW e \in Elements, Xml!Say(e)
    PROVE  StreamInv'
<1>1. reader # "down" /\ reader' = reader /\ buffer' = buffer /\ heard' = heard
      /\ said' = Append(said, e)
  BY DEF Xml!Say
<1>2. PICK s \in Separators : wire' = wire \o s \o e
  BY DEF Xml!Say
<1>3. PICK at : Waiting(at)
  BY <1>1 DEF StreamInv
<1>4. /\ s \in Seq(Symbols) /\ e \in Seq(Symbols) /\ wire \in Seq(Symbols) /\ buffer \in Seq(Symbols)
      /\ \A i \in 1 .. Len(s) : s[i] \in Xml!Blanks
      /\ said \in Seq(Elements) /\ heard \in Seq(Seq(Symbols))
  <2>1. s \in Seq(Xml!Blanks)
    BY SeparatorsAssumption
  <2>2. QED
    BY <2>1, ElementsAre DEF StreamInv, Symbols
<1>5. wire' \in Seq(Symbols) /\ buffer' \o wire' = (buffer \o wire) \o s \o e
  <2>1. wire \o s \in Seq(Symbols) /\ buffer \o wire \in Seq(Symbols)
    BY <1>4
  <2>2. wire' \in Seq(Symbols)
    BY <1>2, <1>4, <2>1
  <2>3. buffer \in Seq(Symbols) /\ wire \in Seq(Symbols) /\ s \in Seq(Symbols) /\ e \in Seq(Symbols)
    BY <1>4
  <2>4. (buffer \o (wire \o s)) \o e = buffer \o ((wire \o s) \o e)
    <3>1. PICK r \in Seq(Symbols) : r = wire \o s
      BY <2>1
    <3>2. (buffer \o r) \o e = buffer \o (r \o e)
      BY ONLY <2>3, <3>1, ConcatAssociative
    <3>3. QED
      BY <3>1, <3>2
  <2>5. (buffer \o wire) \o s = buffer \o (wire \o s)
    BY ONLY <2>3, ConcatAssociative
  <2>6. QED
    BY <1>1, <1>2, <2>2, <2>4, <2>5
<1> DEFINE h == Len(heard)
           t == buffer \o wire
<1>6. h \in Nat /\ h <= Len(said) /\ t \in Seq(Symbols) /\ Len(buffer) <= Len(t)
  BY <1>4 DEF StreamInv, ElementsInOrder, Xml!ElementsInOrder
<1>a. \E new : Extended(new, at, t, h, said, s, e)
  <2>1. Laid(at, t, h, said)
    BY <1>3 DEF Waiting
  <2>2. t \in Seq(Symbols) /\ h \in Nat /\ said \in Seq(Elements) /\ h <= Len(said)
        /\ s \in Seq(Symbols) /\ (\A i \in 1 .. Len(s) : s[i] \in Xml!Blanks)
    BY <1>4, <1>6
  <2>3. QED
    BY <2>1, <2>2, LaidBehind
<1>7. PICK new : /\ Laid(new, t \o s \o e, h, Append(said, e))
                 /\ \A j \in h + 1 .. Len(said) : new[j] = at[j]
                 /\ new[Len(said) + 1] = Len(t) + Len(s)
  BY <1>a DEF Extended
<1>8. /\ said' \in Seq(Elements) /\ Len(said') = Len(said) + 1 /\ said'[Len(said) + 1] = e
      /\ \A i \in 1 .. Len(said) : said'[i] = said[i]
  BY <1>1, <1>4
<1>9. Waiting(new)'
  <2>1. Laid(new, buffer' \o wire', Len(heard'), said')
    BY <1>1, <1>5, <1>7
  <2>2. ASSUME reader = "reading"
        PROVE  Len(buffer) < new[h + 1] + Len(said'[h + 1])
    <3>1. CASE h < Len(said)
      <4>1. h + 1 \in h + 1 .. Len(said) /\ h + 1 \in 1 .. Len(said)
        BY <1>4, <1>6, <3>1
      <4>2. Len(buffer) < at[h + 1] + Len(said[h + 1])
        BY <1>3, <2>2, <3>1 DEF Waiting
      <4>3. QED
        BY <1>7, <1>8, <4>1, <4>2
    <3>2. CASE h = Len(said)
      <4>1. new[h + 1] = Len(t) + Len(s) /\ said'[h + 1] = e
        BY <1>7, <1>8, <3>2
      <4>2. Len(e) \in Nat \ {0} /\ Len(s) \in Nat /\ Len(t) \in Nat /\ Len(buffer) \in Nat
        BY <1>4, <1>6, ElementsAre
      <4>3. QED
        BY <1>6, <4>1, <4>2
    <3>3. QED
      BY <1>4, <1>6, <3>1, <3>2
  <2>3. QED
    BY <1>1, <2>1, <2>2 DEF Waiting
<1>10. ElementsInOrder'
  <2>1. ElementsInOrder
    BY DEF StreamInv
  <2>2. DOMAIN heard = 1 .. h /\ \A i \in 1 .. h : i \in 1 .. Len(said)
    BY <1>4, <1>6
  <2>3. Len(heard') <= Len(said')
    BY <1>1, <1>4, <1>6, <1>8
  <2>4. QED
    BY <1>1, <1>8, <2>1, <2>2, <2>3 DEF ElementsInOrder, Xml!ElementsInOrder
<1>11. QED
  BY <1>1, <1>4, <1>5, <1>8, <1>9, <1>10 DEF StreamInv

\* What the client finds at the front of its buffer.
LEMMA AtFront ==
    ASSUME StreamInv, NEW at, Laid(at, buffer \o wire, Len(heard), said)
    PROVE  LET s == Xml!LStrip(buffer)
               h == Len(heard)
               a == at[h + 1]
           IN  /\ s \in Seq(Symbols)
               /\ h = Len(said) => s = <<>>
               /\ h < Len(said) =>
                    /\ a \in Nat
                    /\ Begins(s, said[h + 1])
                    /\ Len(buffer) <= a => s = <<>>
                    /\ Len(buffer) > a =>
                         /\ Len(s) = Len(buffer) - a
                         /\ \A i \in 1 .. Len(s) : s[i] = buffer[a + i]
<1> DEFINE s == Xml!LStrip(buffer)
           h == Len(heard)
           a == at[h + 1]
           t == buffer \o wire
<1>1. /\ wire \in Seq(Symbols) /\ buffer \in Seq(Symbols)
      /\ said \in Seq(Elements) /\ heard \in Seq(Seq(Symbols)) /\ h <= Len(said)
  BY DEF StreamInv, ElementsInOrder, Xml!ElementsInOrder
<1>2. /\ t \in Seq(Symbols) /\ h \in Nat /\ Len(buffer) <= Len(t)
      /\ \A i \in 1 .. Len(buffer) : buffer[i] = t[i]
  BY <1>1
<1>3. /\ h = Len(said) => s = <<>>
      /\ h < Len(said) =>
           /\ Len(buffer) <= a => s = <<>>
           /\ Len(buffer) > a => s = SubSeq(buffer, a + 1, Len(buffer))
           /\ Begins(s, said[h + 1])
  <2>1. Laid(at, t, h, said)
    OBVIOUS
  <2>2. buffer \in Seq(Symbols) /\ said \in Seq(Elements) /\ h <= Len(said)
    BY <1>1
  <2> HIDE DEF t, h
  <2>3. QED
    BY <1>2, <2>1, <2>2, Front
<1>4. h < Len(said) => a \in Nat
  <2>1. h < Len(said) => h + 1 \in h + 1 .. Len(said)
    BY <1>1, <1>2
  <2>2. QED
    BY <2>1 DEF Laid
<1>5. ASSUME h < Len(said), Len(buffer) > a
      PROVE  /\ s \in Seq(Symbols) /\ Len(s) = Len(buffer) - a
             /\ \A i \in 1 .. Len(s) : s[i] = buffer[a + i]
  <2>1. a \in 0 .. Len(buffer)
    BY <1>1, <1>4, <1>5
  <2>2. buffer \in Seq(Symbols) /\ s = SubSeq(buffer, a + 1, Len(buffer))
    BY <1>1, <1>3, <1>5
  <2> HIDE DEF s, a
  <2>3. QED
    BY <2>1, <2>2, RestFrom
<1>6. Len(buffer) \in Nat /\ Len(said) \in Nat
  BY <1>1
<1>7. s \in Seq(Symbols)
  <2>1. s = <<>> => s \in Seq(Symbols)
    OBVIOUS
  <2>2. h < Len(said) => Len(buffer) <= a \/ Len(buffer) > a
    BY <1>4, <1>6
  <2>3. h < Len(said) \/ h = Len(said)
    BY <1>1, <1>2, <1>6
  <2> HIDE DEF s, a, h
  <2>4. QED
    BY <1>3, <1>5, <2>1, <2>2, <2>3
<1>8. QED
  BY <1>3, <1>4, <1>5, <1>7

\* Two sequences in a row.
LEMMA Joined ==
    ASSUME NEW S, NEW a \in Seq(S), NEW b \in Seq(S)
    PROVE  /\ a \o b \in Seq(S)
           /\ Len(a \o b) = Len(a) + Len(b)
           /\ \A k \in 1 .. Len(a) : (a \o b)[k] = a[k]
           /\ \A k \in 1 .. Len(b) : (a \o b)[Len(a) + k] = b[k]
OBVIOUS

\* A chunk is read, cut where the network cuts it, and decoded.
LEMMA StreamRead ==
    ASSUME StreamInv, Xml!ReadChunk
    PROVE  StreamInv'
<1>1. reader = "reading" /\ reader' = "processing" /\ said' = said /\ heard' = heard
  BY DEF Xml!ReadChunk
<1>2. PICK k \in 1 .. Len(wire) :
         /\ buffer' = buffer \o Xml!Decode(SubSeq(wire, 1, k))
         /\ wire' = SubSeq(wire, k + 1, Len(wire))
  BY DEF Xml!ReadChunk
<1>3. /\ wire \in Seq(Symbols) /\ buffer \in Seq(Symbols)
      /\ said \in Seq(Elements) /\ heard \in Seq(Seq(Symbols))
  BY DEF StreamInv
<1> DEFINE chunk == SubSeq(wire, 1, k)
           text == Xml!Decode(chunk)
<1>4. k \in Nat /\ Len(wire) \in Nat /\ Len(buffer) \in Nat /\ 1 <= k /\ k <= Len(wire)
  BY <1>3
<1>5. chunk \in Seq(Symbols) /\ Len(chunk) = k /\ \A i \in 1 .. k : chunk[i] = wire[i]
  BY <1>3, <1>4
<1>6. text \in Seq(Symbols) /\ Len(text) = k /\ \A i \in 1 .. k : Like(text[i], wire[i])
  <2> HIDE DEF chunk
  <2>1. DOMAIN chunk = 1 .. k /\ \A i \in 1 .. k : chunk[i] \in Symbols
    BY <1>4, <1>5
  <2>2. /\ text \in [1 .. k -> Symbols]
        /\ \A i \in 1 .. k : text[i] = chunk[i] \/ (text[i] = "?" /\ chunk[i] \in {"e1", "e2"})
    BY <2>1 DEF Xml!Decode, Symbols
  <2>3. QED
    BY <1>4, <1>5, <2>2 DEF Like
<1>7. wire' \in Seq(Symbols) /\ Len(wire') = Len(wire) - k
      /\ \A i \in 1 .. Len(wire) - k : wire'[i] = wire[k + i]
  <2>1. k \in 0 .. Len(wire)
    BY <1>4
  <2>2. QED
    BY <1>2, <1>3, <2>1, RestFrom
<1> HIDE DEF chunk, text
<1>8. /\ buffer' \in Seq(Symbols) /\ Len(buffer') = Len(buffer) + k
      /\ \A i \in 1 .. Len(buffer) : buffer'[i] = buffer[i]
      /\ \A i \in 1 .. k : buffer'[Len(buffer) + i] = text[i]
  <2>1. buffer' = buffer \o text
    BY <1>2 DEF text, chunk
  <2>2. buffer \in Seq(Symbols) /\ text \in Seq(Symbols) /\ Len(text) = k
    BY <1>3, <1>6
  <2>3. QED
    <3>1. /\ buffer \o text \in Seq(Symbols)
          /\ Len(buffer \o text) = Len(buffer) + Len(text)
          /\ \A i \in 1 .. Len(buffer) : (buffer \o text)[i] = buffer[i]
          /\ \A i \in 1 .. Len(text) : (buffer \o text)[Len(buffer) + i] = text[i]
      <4>1. PICK c : c = text
        OBVIOUS
      <4>2. c \in Seq(Symbols)
        BY <2>2, <4>1
      <4>3. /\ buffer \o c \in Seq(Symbols)
            /\ Len(buffer \o c) = Len(buffer) + Len(c)
            /\ \A i \in 1 .. Len(buffer) : (buffer \o c)[i] = buffer[i]
            /\ \A i \in 1 .. Len(c) : (buffer \o c)[Len(buffer) + i] = c[i]
        BY <2>2, <4>2, Joined
      <4>4. QED
        BY <4>1, <4>3
    <3>2. QED
      BY <2>1, <2>2, <3>1
<1> DEFINE t == buffer \o wire
           u == buffer' \o wire'
<1>9. /\ t \in Seq(Symbols) /\ Len(t) = Len(buffer) + Len(wire)
      /\ \A p \in 1 .. Len(buffer) : t[p] = buffer[p]
      /\ \A i \in 1 .. Len(wire) : t[Len(buffer) + i] = wire[i]
  BY <1>3
<1>10. /\ u \in Seq(Symbols) /\ Len(u) = Len(buffer') + Len(wire')
       /\ \A p \in 1 .. Len(buffer') : u[p] = buffer'[p]
       /\ \A i \in 1 .. Len(wire') : u[Len(buffer') + i] = wire'[i]
  <2>1. buffer' \in Seq(Symbols) /\ wire' \in Seq(Symbols)
    BY <1>7, <1>8
  <2>2. QED
    BY <2>1, Joined
<1> HIDE DEF t, u
<1>11. Len(u) = Len(t) /\ Len(t) \in Nat
  BY <1>4, <1>7, <1>8, <1>9, <1>10
<1>12. ASSUME NEW p \in 1 .. Len(t) PROVE Like(u[p], t[p])
  <2>1. CASE p <= Len(buffer)
    <3>1. p \in 1 .. Len(buffer) /\ p \in 1 .. Len(buffer')
      BY <1>4, <1>8, <1>11, <2>1
    <3>2. u[p] = t[p]
      BY <1>8, <1>9, <1>10, <3>1
    <3>3. QED
      BY <3>2 DEF Like
  <2>2. CASE p - Len(buffer) \in 1 .. k
    <3>1. PICK i \in 1 .. k : p = Len(buffer) + i
      BY <1>4, <2>2
    <3>2. p \in 1 .. Len(buffer') /\ i \in 1 .. Len(wire)
      BY <1>4, <1>8, <3>1
    <3>3. u[p] = text[i] /\ t[p] = wire[i]
      BY <1>8, <1>9, <1>10, <3>1, <3>2
    <3>4. QED
      BY <1>6, <3>3
  <2>3. CASE p - Len(buffer) > k
    <3>c. p \in Int /\ p - Len(buffer) - k \in Int
      BY <1>4, <1>11
    <3>a. PICK i \in Int : i = p - Len(buffer) - k
      BY <3>c
    <3>b. p <= Len(buffer) + Len(wire)
      BY <1>4, <1>9
    <3>1. i \in 1 .. Len(wire) - k /\ p = Len(buffer) + k + i
      BY <1>4, <2>3, <3>a, <3>b
    <3>2. i \in 1 .. Len(wire') /\ k + i \in 1 .. Len(wire)
          /\ p = Len(buffer') + i /\ p = Len(buffer) + (k + i)
      BY <1>4, <1>7, <1>8, <3>1
    <3>3. u[p] = wire'[i] /\ t[p] = wire[k + i] /\ wire'[i] = wire[k + i]
      BY <1>7, <1>9, <1>10, <3>1, <3>2
    <3>4. QED
      BY <3>3 DEF Like
  <2>4. QED
    BY <1>4, <1>9, <2>1, <2>2, <2>3
<1>13. PICK at : Waiting(at)
  BY <1>1 DEF StreamInv
<1>14. Laid(at, u, Len(heard), said)
  <2>1. Laid(at, t, Len(heard), said)
    BY <1>13 DEF Waiting, t
  <2>2. \A j \in Len(heard) + 1 .. Len(said) : said[j] \in Elements
    BY <1>3
  <2>3. \A j \in Len(heard) + 1 .. Len(said) : Len(said[j]) \in Nat
    BY <2>2, ElementsAre
  <2>4. QED
    BY <1>11, <1>12, <2>1, <2>3, LaidDecoded
<1>15. Waiting(at)'
  BY <1>1, <1>14 DEF Waiting, u
<1>16. ElementsInOrder'
  BY <1>1 DEF StreamInv, ElementsInOrder, Xml!ElementsInOrder, Xml!Agree
<1>17. QED
  BY <1>1, <1>3, <1>7, <1>8, <1>15, <1>16 DEF StreamInv

\* An element is cut off the front of the buffer.
LEMMA StreamTaken ==
    ASSUME StreamInv, Xml!NextElement
    PROVE  StreamInv'
<1> DEFINE s == Xml!LStrip(buffer)
           end == Xml!ElementEnd(s)
           h == Len(heard)
           e == said[h + 1]
<1>1. /\ reader = "processing" /\ end > 0
      /\ buffer' = SubSeq(s, end + 1, Len(s))
      /\ heard' = Append(heard, SubSeq(s, 1, end))
      /\ wire' = wire /\ reader' = reader /\ said' = said
  BY DEF Xml!NextElement
<1>2. /\ wire \in Seq(Symbols) /\ buffer \in Seq(Symbols)
      /\ said \in Seq(Elements) /\ heard \in Seq(Seq(Symbols)) /\ h <= Len(said)
      /\ h \in Nat /\ Len(said) \in Nat /\ Len(buffer) \in Nat /\ Len(wire) \in Nat
  BY DEF StreamInv, ElementsInOrder, Xml!ElementsInOrder
<1>3. PICK at : Waiting(at)
  BY <1>1 DEF StreamInv
<1>4. Laid(at, buffer \o wire, h, said)
  BY <1>3 DEF Waiting
<1> DEFINE a == at[h + 1]
<1>5. /\ s \in Seq(Symbols)
      /\ h = Len(said) => s = <<>>
      /\ h < Len(said) =>
           /\ a \in Nat
           /\ Begins(s, e)
           /\ Len(buffer) <= a => s = <<>>
           /\ Len(buffer) > a =>
                /\ Len(s) = Len(buffer) - a
                /\ \A i \in 1 .. Len(s) : s[i] = buffer[a + i]
  BY <1>4, AtFront
<1>6. s # <<>>
  BY <1>1 DEF Xml!ElementEnd
<1>7. h < Len(said) /\ h + 1 \in 1 .. Len(said)
  <2>1. h # Len(said)
    BY <1>5, <1>6
  <2> HIDE DEF h
  <2>2. QED
    BY <1>2, <2>1
<1>8. e \in Elements
  BY <1>2, <1>7
<1> HIDE DEF e, s, end, h, a
<1>9. PICK x \in Nat, y \in Nat \ {0}, z \in Nat : x = a /\ y = Len(e) /\ z = Len(s)
  BY <1>5, <1>7, <1>8, ElementsAre
<1>10. Len(buffer) > x
  BY <1>2, <1>5, <1>6, <1>7, <1>9
<1>11. /\ z = Len(buffer) - x
       /\ \A i \in 1 .. z : s[i] = buffer[x + i]
  BY <1>5, <1>7, <1>9, <1>10
<1>12. end = y /\ y <= z
  <2>1. /\ z < y => end = 0
        /\ z >= y => end = y
    BY <1>5, <1>7, <1>8, <1>9, ElementsAre, ElementFound DEF end
  <2>2. QED
    BY <1>1, <1>9, <2>1
<1>13. /\ buffer' \in Seq(Symbols) /\ Len(buffer') = z - y
       /\ \A i \in 1 .. z - y : buffer'[i] = s[y + i]
  <2>1. PICK r : r = s
    OBVIOUS
  <2>2. r \in Seq(Symbols) /\ y \in 0 .. Len(r) /\ Len(r) = z
    BY <1>5, <1>9, <1>12, <2>1
  <2>3. buffer' = SubSeq(r, y + 1, Len(r))
    BY <1>1, <1>12, <2>1
  <2>4. QED
    BY <2>1, <2>2, <2>3, RestFrom
<1>14. PICK c \in Nat : c = x + y /\ Len(buffer') = Len(buffer) - c /\ c <= Len(buffer)
  <2>1. x + y \in Nat /\ z - y = Len(buffer) - (x + y) /\ x + y <= Len(buffer)
    BY <1>2, <1>9, <1>11, <1>12
  <2>2. QED
    BY <1>13, <2>1
<1>15. ASSUME NEW i \in 1 .. Len(buffer') PROVE buffer'[i] = buffer[c + i]
  <2>1. y + i \in 1 .. z /\ x + (y + i) = c + i /\ i \in 1 .. z - y
    BY <1>2, <1>9, <1>11, <1>12, <1>13, <1>14
  <2>2. buffer'[i] = s[y + i] /\ s[y + i] = buffer[x + (y + i)]
    BY <1>11, <1>13, <2>1
  <2>3. QED
    BY <2>1, <2>2
<1> DEFINE t == buffer \o wire
           u == buffer' \o wire
<1>16. /\ t \in Seq(Symbols) /\ Len(t) = Len(buffer) + Len(wire)
       /\ \A p \in 1 .. Len(buffer) : t[p] = buffer[p]
       /\ \A i \in 1 .. Len(wire) : t[Len(buffer) + i] = wire[i]
  BY <1>2, Joined
<1>17. /\ u \in Seq(Symbols) /\ Len(u) = Len(buffer') + Len(wire)
       /\ \A p \in 1 .. Len(buffer') : u[p] = buffer'[p]
       /\ \A i \in 1 .. Len(wire) : u[Len(buffer') + i] = wire[i]
  <2>1. buffer' \in Seq(Symbols) /\ wire \in Seq(Symbols)
    BY <1>2, <1>13
  <2>2. QED
    BY <2>1, Joined
<1> HIDE DEF t, u
<1>18. Len(u) = Len(t) - c
  BY <1>2, <1>14, <1>16, <1>17
<1>19. ASSUME NEW p \in 1 .. Len(u) PROVE u[p] = t[c + p]
  <2>0. Len(buffer') \in Nat /\ p \in Nat /\ p <= Len(buffer') + Len(wire)
    BY <1>2, <1>13, <1>17
  <2>1. CASE p \in 1 .. Len(buffer')
    <3>1. c + p \in 1 .. Len(buffer)
      BY <1>2, <1>14, <2>0, <2>1
    <3>2. QED
      BY <1>15, <1>16, <1>17, <2>1, <3>1
  <2>2. CASE p > Len(buffer')
    <3>1. PICK i \in 1 .. Len(wire) : p = Len(buffer') + i
      <4>1. p - Len(buffer') \in 1 .. Len(wire) /\ p = Len(buffer') + (p - Len(buffer'))
        BY <1>2, <2>0, <2>2
      <4>2. QED
        BY <4>1
    <3>2. c + p = Len(buffer) + i
      BY <1>2, <1>14, <2>0, <3>1
    <3>3. QED
      BY <1>16, <1>17, <3>1, <3>2
  <2>3. QED
    BY <2>0, <2>1, <2>2
<1>20. PICK new : Laid(new, u, h + 1, said)
  <2>1. Laid(at, t, h, said) /\ c = at[h + 1] + Len(said[h + 1])
    BY <1>4, <1>9, <1>14 DEF t, a, e
  <2>2. /\ t \in Seq(Symbols) /\ h \in Nat /\ said \in Seq(Elements) /\ h < Len(said)
        /\ u \in Seq(Symbols) /\ Len(u) = Len(t) - c
        /\ \A p \in 1 .. Len(u) : u[p] = t[c + p]
    BY <1>2, <1>7, <1>16, <1>17, <1>18, <1>19
  <2>3. Rest(u, t, c)
    BY <2>2 DEF Rest
  <2>4. QED
    BY <2>1, <2>2, <2>3, LaidOn
<1>21. PICK g : g = SubSeq(s, 1, y) /\ g \in Seq(Symbols) /\ Len(g) = y
               /\ \A i \in 1 .. y : g[i] = s[i]
  <2>1. PICK r : r = s /\ r \in Seq(Symbols) /\ Len(r) = z
    BY <1>5, <1>9
  <2>2. /\ SubSeq(r, 1, y) \in Seq(Symbols) /\ Len(SubSeq(r, 1, y)) = y
        /\ \A i \in 1 .. y : SubSeq(r, 1, y)[i] = r[i]
    BY <1>9, <1>12, <2>1
  <2>3. QED
    BY <2>1, <2>2
<1>22. /\ heard' = Append(heard, g) /\ heard' \in Seq(Seq(Symbols)) /\ Len(heard') = h + 1
       /\ heard'[h + 1] = g /\ \A i \in 1 .. h : heard'[i] = heard[i]
  BY <1>1, <1>2, <1>12, <1>21 DEF h
<1>23. Xml!Agree(g, e)
  <2>1. \A i \in 1 .. y : Like(s[i], e[i])
    BY <1>5, <1>7, <1>9, <1>12 DEF Begins
  <2>2. DOMAIN g = 1 .. y
    BY <1>21
  <2>3. QED
    BY <1>9, <1>21, <2>1, <2>2 DEF Xml!Agree, Like
<1>24. ElementsInOrder'
  <2>1. ASSUME NEW i \in DOMAIN heard' PROVE Xml!Agree(heard'[i], said[i])
    <3>1. i \in 1 .. h + 1
      BY <1>22
    <3>2. CASE i = h + 1
      BY <1>22, <1>23, <3>2 DEF e
    <3>3. CASE i \in 1 .. h
      <4>1. Xml!Agree(heard[i], said[i])
        BY <1>2, <3>3 DEF StreamInv, ElementsInOrder, Xml!ElementsInOrder, h
      <4>2. QED
        BY <1>22, <3>3, <4>1
    <3>4. QED
      BY <1>2, <3>1, <3>2, <3>3
  <2>2. Len(heard') <= Len(said)
    BY <1>2, <1>7, <1>22
  <2>3. said' = said /\ Len(heard') <= Len(said')
    BY <1>1, <2>2
  <2>4. \A i \in DOMAIN heard' : Xml!Agree(heard'[i], said'[i])
    BY <2>1, <2>3
  <2>5. QED
    BY <2>3, <2>4 DEF ElementsInOrder, Xml!ElementsInOrder, Xml!Agree
<1>25. Waiting(new)'
  BY <1>1, <1>20, <1>22 DEF Waiting, u
<1>26. QED
  BY <1>1, <1>2, <1>13, <1>22, <1>24, <1>25 DEF StreamInv

\* There is no complete element in the buffer: the client waits.
LEMMA StreamDone ==
    ASSUME StreamInv, Xml!BufferDone
    PROVE  StreamInv'
<1> DEFINE s == Xml!LStrip(buffer)
           h == Len(heard)
           e == said[h + 1]
<1>1. /\ reader = "processing" /\ reader' = "reading" /\ Xml!ElementEnd(s) = 0
      /\ wire' = wire /\ buffer' = buffer /\ said' = said /\ heard' = heard
  BY DEF Xml!BufferDone
<1>2. /\ buffer \in Seq(Symbols) /\ said \in Seq(Elements) /\ heard \in Seq(Seq(Symbols))
      /\ h \in Nat /\ Len(said) \in Nat /\ Len(buffer) \in Nat
  BY DEF StreamInv
<1>3. PICK at : Waiting(at)
  BY <1>1 DEF StreamInv
<1>4. Laid(at, buffer \o wire, h, said)
  BY <1>3 DEF Waiting
<1>5. ASSUME h < Len(said) PROVE Len(buffer) < at[h + 1] + Len(e)
  <2>1. s \in Seq(Symbols) /\ at[h + 1] \in Nat /\ Begins(s, e)
        /\ (Len(buffer) > at[h + 1] => Len(s) = Len(buffer) - at[h + 1])
    BY <1>4, <1>5, AtFront
  <2>2. h + 1 \in 1 .. Len(said)
    BY <1>2, <1>5
  <2>3. e \in Elements
    BY <1>2, <2>2
  <2> HIDE DEF e, s
  <2>4. Len(e) \in Nat \ {0} /\ Len(s) \in Nat
    BY <2>1, <2>3, ElementsAre
  <2>5. ~(Len(s) >= Len(e))
    <3>1. Len(s) >= Len(e) => Xml!ElementEnd(s) = Len(e)
      BY <2>1, <2>3, ElementsAre, ElementFound
    <3>2. QED
      BY <1>1, <2>4, <3>1
  <2>6. QED
    BY <1>2, <2>1, <2>4, <2>5
<1>6. Waiting(at)'
  BY <1>1, <1>4, <1>5 DEF Waiting
<1>7. ElementsInOrder'
  BY <1>1 DEF StreamInv, ElementsInOrder, Xml!ElementsInOrder, Xml!Agree
<1>8. QED
  BY <1>1, <1>6, <1>7 DEF StreamInv

\* The connection is lost; the buffer stays as it is.
LEMMA StreamDown ==
    ASSUME StreamInv, Xml!Down
    PROVE  StreamInv'
<1>1. /\ reader' = "down" /\ wire' = <<>> /\ said' = <<>> /\ heard' = <<>> /\ buffer' = buffer
  BY DEF Xml!Down
<1>2. wire' \in Seq(Symbols) /\ said' \in Seq(Elements) /\ heard' \in Seq(Seq(Symbols))
      /\ buffer' \in Seq(Symbols)
  BY <1>1 DEF StreamInv
<1>3. ElementsInOrder'
  BY <1>1 DEF ElementsInOrder, Xml!ElementsInOrder
<1>4. QED
  BY <1>1, <1>2, <1>3 DEF StreamInv

\* A connection begins with nothing under way.
LEMMA StreamNew ==
    ASSUME NEW b \in Seq(Symbols), NEW w \in Seq(Symbols), Len(b) = 0, Len(w) = 0
    PROVE  \E at : Laid(at, b \o w, 0, <<>>)
<1>1. b \o w \in Seq(Symbols) /\ Len(b \o w) = 0
  BY Joined
<1>2. <<>> \in Seq(Elements) /\ Len(<<>>) = 0
  OBVIOUS
<1>3. PICK d, t : d = <<>> /\ t = b \o w
  OBVIOUS
<1>4. d \in Seq(Elements) /\ Len(d) = 0 /\ t \in Seq(Symbols) /\ Len(t) = 0
  BY <1>1, <1>2, <1>3
<1>5. \E at : Laid(at, t, 0, d)
  BY <1>4, NothingLies
<1>6. QED
  BY <1>3, <1>5

\* A new connection: the buffer is emptied.
LEMMA StreamUp ==
    ASSUME StreamInv, Xml!Up
    PROVE  StreamInv'
<1>1. /\ reader' = "reading" /\ buffer' = <<>> /\ wire' = <<>> /\ said' = <<>> /\ heard' = <<>>
  BY DEF Xml!Up, StreamInv
<1>2. wire' \in Seq(Symbols) /\ said' \in Seq(Elements) /\ heard' \in Seq(Seq(Symbols))
      /\ buffer' \in Seq(Symbols) /\ Len(heard') = 0 /\ Len(said') = 0
      /\ Len(wire') = 0 /\ Len(buffer') = 0
  BY <1>1
<1>3. ElementsInOrder'
  BY <1>1 DEF ElementsInOrder, Xml!ElementsInOrder
<1>4. PICK at : Laid(at, buffer' \o wire', 0, <<>>)
  BY <1>2, StreamNew
<1>5. Waiting(at)'
  BY <1>1, <1>2, <1>4 DEF Waiting
<1>6. QED
  BY <1>1, <1>2, <1>3, <1>5 DEF StreamInv

\* The first connection.
LEMMA StreamInit == Init => StreamInv
<1> SUFFICES ASSUME Init PROVE StreamInv
  OBVIOUS
<1>1. /\ reader = "reading" /\ buffer = <<>> /\ wire = <<>> /\ said = <<>> /\ heard = <<>>
  BY DEF Init, Xml!InitXml
<1>2. wire \in Seq(Symbols) /\ said \in Seq(Elements) /\ heard \in Seq(Seq(Symbols))
      /\ buffer \in Seq(Symbols) /\ Len(heard) = 0 /\ Len(said) = 0
      /\ Len(wire) = 0 /\ Len(buffer) = 0
  BY <1>1
<1>3. ElementsInOrder
  BY <1>1 DEF ElementsInOrder, Xml!ElementsInOrder
<1>4. PICK at : Laid(at, buffer \o wire, 0, <<>>)
  BY <1>2, StreamNew
<1>5. Waiting(at)
  BY <1>1, <1>2, <1>4 DEF Waiting
<1>6. QED
  BY <1>1, <1>2, <1>3, <1>5 DEF StreamInv

\* The stream is always as StreamInv says.
LEMMA StreamInvariant == Spec => []StreamInv
<1>1. StreamInv /\ [Next]_vars => StreamInv'
  <2> SUFFICES ASSUME StreamInv, [Next]_vars PROVE StreamInv'
    OBVIOUS
  <2>1. ASSUME NEW p \in Paths, Shoot(p) PROVE StreamInv'
    <3>1. Announcement(p) \in Elements
      BY DEF Elements
    <3>2. QED
      BY <2>1, <3>1, StreamSent DEF Shoot
  <2>2. ASSUME NEW e \in Others \cup {Announcement(p) : p \in Unseen}, SayOther(e)
        PROVE  StreamInv'
    <3>1. e \in Elements
      BY DEF Elements
    <3>2. QED
      BY <2>2, <3>1, StreamSent DEF SayOther
  <2>3. CASE Read
    BY <2>3, StreamRead, StreamDone DEF Read
  <2>4. CASE HandleElement
    BY <2>4, StreamTaken DEF HandleElement
  <2>5. CASE LinkLost \/ Die
    BY <2>5, StreamDown DEF LinkLost, Die
  <2>6. CASE Reconnect
    BY <2>6, StreamUp DEF Reconnect
  <2>7. CASE Write \/ UNCHANGED vars
    <3>1. UNCHANGED xmlVars
      BY <2>7 DEF Write, vars
    <3>2. QED
      BY <3>1 DEF xmlVars, StreamInv, Waiting, ElementsInOrder, Xml!ElementsInOrder, Xml!Agree
  <2>8. QED
    BY <2>1, <2>2, <2>3, <2>4, <2>5, <2>6, <2>7 DEF Next
<1>2. QED
  BY <1>1, StreamInit, PTL DEF Spec

\* Elements are taken whole, in the order in which they were sent, and once,
\* wherever the network cuts the stream and whatever an earlier connection left in
\* the buffer; only a character that is cut is not itself (_process_buffer).
THEOREM ElementsKeepOrder == Spec => []ElementsInOrder
<1>1. StreamInv => ElementsInOrder
  BY DEF StreamInv
<1>2. QED
  BY <1>1, StreamInvariant, PTL

\* When the read loop waits for data, less than one element is in the buffer: none
\* waits for the next one to be taken (_process_buffer takes all that is complete).
THEOREM ElementsTakenPromptly == Spec => []TakenPromptly
<1>1. ASSUME StreamInv PROVE TakenPromptly
  <2> SUFFICES ASSUME reader = "reading"
               PROVE  /\ wire = <<>> => Len(heard) = Len(said)
                      /\ Len(heard) < Len(said) =>
                           Len(Xml!LStrip(buffer)) < Len(said[Len(heard) + 1])
    BY DEF TakenPromptly, Xml!TakenPromptly
  <2>1. PICK at : Waiting(at)
    BY <1>1 DEF StreamInv
  <2> DEFINE h == Len(heard)
             s == Xml!LStrip(buffer)
             e == said[h + 1]
  <2>2. /\ buffer \in Seq(Symbols) /\ wire \in Seq(Symbols) /\ said \in Seq(Elements)
        /\ h \in Nat /\ Len(said) \in Nat /\ h <= Len(said) /\ Len(buffer) \in Nat
    BY <1>1 DEF StreamInv, ElementsInOrder, Xml!ElementsInOrder
  <2>3. CASE h < Len(said)
    <3>1. Laid(at, buffer \o wire, h, said) /\ Len(buffer) < at[h + 1] + Len(e)
      BY <2>1, <2>3 DEF Waiting
    <3>2. /\ at[h + 1] \in Nat
          /\ Len(buffer) <= at[h + 1] => s = <<>>
          /\ Len(buffer) > at[h + 1] => Len(s) = Len(buffer) - at[h + 1]
      BY <1>1, <2>3, <3>1, AtFront
    <3>3. h + 1 \in 1 .. Len(said) /\ h + 1 \in h + 1 .. Len(said)
      BY <2>2, <2>3
    <3>4. Len(e) \in Nat \ {0}
      BY <2>2, <3>3, ElementsAre
    <3>5. at[h + 1] + Len(e) <= Len(buffer \o wire)
      BY <3>1, <3>3 DEF Laid
    <3>6. wire # <<>>
      <4>1. Len(buffer \o wire) = Len(buffer) + Len(wire)
        BY <2>2, Joined
      <4>2. Len(wire) # 0
        BY <2>2, <3>1, <3>2, <3>4, <3>5, <4>1
      <4>3. QED
        BY <4>2
    <3>7. Len(s) < Len(e)
      <4>1. Len(<<>>) = 0
        OBVIOUS
      <4> HIDE DEF s, e, h
      <4>2. QED
        BY <2>2, <3>1, <3>2, <3>4, <4>1
    <3>8. QED
      BY <3>6, <3>7
  <2>4. CASE h = Len(said)
    BY <2>2, <2>4
  <2>5. QED
    BY <2>2, <2>3, <2>4
<1>2. QED
  BY <1>1, StreamInvariant, PTL
=============================================================================
