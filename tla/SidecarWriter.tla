--------------------------- MODULE SidecarWriter ---------------------------
(***************************************************************************)
(* SidecarWriter.write_sidecar: the metadata of an image are written to a  *)
(* temporary file, which is renamed to the sidecar's name.                 *)
(*                                                                         *)
(* The event loop does nothing else meanwhile, but other programs read the *)
(* directory, the disk may refuse each of the steps, and the process may   *)
(* die between any two of them.  A path is a sequence of parts, so that    *)
(* fits_path.replace(".fits", ".json") can be told from a change of the    *)
(* extension.  Images are written by the INDIGO server (external).         *)
(***************************************************************************)
EXTENDS Naturals, Sequences, SequencesExt

CONSTANTS
    MaxWrites,   \* bound: calls of write_sidecar
    Image,       \* the contents of an image
    Partial      \* the contents of a file that is being written

VARIABLES
    files,    \* what each existing path holds: Image, Partial, or the number of
              \* the call whose metadata it has
    temps,    \* what the temporary file of each call holds, while it exists
    asked,    \* the path that each call was asked for; its length is the number
              \* of the latest call
    step,     \* how far the latest call has got, or "idle"
    results   \* history: what each call that returned has returned

sidecarVars == <<files, temps, asked, step, results>>

Put(f, x, y) == [z \in DOMAIN f \cup {x} |-> IF z = x THEN y ELSE f[z]]
Without(f, x) == Restrict(f, DOMAIN f \ {x})

\* Mutant of SidecarPath: the extension is looked for in capitals.
SidecarPathOfFITS(p) == ReplaceAll(p, "FITS", "json")

\* fits_path.replace(".fits", ".json")
SidecarPath(p) == ReplaceAll(p, "fits", "json")

call == Len(asked)
target == SidecarPath(asked[call])

-----------------------------------------------------------------------------
InitFiles ==
    /\ files = <<>> /\ temps = <<>>
    /\ asked = <<>> /\ step = "idle" /\ results = <<>>

\* The server writes an image (external).
WriteImage(p) ==
    /\ files' = Put(files, p, Image)
    /\ UNCHANGED <<temps, asked, step, results>>

Return(result) ==
    /\ results' = Put(results, call', result)
    /\ step' = "idle"

\* mkstemp() makes a temporary file.
Mkstemp(p) ==
    /\ step = "idle" /\ call < MaxWrites
    /\ asked' = Append(asked, p)
    /\ temps' = Put(temps, call', Partial)
    /\ step' = "made"
    /\ UNCHANGED <<files, results>>

\* mkstemp() raises: there is nothing to clean up.
MkstempFails(p) ==
    /\ step = "idle" /\ call < MaxWrites
    /\ asked' = Append(asked, p)
    /\ Return(FALSE)
    /\ UNCHANGED <<files, temps>>

\* Mutant of Dump: the temporary file is done without.
DumpInPlace ==
    /\ step = "made"
    /\ \E text \in {Partial, call} : files' = Put(files, target, text)
    /\ temps' = [temps EXCEPT ![call] = call]
    /\ step' = "dumped"
    /\ UNCHANGED <<asked, results>>

\* json.dump() and the end of the with statement.
Dump ==
    /\ step = "made"
    /\ temps' = [temps EXCEPT ![call] = call]
    /\ step' = "dumped"
    /\ UNCHANGED <<files, asked, results>>

\* json.dump() or os.rename() raises.
WriteFails ==
    /\ step \in {"made", "dumped"}
    /\ step' = "failed"
    /\ UNCHANGED <<files, temps, asked, results>>

\* os.rename() replaces what the sidecar's path held.
Rename ==
    /\ step = "dumped"
    /\ files' = Put(files, target, temps[call])
    /\ temps' = Without(temps, call)
    /\ asked' = asked
    /\ Return(TRUE)

\* Mutant of CleanUp: the exception is not passed on.
CleanUpSwallows ==
    /\ step = "failed"
    /\ temps' \in {temps, Without(temps, call)}
    /\ asked' = asked
    /\ Return(TRUE)
    /\ UNCHANGED files

\* The temporary file is removed, unless os.unlink() raises as well.
CleanUp ==
    /\ step = "failed"
    /\ temps' \in {temps, Without(temps, call)}
    /\ asked' = asked
    /\ Return(FALSE)
    /\ UNCHANGED files

\* The process dies and is started again.
Crash ==
    /\ step' = "idle"
    /\ UNCHANGED <<files, temps, asked, results>>

\* What a call does once it has begun.
WriteStep == Dump \/ WriteFails \/ Rename \/ CleanUp

-----------------------------------------------------------------------------
(* Properties *)

\* Whenever another program looks, after a crash too: no path holds a half
\* written file, and what is named as an image is an image.
FilesWhole ==
    \A p \in DOMAIN files :
        /\ files[p] # Partial
        /\ Contains(p, "fits") => files[p] = Image

\* What write_sidecar returns is so: after True the sidecar beside the image is
\* that call's or a later one's, and no temporary file is left; after False no
\* file has anything of that call, and the earlier sidecar is untouched.
ResultIsTrue ==
    \A n \in DOMAIN results :
        IF results[n]
        THEN /\ n \notin DOMAIN temps
             /\ LET p == SidecarPath(asked[n])
                IN  p \in DOMAIN files /\ (files[p] = Image \/ files[p] >= n)
        ELSE \A p \in DOMAIN files : files[p] # n
=============================================================================
