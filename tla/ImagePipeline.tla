--------------------------- MODULE ImagePipeline ---------------------------
(***************************************************************************)
(* From the bytes that name an image to its sidecar: the read loop of      *)
(* XmlStream, which hands an element to the adapter and the capture        *)
(* service, and the file steps of SidecarWriter, during which it reads     *)
(* nothing.  The connection may be lost and the process may die at any     *)
(* point; the files stay.                                                  *)
(***************************************************************************)
EXTENDS Naturals, Sequences

CONSTANTS
    Paths,     \* paths of images that the container can see
    Unseen,    \* paths of images that it cannot see
    Others,    \* elements that announce no image
    NoPath,    \* "no image yet"
    Separators, MaxElements,    \* see XmlStream
    MaxWrites, Image, Partial   \* see SidecarWriter

\* Contents can be told from each other and from the number of a call.
ASSUME ContentsAssumption ==
    Image \notin Nat /\ Partial \notin Nat /\ Image # Partial
ASSUME PathsAssumption == Paths \subseteq Seq(STRING)

VARIABLES wire, buffer, reader, said, heard,    \* see XmlStream
          files, temps, asked, step, results,   \* see SidecarWriter
          lastImage    \* _last_image_path of the adapter, or NoPath

\* The element that announces the image p, as XmlStream has it.
Announcement(p) == <<"<", "t", "sp", ">">> \o p \o <<"<", "/", "t", ">">>

Xml == INSTANCE XmlStream
Sidecar == INSTANCE SidecarWriter

xmlVars == <<wire, buffer, reader, said, heard>>
sidecarVars == <<files, temps, asked, step, results>>
vars == <<xmlVars, sidecarVars, lastImage>>

\* All that the server says.
Elements == Others \cup {Announcement(p) : p \in Paths \cup Unseen}

ASSUME ElementsAssumption == \A e \in Elements : Xml!IsElement(e)
ASSUME SeparatorsAssumption == Separators \subseteq Seq(Xml!Blanks)

Init == Xml!InitXml /\ Sidecar!InitFiles /\ lastImage = NoPath

-----------------------------------------------------------------------------
(* The server (external) *)

\* An image is written and announced.
Shoot(p) ==
    /\ Sidecar!WriteImage(p) /\ Xml!Say(Announcement(p))
    /\ UNCHANGED lastImage

\* Anything else is announced, or an image that the container does not see.
SayOther(e) ==
    /\ Xml!Say(e)
    /\ UNCHANGED <<sidecarVars, lastImage>>

-----------------------------------------------------------------------------
(* The service *)

\* The event loop is free, or write_sidecar is running in it.
LoopFree == step = "idle"

Read ==
    /\ LoopFree /\ (Xml!ReadChunk \/ Xml!BufferDone)
    /\ UNCHANGED <<sidecarVars, lastImage>>

Names(e) == Xml!TagName(e) = <<"t">>

\* os.path.isfile(), of the adapter and of the capture service.
IsFile(p) == p \in DOMAIN files

\* What is done with an image that was announced under p: nothing if it is the
\* last one again or cannot be seen; nothing if no capture waits for it; else its
\* sidecar is begun.
HandleImage(p) ==
    /\ lastImage' = p
    /\ \/ UNCHANGED sidecarVars
       \/ /\ p # lastImage /\ IsFile(p)
          /\ Sidecar!Mkstemp(p) \/ Sidecar!MkstempFails(p)

\* The next element is taken from the buffer and handled.
HandleElement ==
    /\ LoopFree /\ Xml!NextElement
    /\ LET e == heard'[Len(heard')]
       IN  IF Names(e) THEN HandleImage(Xml!TextOf(e))
           ELSE UNCHANGED <<sidecarVars, lastImage>>

Write == Sidecar!WriteStep /\ UNCHANGED <<xmlVars, lastImage>>

LinkLost == LoopFree /\ Xml!Down /\ UNCHANGED <<sidecarVars, lastImage>>

Reconnect == Xml!Up /\ UNCHANGED <<sidecarVars, lastImage>>

\* The process dies, wherever it is.
Die ==
    /\ Xml!Down /\ Sidecar!Crash
    /\ lastImage' = NoPath

Next ==
    \/ \E p \in Paths : Shoot(p)
    \/ \E e \in Others \cup {Announcement(p) : p \in Unseen} : SayOther(e)
    \/ Read \/ HandleElement \/ Write \/ LinkLost \/ Reconnect \/ Die

Spec == Init /\ [][Next]_vars

-----------------------------------------------------------------------------
(* Properties *)

ElementsInOrder == Xml!ElementsInOrder
TakenPromptly == Xml!TakenPromptly
FilesWhole == Sidecar!FilesWhole
ResultIsTrue == Sidecar!ResultIsTrue
=============================================================================
