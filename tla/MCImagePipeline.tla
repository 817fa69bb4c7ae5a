-------------------------- MODULE MCImagePipeline --------------------------
(***************************************************************************)
(* ImagePipeline for TLC: the path of the images has a character of two    *)
(* bytes; an element has a child that closes itself, another closes itself *)
(* as a whole.                                                             *)
(***************************************************************************)
EXTENDS ImagePipeline

SomePaths == {<<"e1", "e2", "fits">>}
SomeUnseen == {<<"u", "fits">>}
SomeOthers == {<<"<", "v", ">", "<", "c", "/", ">", "<", "/", "v", ">">>,
               <<"<", "d", "/", ">">>}
SomeSeparators == {<<>>, <<"nl">>}
=============================================================================
