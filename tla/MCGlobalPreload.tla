--------------------------- MODULE MCGlobalPreload ---------------------------
(* Two shells, four commands, two faults, on an empty file, files with     *)
(* other libraries with and without a last newline, and files that list    *)
(* the library already, also twice.                                        *)
EXTENDS GlobalPreload

MCChars == {"l", "b", "x", "y", NL}
MCLib == <<"l", "b">>
MCContents ==
    { <<>>, <<"x">>, <<"x", NL>>, <<"x", NL, "y">>, <<"x", NL>> \o MCLib \o <<NL, "y", NL>>,
      <<"x", NL>> \o MCLib, MCLib \o <<NL>> \o MCLib \o <<NL>> }
=============================================================================
