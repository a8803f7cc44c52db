------------------------------ MODULE MCWriter ------------------------------
(* Characters for Writer.                                                  *)
EXTENDS Writer

MCIndicators == {45}
\* One of each width that IS_PRINTABLE admits.
MCCharacters == {97, \hE9, \h20AC}
MCBreaks == {10, \h85, \h2028}
MCCRLF == <<13, 10>>
=============================================================================
