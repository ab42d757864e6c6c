---------------------------- MODULE MCLibraries -----------------------------
(* Separators, a drive letter, dots; the characters that mean something in a
   URL, with the digits of "%25", the two bytes of a letter with an accent and
   one that is in no text; bytes whose bits show where they end up.  A file of
   two and a half buffers; numbers with leading zeros and set top bits; a
   counter of three binary digits. *)
EXTENDS Libraries

MCChars == [path |-> {92, 47, 58, 46, 97},
            url |-> {37, 50, 53, 43, 32, 47, 58, 63, 35, 97, 38, 61, 169, 195, 255},
            data |-> {0, 1, 63, 128, 170, 255}]
MCMaxLen == [path |-> 5, url |-> 4, data |-> 4]
MCSource == <<1, 2, 3, 4, 5>>
MCCwd == <<67, 58, 92, 97>>
=============================================================================
