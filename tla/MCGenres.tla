------------------------------ MODULE MCGenres ------------------------------
(* Names that differ in case, in punctuation, by a sharp s (here sz), which *)
(* folds to ss, or by a capital I with a dot (here I.), which PostgreSQL's  *)
(* lower() turns into i and Python's casefold() into i and a combining dot, *)
(* no word character, which is a hyphen in the slug.                        *)
EXTENDS Genres, TLC

Names == {"Sci Fi", "SCI FI", "Sci-Fi", "Fuszball", "FUSSBALL"}

DottedNames == {"I.stanbul", "Istanbul", "Istanbul!"}

Keys == {"sci fi", "sci-fi", "fuszball", "fussball", "i.stanbul", "istanbul", "istanbul!"}

Slugs == {"sci-fi", "fuszball", "fussball", "i-stanbul", "istanbul"}

LowerOf == [n \in Name |->
               CASE n \in {"Sci Fi", "SCI FI"} -> "sci fi"
                 [] n = "Sci-Fi" -> "sci-fi"
                 [] n = "Fuszball" -> "fuszball"
                 [] n = "FUSSBALL" -> "fussball"
                 [] n \in {"I.stanbul", "Istanbul"} -> "istanbul"
                 [] n = "Istanbul!" -> "istanbul!"]

CasefoldOf == [n \in Name |-> CASE n = "Fuszball" -> "fussball"
                                [] n = "I.stanbul" -> "i.stanbul"
                                [] OTHER -> LowerOf[n]]

SlugOfKey == [k \in Key |-> CASE k = "sci fi" -> "sci-fi"
                              [] k = "i.stanbul" -> "i-stanbul"
                              [] k = "istanbul!" -> "istanbul"
                              [] OTHER -> k]

Symmetry == Permutations(Genre) \cup Permutations(Proc)

=============================================================================
