----------------------------- MODULE MCHeaders ------------------------------
(***************************************************************************)
(* Small instances of Headers.                                             *)
(***************************************************************************)
EXTENDS Headers, TLC

Upper(n) == [n EXCEPT !.case = "mixed"]
Underscored(n) == [n EXCEPT !.sep = "_"]

\* Two spellings of an own header, the secret's name, a reserved one with underscores,
\* and a name that begins with "http-".
SomeNames == {Upper(Name("x-id")), Underscored(Name("x-id")), Name("x-secret"),
              Underscored(Upper(Name("x-cloudtasks-taskretrycount"))),
              [Name("x-id") EXCEPT !.http = 1]}

FewNames == {Name("x-id"), Upper(Name("authorization"))}

DashedSecretNames == {Name("x-secret"), Upper(Name("x-secret"))}
SomeSecretNames == DashedSecretNames \cup {Underscored(Name("x-secret"))}
UnderscoredSecretNames == {Underscored(Upper(Name("x-secret")))}

Interchangeable == Permutations(Secrets)
=============================================================================
