------------------------------ MODULE MCSpaces ------------------------------
(* Small instances of the Spaces application for TLC. *)
EXTENDS SpacesApp, TLC

d == <<"d">>
df == <<"d", "f">>
dg == <<"d", "g">>

Paths == {d, df, dg}
Contents == {"x"}

OneFile == Put(Put(EmptyTree, d, Directory), df, "x")

Requests ==
    {[do |-> "createFolder", path |-> d],
     [do |-> "uploadFile", path |-> df, content |-> "x"],
     [do |-> "renameFile", path |-> df, to |-> dg],
     [do |-> "deleteFile", path |-> df]}

\* Sources of distinct bytes, and of equal chunks.
Plain(n) == [i \in 1..n |-> i]
Repeating(n) == [i \in 1..n |-> i % 2]
Bytes == {Plain(n) : n \in {0, 1, 3, 5, 7, 9}} \cup {Repeating(n) : n \in {7, 8, 9}}

AllWorkloads == {{"files"}, {"files", "smoke"}, {"login"}, {"blob"}}

=============================================================================
