---------------------------- MODULE MCAlgorithms ----------------------------
(***************************************************************************)
(* One call of one exercise on every input within the bounds.              *)
(***************************************************************************)
EXTENDS ArrayAlgorithms, NumberAlgorithms, ListAlgorithms, TreeAlgorithms, PolicyParser, PartList

MCNodeValues == {-1, 2}

(* All small numbers, and those around the first titles of three letters. *)
MCNumbers == 1..120 \cup 695..710

(* Policies: every kind of host on both sides, with and without blanks.    *)
MCHosts ==
  {<<"8", "0">>, <<"1", "2", "3", "4", "5">>, <<"any", ":", "1">>, <<"localhost", ":", "9", "9">>,
   <<"1", ".", "2", "0", ".", "3", ".", "4", ":", "5">>,
   <<"2", "5", "5", ".", "2", "5", "5", ".", "2", "5", "5", ".", "2", "5", "5", ":",
     "6", "5", "5", "3", "5">>}
MCBlanks == {<<>>, <<" ">>}

MCSingles == {h \o b \o <<"->">> \o c \o r : h, r \in MCHosts, b, c \in MCBlanks}
MCMembers == MCHosts \cup {g \o <<" ">> \o h : g, h \in MCHosts}
MCGroups ==
  {h \o <<"->", t>> \o b \o <<"{">> \o c \o m \o d \o <<"}">> :
     h \in MCHosts, t \in {"rr", "hash"}, b, c, d \in MCBlanks, m \in MCMembers}

(* Texts that differ from a policy in one token, most of them not policies. *)
MCTokens == {"1", "2", ".", ":", " ", "->", "{", "}", "rr", "any", "other"}
MCBases ==
  {<<"any", ":", "8", "->", "1", "2", ".", "3", ".", "4", ".", "5", ":", "6">>,
   <<"1", "2", "3", "->", " ", "hash", " ", "{", " ", "4", "5", " ", "any", ":", "6", "}">>,
   <<"1", "2", "3", ".", "1", "2", "3", ".", "1", "2", "3", ".", "1", "2", "3", ":", "7",
     " ", "->", "1", "2", "3", "4", "5">>}
MCEdited(s) ==
  {RemoveAt(s, i) : i \in 1..Len(s)}
    \cup {ReplaceAt(s, i, c) : i \in 1..Len(s), c \in MCTokens}
    \cup {InsertAt(s, i, c) : i \in 1..(Len(s) + 1), c \in MCTokens}

MCPolicyArgs ==
  {<<>>} \cup {<<s>> : s \in MCSingles \cup MCGroups \cup UNION {MCEdited(b) : b \in MCBases}}
    \cup {<<s, t>> : s, t \in MCBases \cup {<<>>}} \cup {<<s, t, u>> : s, t, u \in MCBases}

Init ==
  /\ job \in ArrayJobs \cup NumberJobs \cup ListJobs \cup TreeJobs \cup PolicyJobs \cup PartJobs
  /\ out = <<>>

Next == ArrayNext \/ NumberNext \/ ListNext \/ TreeNext \/ PolicyNext \/ PartNext

Spec == Init /\ [][Next]_jobVars

(* Every exercise leaves what its reference definition says, on every      *)
(* input: sorting and searching in arrays, arithmetic on numbers, cutting  *)
(* and linking lists, walking trees, filling and printing a list of parts. *)
ExercisesRight == ArraysRight /\ NumbersRight /\ ListsRight /\ TreesRight /\ PartsRight
=============================================================================
