---------------------------- MODULE RedactionMC -----------------------------
(* Redaction over every message of a few tokens, and of longer ones over   *)
(* those that assign within a URL, as a value may then end inside the user *)
(* information, and those the collapse makes an assignment of.             *)
EXTENDS Redaction

CONSTANT MaxTokens

ShortMessages == UNION {[1..n -> Tokens] : n \in 0..MaxTokens}

AssigningUrls == {<<Word, Sep, Name>> \o rest : rest \in [1..4 -> Tokens]}

WideAssignments == {<<Name, Wide>> \o rest : rest \in [1..4 -> Tokens]}

SomeMessages == ShortMessages \cup AssigningUrls \cup WideAssignments
=============================================================================
