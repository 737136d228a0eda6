-------------------------- MODULE MCCommandTimers --------------------------
(* A part of the VRChat tree, which the configuration chooses.              *)
EXTENDS CommandTimers

CONSTANTS JumpHold, Arguments, BrokenRegex

Tree == INSTANCE VRChatCommands

\* "!vrchat move left 3", regular expressions that match every command, and one
\* that does not compile, asked when the commands above it have matched.
MCMessages ==
  [matches : {Line[c] : c \in DOMAIN Holds} \cup {Command}, broken : {{}},
   arg : Arguments]
    \cup {[matches |-> Line[c] \ {c}, broken |-> {c}, arg |-> NoArgument] : c \in BrokenRegex}

MCSubCommands == Tree!SubCommandsOf(Command)
MCLine == Tree!LineOf(Command)
MCHolds == Tree!HoldsOf(Command)
MCAddress == Tree!AddressesOf(Command)
=============================================================================
