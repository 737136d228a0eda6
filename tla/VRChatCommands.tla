---------------------------- MODULE VRChatCommands ----------------------------
(***************************************************************************)
(* The command tree of the VRChat bot, as its constructors build it, and   *)
(* the input each hold command presses and releases.                       *)
(***************************************************************************)
EXTENDS Sequences

CONSTANTS FromArgument, JumpHold

Leaf == {"bool", "float", "int", "speak", "jump", "page", "moveLeft", "moveRight",
         "moveForward", "moveBackward", "lookLeft", "lookRight"}

VRChatCommand == {"vrchat", "move", "look"} \cup Leaf

VRChatRootCmd == <<"bool", "float", "int", "speak", "move", "look", "jump", "page">>
VRChatMoveCmd == <<"moveLeft", "moveRight", "moveForward", "moveBackward">>
VRChatLookCmd == <<"lookLeft", "lookRight">>

\* mySubCommands, restricted to the commands that an instance looks at.
SubCommandsOf(commands) ==
  [c \in commands |->
     SelectSeq(CASE c = "vrchat" -> VRChatRootCmd
                 [] c = "move"   -> VRChatMoveCmd
                 [] c = "look"   -> VRChatLookCmd
                 [] OTHER        -> << >>,
               LAMBDA s : s \in commands)]

Ancestors(c) ==
  CASE c = "vrchat" -> {}
    [] c \in {"moveLeft", "moveRight", "moveForward", "moveBackward"} -> {"vrchat", "move"}
    [] c \in {"lookLeft", "lookRight"} -> {"vrchat", "look"}
    [] OTHER -> {"vrchat"}

LineOf(commands) == [c \in commands |-> {c} \cup Ancestors(c)]

Hold(address) == [presses |-> address, releases |-> address, time |-> FromArgument]

MoveLeft     == Hold("/input/MoveLeft")
MoveRight    == Hold("/input/MoveRight")
MoveForward  == Hold("/input/MoveForward")
MoveBackward == Hold("/input/MoveBackward")
LookLeft     == Hold("/input/LookLeft")
Jump         == [Hold("/input/Jump") EXCEPT !.time = JumpHold]

\* Presses one address and releases another.
LookRight == [Hold("/input/LookRight") EXCEPT !.releases = "/input/LookLeft"]

VRChatHolds ==
  [moveLeft |-> MoveLeft, moveRight |-> MoveRight, moveForward |-> MoveForward,
   moveBackward |-> MoveBackward, lookLeft |-> LookLeft, lookRight |-> LookRight,
   jump |-> Jump]

HoldsOf(commands) == [c \in commands \cap DOMAIN VRChatHolds |-> VRChatHolds[c]]

AddressesOf(commands) ==
  {VRChatHolds[c].presses : c \in commands \cap DOMAIN VRChatHolds}
    \cup {VRChatHolds[c].releases : c \in commands \cap DOMAIN VRChatHolds}
=============================================================================
