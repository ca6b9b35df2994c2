----------------------------- MODULE InputNames ------------------------------
(***************************************************************************)
(* The names of mouse buttons on their way from a request to a backend.    *)
(*                                                                         *)
(* ParseMouseButtonName turns what a user writes into a canonical evdev    *)
(* name, and MouseButtonName.String gives that canonical name back.  The   *)
(* RDP and VNC sessions look the button up again by String(); the other    *)
(* backends use its evdev code.                                            *)
(***************************************************************************)

CanonicalButtons == {"BTN_LEFT", "BTN_RIGHT", "BTN_MIDDLE", "BTN_SIDE",
                     "BTN_EXTRA", "BTN_FORWARD", "BTN_BACK", "BTN_TASK"}

\* What a user may write, after normalize().
ButtonNames ==
  [BTN_LEFT    |-> {"left", "button1", "1"},
   BTN_RIGHT   |-> {"right", "button3", "3"},
   BTN_MIDDLE  |-> {"middle", "button2", "2"},
   BTN_SIDE    |-> {"side", "button4", "4"},
   BTN_EXTRA   |-> {"extra", "button5", "5"},
   BTN_FORWARD |-> {"forward", "button9", "9"},
   BTN_BACK    |-> {"back", "button8", "8"},
   BTN_TASK    |-> {"task", "button10", "10"}]

UserNames == UNION {ButtonNames[b] : b \in CanonicalButtons}

\* ParseMouseButtonName(name).String(), for a name it knows.
ParseMouseButton(name) == CHOOSE b \in CanonicalButtons : name \in ButtonNames[b]

\* strings.ToLower of a canonical name, which is what a session looks up.
Lowered ==
  [BTN_LEFT    |-> "btn_left",
   BTN_RIGHT   |-> "btn_right",
   BTN_MIDDLE  |-> "btn_middle",
   BTN_SIDE    |-> "btn_side",
   BTN_EXTRA   |-> "btn_extra",
   BTN_FORWARD |-> "btn_forward",
   BTN_BACK    |-> "btn_back",
   BTN_TASK    |-> "btn_task"]

\* The names for which freerdp's mouseButtonFlags has a case.
RdpButtons == {"left", "right", "middle", "x1", "back", "x2", "forward"}

\* The names for which vnc's buttonMask has a case.
VncButtons == {"left", "button1", "1", "middle", "button2", "2",
               "right", "button3", "3", "back", "button8", "8",
               "forward", "button9", "9"}

\* The sessions that take a canonical button.
SessionsTaking(b) ==
  {s \in {"rdp", "vnc"} : Lowered[b] \in IF s = "rdp" THEN RdpButtons
                                                     ELSE VncButtons}

==============================================================================
