-------------------------- MODULE MCSubagentFollowing --------------------------
(* The instance of SubagentFollowing for TLC. *)
EXTENDS SubagentFollowing

Text(byte) == <<[byte |-> byte, text |-> TRUE]>>
Hidden(bytes) == [k \in DOMAIN bytes |-> [byte |-> bytes[k], text |-> FALSE]]

(* Escape sequences and control bytes a terminal shows nothing of. *)
Colour == Hidden(<<"esc", "[", "digit", "letter">>)
Title == Hidden(<<"esc", "]", "[", "bell">>)
TitleSt == Hidden(<<"esc", "]", "esc", "esc", "\\">>)
Charset == Hidden(<<"esc", "space", "letter">>)
Keypad == Hidden(<<"esc", "digit">>)
Backspace == Hidden(<<"control", "del">>)

MCStream ==
  {Text("letter") \o Colour \o Text("newline") \o Charset,
   Title \o Text("high") \o Text("]") \o Keypad,
   TitleSt \o Text("digit") \o Backspace \o Text("space")}
=============================================================================
