------------------------------ MODULE Console ------------------------------
(***************************************************************************)
(* What a program that talks to HTIF may rely on: it asks for one thing at *)
(* a time, a character to be shown or the machine to be turned off, and    *)
(* that thing happens once and before it can ask again.                    *)
(***************************************************************************)
EXTENDS Sequences, Naturals

CONSTANTS Char, Nothing, PowerOff

VARIABLES asked, shown, off

consoleVars == <<asked, shown, off>>

ConsoleInit == asked = Nothing /\ shown = <<>> /\ off = FALSE

Ask(request) ==
  /\ asked = Nothing /\ ~off
  /\ asked' = request
  /\ UNCHANGED <<shown, off>>

Show ==
  /\ asked \in Char
  /\ shown' = Append(shown, asked)
  /\ asked' = Nothing
  /\ UNCHANGED off

TurnOff ==
  /\ asked = PowerOff
  /\ off' = TRUE
  /\ asked' = Nothing
  /\ UNCHANGED shown

ConsoleNext == (\E request \in Char \cup {PowerOff} : Ask(request)) \/ Show \/ TurnOff

ConsoleSpec == ConsoleInit /\ [][ConsoleNext]_consoleVars

=============================================================================
