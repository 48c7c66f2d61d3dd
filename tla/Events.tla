------------------------------- MODULE Events -------------------------------
(***************************************************************************)
(* What the components of the pipeline share: the identity of an event,    *)
(* its type, and the statuses of the event_status enum.                    *)
(***************************************************************************)
CONSTANTS
  Event,      \* row ids; a fresh UUID per insert
  EventType,  \* values of event_type
  TypeOf      \* the event_type each event is created with

ASSUME EventsAssumption == TypeOf \in [Event -> EventType]

EventStatus == {"pending", "processing", "completed", "failed"}

=============================================================================
