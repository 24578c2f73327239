--------------------------- MODULE MCNotifications ---------------------------
EXTENDS Notifications

Full == [voided |-> FALSE, channels |-> [c \in Channel |-> "on"],
         slots |-> Channel]

\* What the model's templates may be: complete, deleted, without a channel's text
\* and with channels that metadata does not mention.
MCTemplates ==
  {Full, [Full EXCEPT !.voided = TRUE],
   [Full EXCEPT !.channels["PUSH"] = "unsaid"],
   [Full EXCEPT !.channels["EMAIL"] = "off", !.slots = {}]}

=============================================================================
