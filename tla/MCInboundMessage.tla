--------------------------- MODULE MCInboundMessage ---------------------------
EXTENDS InboundMessage

\* The longest text fills a message exactly to the limit, and one byte more passes it.
ASSUME LimitIsMet ==
  \E e \in EnvelopeBytes : e + maxTextLength = maxInboundMessageBytes
=============================================================================
