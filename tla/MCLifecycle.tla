---- MODULE MCLifecycle ----
EXTENDS Lifecycle

\* Every fault but an unreadable disk image, which the exit cannot tell from
\* an image without saves.
MCFault == {"reap", "outlive", "restore", "inject", "launch", "record", "unsure", "capture",
            "raise", "dump", "upload", "keep", "crash"}
====
